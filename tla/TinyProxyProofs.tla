-------------------------- MODULE TinyProxyProofs ---------------------------
(* Theorems about TinyProxy.                                               *)
EXTENDS TinyProxy, IoTableProofs, SequenceTheorems

-----------------------------------------------------------------------------
(* The table that tinyproxy keeps, with the open descriptors o.  It goes   *)
(* on asking for events of closed sockets, for reading only; the count of  *)
(* watched descriptors may therefore drift, but not down, and by no more   *)
(* than n.  What is open or wanted has its place in the table: of a client *)
(* that was refused the number may have none, and nothing is done for it.  *)

TidyEntry(e, isopen) ==
  /\ "inuse" \in e.flags <=> isopen
  /\ isopen => e.want \cup e.can \subseteq e.kern
  /\ ~isopen => e.want \cup e.kern \subseteq {"r"}

Drift(s, n) ==
  /\ Cardinality(Watched(s)) <= s.wanted
  /\ s.wanted <= Cardinality(Watched(s)) + n

Placed(s, o) == \A d \in Fds : d \in o \/ s.ent[d].want # {} => d \in s.mapped

Tidy(s, o, n) ==
  /\ s \in TableType
  /\ Placed(s, o)
  /\ \A d \in Fds : TidyEntry(s.ent[d], d \in o)
  /\ Drift(s, n)

\* A descriptor is opened, or closed.
Adds(o, p, d) == \A x \in Fds : x \in p <=> x \in o \/ x = d
Drops(o, p, d) == \A x \in Fds : x \in p <=> x \in o /\ x # d

\* The count is far from where it wraps.
Slack(n) == n \in Nat /\ Cardinality(Fds) + n < Wrap

LEMMA DriftSame ==
  ASSUME NEW s, NEW t, NEW n, NEW d \in Fds, Drift(s, n),
         \A x \in Fds \ {d} : t.ent[x] = s.ent[x],
         t.ent[d].kern = {} <=> s.ent[d].kern = {},
         t.wanted = s.wanted
  PROVE  Drift(t, n)
<1>1. \A x \in Fds : t.ent[x].kern # {} <=> s.ent[x].kern # {}
  OBVIOUS
<1>2. Watched(t) = Watched(s)
  BY <1>1 DEF Watched
<1> QED BY <1>2 DEF Drift

LEMMA DriftUp ==
  ASSUME NEW s \in TableType, NEW t, NEW n, Slack(n), NEW d \in Fds, Drift(s, n),
         \A x \in Fds \ {d} : t.ent[x] = s.ent[x],
         s.ent[d].kern = {}, t.ent[d].kern # {},
         t.wanted = (s.wanted + 1) % Wrap
  PROVE  Drift(t, n)
<1>1. Watched(t) = Watched(s) \cup {d} /\ d \notin Watched(s)
  BY DEF Watched
<1>2. Cardinality(Watched(t)) = Cardinality(Watched(s)) + 1
  BY <1>1, WatchedFinite, FS_AddElement
<1>3. /\ Cardinality(Watched(t)) \in Nat /\ Cardinality(Watched(t)) <= Cardinality(Fds)
      /\ Cardinality(Watched(s)) \in Nat
  BY WatchedFinite
<1>4. s.wanted \in Nat /\ n \in Nat /\ Cardinality(Fds) + n < Wrap
      /\ Cardinality(Fds) \in Nat /\ Wrap \in Nat
  BY WrapFacts DEF TableType, Slack
<1>5. s.wanted + 1 \in 0 .. Wrap - 1
  BY <1>2, <1>3, <1>4 DEF Drift
<1>6. t.wanted = s.wanted + 1
  BY <1>5, WrapFacts
<1> QED BY <1>2, <1>3, <1>4, <1>6 DEF Drift

LEMMA DriftDown ==
  ASSUME NEW s \in TableType, NEW t, NEW n \in Nat, NEW d \in Fds, Drift(s, n),
         \A x \in Fds \ {d} : t.ent[x] = s.ent[x],
         s.ent[d].kern # {}, t.ent[d].kern = {},
         t.wanted = (s.wanted - 1) % Wrap
  PROVE  Drift(t, n)
<1>1. Watched(t) = Watched(s) \ {d} /\ d \in Watched(s)
  BY DEF Watched
<1>2. Cardinality(Watched(t)) = Cardinality(Watched(s)) - 1
  BY <1>1, WatchedFinite, FS_RemoveElement
<1>3. Cardinality(Watched(t)) \in Nat /\ Cardinality(Watched(s)) \in Nat
  BY WatchedFinite
<1>4. s.wanted \in 0 .. Wrap - 1
  BY DEF TableType
<1>5. s.wanted - 1 \in 0 .. Wrap - 1
  BY SMTT(30), <1>2, <1>3, <1>4, WrapFacts DEF Drift
<1>6. t.wanted = s.wanted - 1
  BY <1>5, WrapFacts
<1> QED BY SMTT(30), <1>2, <1>3, <1>4, <1>6, WrapFacts DEF Drift

\* A descriptor that was watched is forgotten, and still counted.
LEMMA DriftNew ==
  ASSUME NEW s \in TableType, NEW t, NEW n \in Nat, NEW d \in Fds, Drift(s, n),
         \A x \in Fds \ {d} : t.ent[x] = s.ent[x],
         t.ent[d].kern = {},
         t.wanted = s.wanted
  PROVE  Drift(t, n + 1)
<1>1. Watched(t) = Watched(s) \ {d}
  BY DEF Watched
<1>2. \/ Cardinality(Watched(t)) = Cardinality(Watched(s)) - 1
      \/ Cardinality(Watched(t)) = Cardinality(Watched(s))
  BY <1>1, WatchedFinite, FS_RemoveElement
<1>3. Cardinality(Watched(t)) \in Nat /\ Cardinality(Watched(s)) \in Nat /\ s.wanted \in Nat
  BY WatchedFinite, WrapFacts DEF TableType
<1> QED BY <1>2, <1>3 DEF Drift

-----------------------------------------------------------------------------
(* A call that changes the entry of d: what it wants, can and is watched   *)
(* for then.                                                               *)

Becomes(s, t, d, want, can, kern) ==
  /\ Frame(s, t, d)
  /\ t.len = s.len
  /\ t.ent[d].want = want /\ t.ent[d].can = can /\ t.ent[d].kern = kern

LEMMA TidyAfter ==
  ASSUME NEW s, NEW t, NEW o, NEW n, Slack(n), NEW d \in Fds, Tidy(s, o, n),
         NEW want, NEW can, NEW kern, Becomes(s, t, d, want, can, kern),
         d \in s.mapped \/ want = {},
         d \in o => want \cup can \subseteq kern,
         d \notin o => want \cup kern \subseteq {"r"},
         \/ (kern = {} <=> s.ent[d].kern = {}) /\ t.wanted = s.wanted
         \/ kern # {} /\ s.ent[d].kern = {} /\ t.wanted = (s.wanted + 1) % Wrap
         \/ kern = {} /\ s.ent[d].kern # {} /\ t.wanted = (s.wanted - 1) % Wrap
  PROVE  Tidy(t, o, n)
<1>1. t \in TableType /\ s \in TableType /\ Drift(s, n) /\ n \in Nat
  BY DEF Becomes, Frame, Tidy, Slack
<1>2. \A x \in Fds \ {d} : t.ent[x] = s.ent[x]
  BY DEF Becomes, Frame
<1>3. TidyEntry(t.ent[d], d \in o)
  BY DEF Becomes, Frame, Tidy, TidyEntry
<1>4. \A x \in Fds : TidyEntry(t.ent[x], x \in o)
  BY <1>2, <1>3 DEF Tidy
<1>5. t.ent[d].kern = kern
  BY DEF Becomes
<1>6. Drift(t, n)
  BY <1>1, <1>2, <1>5, DriftSame, DriftUp, DriftDown
<1>7. Placed(t, o)
  <2>1. Placed(s, o) /\ t.mapped = s.mapped /\ t.ent[d].want = want
    BY DEF Becomes, Frame, Tidy
  <2> QED BY <2>1, <1>2 DEF Placed
<1> QED BY <1>1, <1>4, <1>6, <1>7 DEF Tidy

\* The functions of the table that do so.
LEMMA SetBecomes ==
  ASSUME NEW s \in TableType, NEW d \in Fds, NEW e \in EntryType,
         e.flags = s.ent[d].flags, NEW t, t = SetEntry(s, d, e)
  PROVE  Becomes(s, t, d, e.want, e.can, e.kern) /\ t.wanted = s.wanted
<1>1. Frame(s, t, d) /\ t.ent[d] = e /\ t.wanted = s.wanted
  BY EntryEffect
<1>2. t.len = s.len
  BY DEF SetEntry, TableType
<1> QED BY <1>1, <1>2 DEF Becomes

LEMMA WantBecomes ==
  ASSUME NEW s \in TableType, NEW d \in Fds, NEW dir \in Dirs,
         NEW t, t = [s EXCEPT !.ent[d].want = @ \cup {dir}]
  PROVE  /\ Becomes(s, t, d, s.ent[d].want \cup {dir}, s.ent[d].can, s.ent[d].kern)
         /\ t.wanted = s.wanted
<1>1. PICK e : e = [s.ent[d] EXCEPT !.want = @ \cup {dir}]
  OBVIOUS
<1>2. s.ent[d] \in EntryType /\ {dir} \in SUBSET Dirs
  BY DEF TableType
<1>3. e \in EntryType
  BY <1>1, <1>2 DEF EntryType
<1>4. /\ e.want = s.ent[d].want \cup {dir} /\ e.can = s.ent[d].can
      /\ e.kern = s.ent[d].kern /\ e.flags = s.ent[d].flags
  BY <1>1, <1>2 DEF EntryType
<1>5. t = SetEntry(s, d, e)
  BY <1>1 DEF TableType, SetEntry
<1>6. \A u : u = SetEntry(s, d, e) => Becomes(s, u, d, e.want, e.can, e.kern) /\ u.wanted = s.wanted
  <2>1. e.flags = s.ent[d].flags
    BY <1>4
  <2> QED BY <1>3, <2>1, SetBecomes
<1> QED BY <1>4, <1>5, <1>6

LEMMA UnwantBecomes ==
  ASSUME NEW s \in TableType, NEW d \in Fds, NEW dir \in Dirs,
         NEW t, t = [s EXCEPT !.ent[d].want = @ \ {dir}]
  PROVE  /\ Becomes(s, t, d, s.ent[d].want \ {dir}, s.ent[d].can, s.ent[d].kern)
         /\ t.wanted = s.wanted
<1>1. PICK e : e = [s.ent[d] EXCEPT !.want = @ \ {dir}]
  OBVIOUS
<1>2. s.ent[d] \in EntryType /\ {dir} \in SUBSET Dirs
  BY DEF TableType
<1>3. e \in EntryType
  BY <1>1, <1>2 DEF EntryType
<1>4. /\ e.want = s.ent[d].want \ {dir} /\ e.can = s.ent[d].can
      /\ e.kern = s.ent[d].kern /\ e.flags = s.ent[d].flags
  BY <1>1, <1>2 DEF EntryType
<1>5. t = SetEntry(s, d, e)
  BY <1>1 DEF TableType, SetEntry
<1>6. \A u : u = SetEntry(s, d, e) => Becomes(s, u, d, e.want, e.can, e.kern) /\ u.wanted = s.wanted
  <2>1. e.flags = s.ent[d].flags
    BY <1>4
  <2> QED BY <1>3, <2>1, SetBecomes
<1> QED BY <1>4, <1>5, <1>6

\* Interest in a descriptor: in a closed one, in reading only.
LEMMA WantTidy ==
  ASSUME NEW s, NEW o, NEW n, Slack(n), Tidy(s, o, n), NEW d \in Fds, NEW dir \in Dirs,
         d \in o \/ dir = "r", d \in s.mapped,
         NEW t, t = Want(s, dir, d)
  PROVE  /\ Tidy(t, o, n) /\ t.len = s.len
         /\ \A x \in Fds \ {d} : t.ent[x] = s.ent[x]
         /\ t.ent[d].want = s.ent[d].want \cup {dir}
         /\ t.ent[d].can = s.ent[d].can
<1>1. s \in TableType /\ TidyEntry(s.ent[d], d \in o) /\ s.ent[d].kern \subseteq Dirs
  BY DEF Tidy, TableType, EntryType
<1>2. PICK u : u = [s EXCEPT !.ent[d].want = @ \cup {dir}]
  OBVIOUS
<1>3. /\ Becomes(s, u, d, s.ent[d].want \cup {dir}, s.ent[d].can, s.ent[d].kern)
      /\ u.wanted = s.wanted
  BY <1>1, <1>2, WantBecomes
<1>4. CASE dir \in s.ent[d].can
  <2>1. t = Push(u, dir, d) /\ u \in TableType
    BY <1>2, <1>3, <1>4 DEF Want, Becomes, Frame
  <2>2. /\ Frame(u, t, d)
        /\ t.ent[d].want = u.ent[d].want
        /\ t.ent[d].can = u.ent[d].can
        /\ t.ent[d].kern = u.ent[d].kern
        /\ t.wanted = u.wanted
    BY <2>1, PushEffect
  <2>3. t.len = u.len
    BY <2>1 DEF Push, TableType
  <2>4. /\ Becomes(s, t, d, s.ent[d].want \cup {dir}, s.ent[d].can, s.ent[d].kern)
        /\ t.wanted = s.wanted
    BY <2>2, <2>3, <1>3 DEF Becomes, Frame
  <2>5. /\ d \in o => s.ent[d].want \cup {dir} \cup s.ent[d].can \subseteq s.ent[d].kern
        /\ d \notin o => s.ent[d].want \cup {dir} \cup s.ent[d].kern \subseteq {"r"}
    BY <1>1, <1>4 DEF TidyEntry
  <2>6. Tidy(t, o, n)
    BY <2>4, <2>5, TidyAfter
  <2> QED BY <2>4, <2>6 DEF Becomes, Frame
<1>5. CASE dir \in s.ent[d].kern \ s.ent[d].can
  <2>1. t = u
    BY <1>2, <1>5 DEF Want
  <2>2. /\ d \in o => s.ent[d].want \cup {dir} \cup s.ent[d].can \subseteq s.ent[d].kern
        /\ d \notin o => s.ent[d].want \cup {dir} \cup s.ent[d].kern \subseteq {"r"}
    BY <1>1, <1>5 DEF TidyEntry
  <2>3. Tidy(u, o, n)
    BY <2>2, <1>3, TidyAfter
  <2> QED BY <2>1, <2>3, <1>3 DEF Becomes, Frame
<1>6. CASE dir \notin s.ent[d].can /\ dir \notin s.ent[d].kern
  <2>1. t = want_really(s, dir, d)
    BY <1>6 DEF Want
  <2>2. /\ Frame(s, t, d)
        /\ t.ent[d].want = s.ent[d].want \cup {dir}
        /\ t.ent[d].can = s.ent[d].can
        /\ t.ent[d].kern = s.ent[d].kern \cup {dir}
        /\ t.wanted = IF Other(dir) \in s.ent[d].kern THEN s.wanted
                                                     ELSE (s.wanted + 1) % Wrap
    BY <2>1, <1>1, WantReallyEffect
  <2>3. t.len = s.len
    BY <2>1, <1>1 DEF want_really, TableType
  <2>4. Becomes(s, t, d, s.ent[d].want \cup {dir}, s.ent[d].can, s.ent[d].kern \cup {dir})
    BY <2>2, <2>3 DEF Becomes
  <2>5. /\ d \in o => s.ent[d].want \cup {dir} \cup s.ent[d].can \subseteq s.ent[d].kern \cup {dir}
        /\ d \notin o => s.ent[d].want \cup {dir} \cup s.ent[d].kern \subseteq {"r"}
    BY <1>1 DEF TidyEntry
  <2>6. Other(dir) \notin s.ent[d].kern => s.ent[d].kern = {}
    BY <1>1, <1>6 DEF Dirs, Other
  <2>7. Tidy(t, o, n)
    <3>1. CASE Other(dir) \in s.ent[d].kern
      <4>1. t.wanted = s.wanted /\ (s.ent[d].kern \cup {dir} = {} <=> s.ent[d].kern = {})
        BY <3>1, <2>2
      <4> QED BY <4>1, <2>4, <2>5, TidyAfter
    <3>2. CASE Other(dir) \notin s.ent[d].kern
      <4>1. PICK kern : kern = s.ent[d].kern \cup {dir}
        OBVIOUS
      <4>2. /\ t.wanted = (s.wanted + 1) % Wrap
            /\ s.ent[d].kern = {} /\ kern # {}
        BY <3>2, <4>1, <2>2, <2>6
      <4>3. /\ Becomes(s, t, d, s.ent[d].want \cup {dir}, s.ent[d].can, kern)
            /\ d \in o => s.ent[d].want \cup {dir} \cup s.ent[d].can \subseteq kern
            /\ d \notin o => s.ent[d].want \cup {dir} \cup kern \subseteq {"r"}
        BY <4>1, <2>4, <2>5
      <4> QED BY <4>2, <4>3, TidyAfter
    <3> QED BY <3>1, <3>2
  <2> QED BY <2>2, <2>3, <2>7 DEF Frame
<1> QED BY <1>4, <1>5, <1>6

LEMMA ReadTidy ==
  ASSUME NEW s, NEW o, NEW n, Slack(n), Tidy(s, o, n), NEW d \in Fds,
         NEW t, t = io_wantread(s, d)
  PROVE  /\ Tidy(t, o, n) /\ t.len = s.len
         /\ \A x \in Fds \ {d} : t.ent[x] = s.ent[x]
         /\ d \in s.mapped => t.ent[d].want = s.ent[d].want \cup {"r"}
         /\ t.ent[d].can = s.ent[d].can
<1>1. CASE d \notin s.mapped \/ "r" \in s.ent[d].want
  BY <1>1 DEF io_wantread
<1>2. CASE d \in s.mapped /\ "r" \notin s.ent[d].want
  <2>1. t = Want(s, "r", d) /\ "r" \in Dirs
    BY <1>2 DEF io_wantread, Dirs
  <2> QED BY <2>1, <1>2, WantTidy
<1> QED BY <1>1, <1>2

LEMMA WriteTidy ==
  ASSUME NEW s, NEW o, NEW n, Slack(n), Tidy(s, o, n), NEW d \in Fds, d \in o,
         NEW t, t = io_wantwrite(s, d)
  PROVE  /\ Tidy(t, o, n) /\ t.len = s.len
         /\ \A x \in Fds \ {d} : t.ent[x] = s.ent[x]
         /\ t.ent[d].want = s.ent[d].want \cup {"w"}
         /\ t.ent[d].can = s.ent[d].can
<1>1. CASE "w" \in s.ent[d].want \cap s.ent[d].kern
  BY <1>1 DEF io_wantwrite
<1>2. CASE "w" \notin s.ent[d].want \cap s.ent[d].kern
  <2>1. d \in s.mapped
    BY DEF Tidy, Placed
  <2>2. t = Want(s, "w", d) /\ "w" \in Dirs
    BY <2>1, <1>2 DEF io_wantwrite, Dirs
  <2> QED BY <2>1, <2>2, WantTidy
<1> QED BY <1>1, <1>2

LEMMA UnwriteTidy ==
  ASSUME NEW s, NEW o, NEW n, Slack(n), Tidy(s, o, n), NEW d \in Fds, d \in o,
         "w" \notin s.ent[d].can,
         NEW t, t = io_dontwantwrite(s, d)
  PROVE  /\ Tidy(t, o, n) /\ t.len = s.len
         /\ \A x \in Fds \ {d} : t.ent[x] = s.ent[x]
         /\ t.ent[d].want = s.ent[d].want \ {"w"}
         /\ t.ent[d].can = s.ent[d].can
<1>1. t = [s EXCEPT !.ent[d].want = @ \ {"w"}] /\ "w" \in Dirs
  BY DEF io_dontwantwrite, DontWant, Dirs
<1>2. s \in TableType /\ TidyEntry(s.ent[d], TRUE)
  BY DEF Tidy
<1>3. PICK want : want = s.ent[d].want \ {"w"}
  OBVIOUS
<1>4. Becomes(s, t, d, want, s.ent[d].can, s.ent[d].kern) /\ t.wanted = s.wanted
  <2>1. PICK dir \in Dirs : dir = "w"
    BY DEF Dirs
  <2>2. PICK u : u = [s EXCEPT !.ent[d].want = @ \ {dir}]
    OBVIOUS
  <2>3. /\ Becomes(s, u, d, s.ent[d].want \ {dir}, s.ent[d].can, s.ent[d].kern)
        /\ u.wanted = s.wanted
    BY <2>2, <1>2, UnwantBecomes
  <2> QED BY <2>1, <2>2, <2>3, <1>1, <1>3
<1>5. want \cup s.ent[d].can \subseteq s.ent[d].kern /\ d \in s.mapped
  BY <1>2, <1>3 DEF TidyEntry, Tidy, Placed
<1>6. Tidy(t, o, n)
  BY <1>4, <1>5, TidyAfter
<1> QED BY <1>3, <1>4, <1>6 DEF Becomes, Frame

-----------------------------------------------------------------------------
(* Opening and closing.                                                    *)

LEMMA DropBecomes ==
  ASSUME NEW s \in TableType, NEW n \in Nat, Drift(s, n), NEW d \in Fds, NEW dir \in Dirs,
         NEW t, t = IF dir \in s.ent[d].kern THEN dontwant_really(s, dir, d) ELSE s
  PROVE  /\ Becomes(s, t, d, s.ent[d].want \ (s.ent[d].kern \cap {dir}), s.ent[d].can,
                    s.ent[d].kern \ {dir})
         /\ Drift(t, n)
<1>1. CASE dir \notin s.ent[d].kern
  <2>1. t = s /\ s.ent[d].kern \ {dir} = s.ent[d].kern
        /\ s.ent[d].want \ (s.ent[d].kern \cap {dir}) = s.ent[d].want
    BY <1>1
  <2> QED BY <2>1 DEF Becomes, Frame
<1>2. CASE dir \in s.ent[d].kern
  <2>1. t = dontwant_really(s, dir, d)
    BY <1>2
  <2>2. /\ Frame(s, t, d)
        /\ t.ent[d].want = s.ent[d].want \ {dir}
        /\ t.ent[d].can = s.ent[d].can
        /\ t.ent[d].kern = s.ent[d].kern \ {dir}
        /\ t.wanted = IF Other(dir) \in s.ent[d].kern THEN s.wanted
                                                     ELSE (s.wanted - 1) % Wrap
    BY <2>1, DontWantReallyEffect
  <2>3. t.len = s.len
    BY <2>1 DEF dontwant_really, TableType
  <2>4. s.ent[d].want \ (s.ent[d].kern \cap {dir}) = s.ent[d].want \ {dir}
    BY <1>2
  <2>5. s.ent[d].kern \subseteq Dirs /\ \A x \in Fds \ {d} : t.ent[x] = s.ent[x]
    BY <2>2 DEF TableType, EntryType, Frame
  <2>6. Drift(t, n)
    <3>1. CASE Other(dir) \in s.ent[d].kern
      <4>1. t.wanted = s.wanted /\ t.ent[d].kern # {} /\ s.ent[d].kern # {}
        BY <3>1, <2>2 DEF Dirs, Other
      <4> QED BY <4>1, <2>5, DriftSame
    <3>2. CASE Other(dir) \notin s.ent[d].kern
      <4>1. t.wanted = (s.wanted - 1) % Wrap /\ t.ent[d].kern = {} /\ s.ent[d].kern # {}
        BY <3>2, <2>2, <2>5, <1>2 DEF Dirs, Other
      <4> QED BY <4>1, <2>5, DriftDown
    <3> QED BY <3>1, <3>2
  <2> QED BY <2>2, <2>3, <2>4, <2>6 DEF Becomes
<1> QED BY <1>1, <1>2

NotInUse(s, d) == [s EXCEPT !.ent[d].flags = @ \ {"inuse"}]

LEMMA NotInUseEffect ==
  ASSUME NEW s \in TableType, NEW d \in Fds, NEW t, t = NotInUse(s, d)
  PROVE  /\ t \in TableType /\ t.len = s.len /\ t.wanted = s.wanted /\ t.mapped = s.mapped
         /\ \A x \in Fds \ {d} : t.ent[x] = s.ent[x]
         /\ t.ent[d].want = s.ent[d].want /\ t.ent[d].can = s.ent[d].can
         /\ t.ent[d].kern = s.ent[d].kern
         /\ "inuse" \notin t.ent[d].flags
<1>1. PICK e : e = [s.ent[d] EXCEPT !.flags = @ \ {"inuse"}]
  OBVIOUS
<1>2. s.ent[d] \in EntryType /\ s.ent \in [Fds -> EntryType]
  BY DEF TableType
<1>3. /\ e \in EntryType
      /\ e.want = s.ent[d].want /\ e.can = s.ent[d].can /\ e.kern = s.ent[d].kern
      /\ "inuse" \notin e.flags
  BY <1>1, <1>2 DEF EntryType
<1>4. t.ent = [s.ent EXCEPT ![d] = e] /\ t.wanted = s.wanted /\ t.len = s.len
      /\ t.mapped = s.mapped
      /\ t = [ent |-> t.ent, first |-> s.first, wanted |-> s.wanted, len |-> s.len,
              mapped |-> s.mapped]
  BY <1>1 DEF TableType, NotInUse
<1>5. /\ t.ent \in [Fds -> EntryType] /\ t.ent[d] = e
      /\ \A x \in Fds \ {d} : t.ent[x] = s.ent[x]
  BY <1>2, <1>3, <1>4, OneEntry
<1>6. t \in TableType
  BY <1>4, <1>5 DEF TableType
<1> QED BY <1>3, <1>4, <1>5, <1>6

\* Whether the descriptor was open or not, and has a place or not.
LEMMA CloseTidy ==
  ASSUME NEW s, NEW o, NEW n, Slack(n), Tidy(s, o, n), NEW d \in Fds,
         NEW p, Drops(o, p, d),
         NEW t, t = io_close(s, d)
  PROVE  /\ Tidy(t, p, n) /\ t.len = s.len
         /\ \A x \in Fds \ {d} : t.ent[x] = s.ent[x]
         /\ t.ent[d].want = s.ent[d].want \ s.ent[d].kern
<1>1. CASE d \notin s.mapped
  <2>1. t = s
    BY <1>1 DEF io_close
  <2>2. /\ Placed(s, o) /\ s \in TableType /\ Drift(s, n)
        /\ \A x \in Fds : TidyEntry(s.ent[x], x \in o)
    BY DEF Tidy
  <2>3. d \notin o /\ s.ent[d].want = {}
    BY <2>2, <1>1 DEF Placed
  <2>4. \A x \in Fds : x \in p <=> x \in o
    BY <2>3 DEF Drops
  <2>5. Placed(s, p) /\ \A x \in Fds : TidyEntry(s.ent[x], x \in p)
    BY <2>2, <2>4 DEF Placed, TidyEntry
  <2> QED BY <2>1, <2>2, <2>3, <2>5 DEF Tidy
<1>2. CASE d \in s.mapped
  <2>1. /\ s \in TableType /\ Drift(s, n) /\ n \in Nat
        /\ "r" \in Dirs /\ "w" \in Dirs /\ s.ent[d].kern \subseteq Dirs
    BY DEF Tidy, TableType, EntryType, Slack, Dirs
  <2>2. PICK v : v = NotInUse(s, d)
    OBVIOUS
  <2>3. PICK u : u = IF "r" \in v.ent[d].kern THEN dontwant_really(v, "r", d) ELSE v
    OBVIOUS
  <2>4. t = IF "w" \in u.ent[d].kern THEN dontwant_really(u, "w", d) ELSE u
    BY <1>2, <2>2, <2>3 DEF io_close, NotInUse
  <2>5. /\ v \in TableType /\ v.len = s.len /\ v.wanted = s.wanted /\ v.mapped = s.mapped
        /\ \A x \in Fds \ {d} : v.ent[x] = s.ent[x]
        /\ v.ent[d].want = s.ent[d].want /\ v.ent[d].can = s.ent[d].can
        /\ v.ent[d].kern = s.ent[d].kern
        /\ "inuse" \notin v.ent[d].flags
    BY <2>1, <2>2, NotInUseEffect
  <2>6. Drift(v, n)
    <3>1. v.ent[d].kern = {} <=> s.ent[d].kern = {}
      BY <2>5
    <3> QED BY <3>1, <2>1, <2>5, DriftSame
  <2>7. /\ Becomes(v, u, d, v.ent[d].want \ (v.ent[d].kern \cap {"r"}), v.ent[d].can,
                   v.ent[d].kern \ {"r"})
        /\ Drift(u, n)
    BY <2>1, <2>3, <2>5, <2>6, DropBecomes
  <2>8. u \in TableType
    BY <2>7 DEF Becomes, Frame
  <2>9. /\ Becomes(u, t, d, u.ent[d].want \ (u.ent[d].kern \cap {"w"}), u.ent[d].can,
                   u.ent[d].kern \ {"w"})
        /\ Drift(t, n)
    BY <2>1, <2>4, <2>7, <2>8, DropBecomes
  <2>10. /\ t \in TableType /\ t.len = s.len /\ t.mapped = s.mapped
         /\ \A x \in Fds \ {d} : t.ent[x] = s.ent[x]
    BY <2>5, <2>7, <2>9 DEF Becomes, Frame
  <2>11. /\ u.ent[d].want = s.ent[d].want \ (s.ent[d].kern \cap {"r"})
         /\ u.ent[d].kern = s.ent[d].kern \ {"r"}
         /\ "inuse" \notin u.ent[d].flags
    BY <2>5, <2>7 DEF Becomes, Frame
  <2>12. /\ t.ent[d].want = u.ent[d].want \ (u.ent[d].kern \cap {"w"})
         /\ t.ent[d].kern = u.ent[d].kern \ {"w"}
         /\ "inuse" \notin t.ent[d].flags
    BY <2>9, <2>11 DEF Becomes, Frame
  <2>13. /\ t.ent[d].want = s.ent[d].want \ s.ent[d].kern
         /\ t.ent[d].kern = {}
    BY <2>1, <2>11, <2>12 DEF Dirs
  <2>14. TidyEntry(t.ent[d], d \in p)
    <3>1. d \notin p /\ TidyEntry(s.ent[d], d \in o)
      BY DEF Tidy, Drops
    <3>2. t.ent[d].want \subseteq {"r"}
      BY <3>1, <2>13 DEF TidyEntry
    <3> QED BY <3>1, <3>2, <2>12, <2>13 DEF TidyEntry
  <2>15. \A x \in Fds \ {d} : TidyEntry(t.ent[x], x \in p)
    <3>1. \A x \in Fds \ {d} : x \in p <=> x \in o
      BY DEF Drops
    <3>2. \A x \in Fds \ {d} : TidyEntry(s.ent[x], x \in o)
      BY DEF Tidy
    <3> QED BY <3>1, <3>2, <2>10 DEF TidyEntry
  <2>16. Placed(t, p)
    <3>1. Placed(s, o) /\ d \notin p /\ \A x \in Fds \ {d} : x \in p <=> x \in o
      BY DEF Tidy, Drops
    <3> QED BY <3>1, <1>2, <2>10 DEF Placed
  <2> QED BY <2>9, <2>10, <2>13, <2>14, <2>15, <2>16 DEF Tidy
<1> QED BY <1>1, <1>2

LEMMA NonblockEffect ==
  ASSUME NEW s \in TableType, NEW d \in Fds, d \in s.mapped, NEW t, t = io_nonblock(s, d)
  PROVE  /\ t \in TableType /\ t.len = s.len /\ t.wanted = s.wanted /\ t.mapped = s.mapped
         /\ \A x \in Fds \ {d} : t.ent[x] = s.ent[x]
         /\ t.ent[d].want = s.ent[d].want /\ t.ent[d].can = s.ent[d].can
         /\ t.ent[d].kern = s.ent[d].kern
         /\ "inuse" \in t.ent[d].flags <=> "inuse" \in s.ent[d].flags
<1>1. PICK e : e = [s.ent[d] EXCEPT !.flags = @ \cup {"nonblock"}]
  OBVIOUS
<1>2. s.ent[d] \in EntryType /\ s.ent \in [Fds -> EntryType]
  BY DEF TableType
<1>3. /\ e \in EntryType
      /\ e.want = s.ent[d].want /\ e.can = s.ent[d].can /\ e.kern = s.ent[d].kern
      /\ "inuse" \in e.flags <=> "inuse" \in s.ent[d].flags
  BY <1>1, <1>2 DEF EntryType
<1>4. t.ent = [s.ent EXCEPT ![d] = e] /\ t.wanted = s.wanted /\ t.len = s.len
      /\ t.mapped = s.mapped
      /\ t = [ent |-> t.ent, first |-> s.first, wanted |-> s.wanted, len |-> s.len,
              mapped |-> s.mapped]
  BY <1>1 DEF TableType, io_nonblock
<1>5. /\ t.ent \in [Fds -> EntryType] /\ t.ent[d] = e
      /\ \A x \in Fds \ {d} : t.ent[x] = s.ent[x]
  BY <1>2, <1>3, <1>4, OneEntry
<1>6. t \in TableType
  BY <1>4, <1>5 DEF TableType
<1> QED BY <1>3, <1>4, <1>5, <1>6

LEMMA NonblockTidy ==
  ASSUME NEW s, NEW o, NEW n, Tidy(s, o, n), NEW d \in Fds, NEW t, t = io_nonblock(s, d)
  PROVE  /\ Tidy(t, o, n) /\ t.len = s.len
         /\ \A x \in Fds \ {d} : t.ent[x] = s.ent[x]
         /\ t.ent[d].want = s.ent[d].want /\ t.ent[d].can = s.ent[d].can
<1>1. CASE d \notin s.mapped
  <2>1. t = s
    BY <1>1 DEF io_nonblock
  <2> QED BY <2>1
<1>2. CASE d \in s.mapped
  <2>1. /\ s \in TableType /\ Drift(s, n) /\ Placed(s, o)
        /\ \A x \in Fds : TidyEntry(s.ent[x], x \in o)
    BY DEF Tidy
  <2>2. /\ t \in TableType /\ t.len = s.len /\ t.wanted = s.wanted /\ t.mapped = s.mapped
        /\ \A x \in Fds \ {d} : t.ent[x] = s.ent[x]
        /\ t.ent[d].want = s.ent[d].want /\ t.ent[d].can = s.ent[d].can
        /\ t.ent[d].kern = s.ent[d].kern
        /\ "inuse" \in t.ent[d].flags <=> "inuse" \in s.ent[d].flags
    BY <2>1, <1>2, NonblockEffect
  <2>3. t.ent[d].kern = {} <=> s.ent[d].kern = {}
    BY <2>2
  <2>4. Drift(t, n)
    BY <2>1, <2>2, <2>3, DriftSame
  <2>5. TidyEntry(t.ent[d], d \in o)
    BY <2>1, <2>2 DEF TidyEntry
  <2>6. \A x \in Fds : TidyEntry(t.ent[x], x \in o)
    BY <2>1, <2>2, <2>5
  <2>7. Placed(t, o)
    BY <2>1, <2>2 DEF Placed
  <2> QED BY <2>2, <2>4, <2>6, <2>7 DEF Tidy
<1> QED BY <1>1, <1>2

\* A new socket is registered.
LEMMA FdTidy ==
  ASSUME NEW s, NEW o, NEW n, Slack(n), Tidy(s, o, n), NEW d \in Fds, d \notin o,
         NEW p, Adds(o, p, d),
         NEW nonblock, NEW t, t = io_fd_internal(s, d, nonblock)
  PROVE  /\ Tidy(t, p, n + 1) /\ t.len = d + 1
         /\ s.ent[d].kern = {} => Tidy(t, p, n)
         /\ \A x \in Fds \ {d} : t.ent[x] = s.ent[x]
         /\ t.ent[d].want = {} /\ t.ent[d].can = {}
<1>1. /\ s \in TableType /\ Drift(s, n) /\ n \in Nat /\ "inuse" \notin s.ent[d].flags
  BY DEF Tidy, TidyEntry, Slack
<1>2. /\ t \in TableType
      /\ t.ent[d].can = {} /\ t.ent[d].want = {} /\ t.ent[d].kern = {}
      /\ \A x \in Fds \ {d} : t.ent[x] = s.ent[x]
      /\ t.wanted = s.wanted
      /\ s.mapped \cup {d} \subseteq t.mapped
  BY <1>1, NewEntry
<1>3. t.len = d + 1 /\ "inuse" \in t.ent[d].flags
  <2>1. PICK e : e = [Zero EXCEPT !.flags = Flags(nonblock), !.next = NoNext]
    OBVIOUS
  <2>2. t = [s EXCEPT !.len = d + 1, !.mapped = @ \cup Allocated(d), !.ent[d] = e,
                      !.first = NoNext]
    BY <2>1, <1>1 DEF io_fd_internal, TableType
  <2>3. "inuse" \in e.flags
    BY <2>1 DEF Zero, Flags
  <2>4. t.ent = [s.ent EXCEPT ![d] = e] /\ t.len = d + 1
    BY <2>2, <1>1 DEF TableType
  <2>5. t.ent[d] = e
    BY <2>4, <1>1 DEF TableType
  <2> QED BY <2>3, <2>4, <2>5
<1>4. Drift(t, n + 1)
  BY <1>1, <1>2, DriftNew
<1>5. s.ent[d].kern = {} => Drift(t, n)
  <2>1. SUFFICES ASSUME s.ent[d].kern = {} PROVE Drift(t, n)
    OBVIOUS
  <2>2. s.ent[d].kern = {} <=> t.ent[d].kern = {}
    BY <2>1, <1>2
  <2> QED BY SMTT(30), <2>2, <1>1, <1>2, DriftSame
<1>6. \A x \in Fds : TidyEntry(t.ent[x], x \in p)
  <2>1. TidyEntry(t.ent[d], d \in p)
    BY <1>2, <1>3 DEF TidyEntry, Adds
  <2>2. \A x \in Fds \ {d} : TidyEntry(t.ent[x], x \in p)
    <3>1. \A x \in Fds \ {d} : x \in p <=> x \in o
      BY DEF Adds
    <3>2. \A x \in Fds \ {d} : TidyEntry(s.ent[x], x \in o)
      BY DEF Tidy
    <3> QED BY <3>1, <3>2, <1>2 DEF TidyEntry
  <2> QED BY <2>1, <2>2
<1>7. Placed(t, p)
  <2>1. Placed(s, o)
    BY DEF Tidy
  <2> QED BY <2>1, <1>2 DEF Placed, Adds
<1> QED BY <1>2, <1>3, <1>4, <1>5, <1>6, <1>7 DEF Tidy

LEMMA NewTidy ==
  ASSUME NEW s, NEW o, NEW n, Slack(n), Tidy(s, o, n), NEW d \in Fds, d \notin o,
         NEW p, Adds(o, p, d),
         NEW nonblock, NEW u, u = io_fd_internal(s, d, nonblock),
         NEW t, t = io_nonblock(u, d)
  PROVE  /\ Tidy(t, p, n + 1) /\ t.len = d + 1
         /\ \A x \in Fds \ {d} : t.ent[x] = s.ent[x]
         /\ t.ent[d].want = {} /\ t.ent[d].can = {}
<1>1. /\ Tidy(u, p, n + 1) /\ u.len = d + 1
      /\ \A x \in Fds \ {d} : u.ent[x] = s.ent[x]
      /\ u.ent[d].want = {} /\ u.ent[d].can = {}
  BY FdTidy
<1>2. /\ Tidy(t, p, n + 1) /\ t.len = u.len
      /\ \A x \in Fds \ {d} : t.ent[x] = u.ent[x]
      /\ t.ent[d].want = u.ent[d].want /\ t.ent[d].can = u.ent[d].can
  <2>1. \A y : y = io_nonblock(u, d) =>
          /\ Tidy(y, p, n + 1) /\ y.len = u.len
          /\ \A x \in Fds \ {d} : y.ent[x] = u.ent[x]
          /\ y.ent[d].want = u.ent[d].want /\ y.ent[d].can = u.ent[d].can
    BY <1>1, NonblockTidy
  <2> QED BY <2>1, Zenon
<1> QED BY <1>1, <1>2

-----------------------------------------------------------------------------
(* Waiting and handing out.                                                *)

LEMMA AlikeTidy ==
  ASSUME NEW s, NEW t \in TableType, NEW o, NEW n, Tidy(s, o, n), Alike(s, t),
         \A x \in Fds : x \in o => t.ent[x].can \subseteq s.ent[x].kern
  PROVE  Tidy(t, o, n)
<1>1. Watched(t) = Watched(s)
  BY DEF Watched, Alike
<1>2. Drift(t, n)
  BY <1>1 DEF Drift, Tidy, Alike
<1>3. \A x \in Fds : TidyEntry(t.ent[x], x \in o)
  BY DEF Tidy, TidyEntry, Alike
<1>4. Placed(t, o)
  BY DEF Tidy, Placed, Alike
<1> QED BY <1>2, <1>3, <1>4 DEF Tidy

LEMMA WaitTidy ==
  ASSUME NEW s, NEW o, NEW n, Tidy(s, o, n), NEW rev \in Findings(s),
         NEW t, t = io_waituntil2(s, rev)
  PROVE  /\ Tidy(t, o, n) /\ t.len = s.len
         /\ \A x \in Fds : t.ent[x].want = s.ent[x].want
         /\ s.wanted # 0 => \A x \in Polled(s) : t.ent[x].can \subseteq rev[x]
<1>1. s \in TableType
  BY DEF Tidy
<1>2. CASE s.wanted = 0
  <2>1. t = s
    BY <1>2 DEF io_waituntil2
  <2> QED BY <2>1, <1>2
<1>3. CASE s.wanted # 0
  <2>1. /\ t \in TableType
        /\ Alike(s, t)
        /\ \A d \in Fds : \A dir \in t.ent[d].can :
             \/ dir \in s.ent[d].can
             \/ d \in Polled(s) /\ dir \in rev[d] /\ dir \in s.ent[d].want
    BY <1>1, <1>3, WaitEffect
  <2>2. \A x \in Fds : x \in o => t.ent[x].can \subseteq s.ent[x].kern
    BY <2>1 DEF Tidy, TidyEntry
  <2>3. Tidy(t, o, n)
    BY <2>1, <2>2, AlikeTidy
  <2>4. t.len = s.len
    BY <1>1, <1>3 DEF io_waituntil2, TableType
  <2>5. ASSUME NEW x \in Polled(s), NEW dir \in t.ent[x].can PROVE dir \in rev[x]
    <3>1. x \in Fds /\ dir \in Dirs
      BY <2>1 DEF Polled, TableType, EntryType
    <3>2. x \in Readied(rev, dir)
      BY <3>1, <1>1, <1>3, WaitLinks
    <3> QED BY <3>2 DEF Readied
  <2> QED BY <2>1, <2>3, <2>4, <2>5 DEF Alike
<1> QED BY <1>2, <1>3

\* A closed descriptor that is handed out is watched from then on.
LEMMA TakenTidy ==
  ASSUME NEW s, NEW o, NEW n, Slack(n), Tidy(s, o, n), NEW dir \in Dirs, NEW d \in Fds,
         Ready(s, dir, d),
         NEW t, t = Taken(s, dir, d)
  PROVE  /\ Tidy(t, o, n) /\ t.len = s.len
         /\ \A x \in Fds \ {d} : t.ent[x] = s.ent[x]
         /\ t.ent[d].want = s.ent[d].want
         /\ t.ent[d].can = s.ent[d].can \ {dir}
         /\ dir \in t.ent[d].kern
<1> DEFINE e == [s.ent[d] EXCEPT !.can = @ \ {dir}]
           u == [s EXCEPT !.ent[d].can = @ \ {dir}]
<1>1. /\ s.ent[d] \in EntryType /\ {dir} \in SUBSET Dirs /\ s \in TableType
      /\ TidyEntry(s.ent[d], d \in o)
  BY DEF TableType, Tidy
<1>2. e \in EntryType
  BY <1>1, Entries DEF EntryType
<1>3. /\ e.want = s.ent[d].want /\ e.can = s.ent[d].can \ {dir}
      /\ e.kern = s.ent[d].kern /\ e.flags = s.ent[d].flags
  BY <1>1 DEF EntryType
<1>4. u = SetEntry(s, d, e)
  BY <1>1 DEF TableType, SetEntry
<1>5. t = IF dir \in s.ent[d].kern THEN u ELSE want_really(u, dir, d)
  BY DEF Taken
<1> HIDE DEF e, u
<1>6. Becomes(s, u, d, e.want, e.can, e.kern) /\ u.wanted = s.wanted
  BY <1>1, <1>2, <1>3, <1>4, SetBecomes
<1>7. /\ d \in o => e.want \cup e.can \subseteq e.kern
      /\ d \notin o => e.want \cup e.kern \subseteq {"r"}
      /\ e.kern = {} <=> s.ent[d].kern = {}
  BY <1>1, <1>3 DEF TidyEntry
<1>8. dir \in s.ent[d].want /\ d \in s.mapped /\ u.mapped = s.mapped
  BY <1>6 DEF Ready, Tidy, Placed, Becomes, Frame
<1>9. Tidy(u, o, n)
  BY <1>6, <1>7, <1>8, TidyAfter
<1>10. CASE dir \in s.ent[d].kern
  BY <1>3, <1>5, <1>6, <1>9, <1>10 DEF Becomes, Frame
<1>11. CASE dir \notin s.ent[d].kern
  <2>1. d \notin o /\ dir = "r" /\ s.ent[d].kern = {}
    BY <1>1, <1>8, <1>11 DEF TidyEntry
  <2>2. dir \notin e.can /\ dir \notin e.kern /\ u.ent[d].can = e.can /\ u.ent[d].kern = e.kern
        /\ u.ent[d].want = e.want
    BY <1>3, <1>6, <1>11 DEF Becomes
  <2>3. t = want_really(u, dir, d) /\ u \in TableType
    BY <1>5, <1>9, <1>11 DEF Tidy
  <2>4. t = Want(u, dir, d)
    BY <2>2, <2>3 DEF Want
  <2>5. /\ Tidy(t, o, n) /\ t.len = u.len
        /\ \A x \in Fds \ {d} : t.ent[x] = u.ent[x]
        /\ t.ent[d].want = u.ent[d].want \cup {dir}
        /\ t.ent[d].can = u.ent[d].can
    BY <2>1, <2>4, <1>8, <1>9, WantTidy
  <2>6. dir \in t.ent[d].kern
    BY <2>3, WantReallyEffect
  <2> QED BY <2>2, <2>5, <2>6, <1>3, <1>6, <1>8 DEF Becomes, Frame
<1> QED BY <1>10, <1>11

LEMMA HandTidy ==
  ASSUME NEW s, NEW o, NEW n, Slack(n), Tidy(s, o, n), NEW dir \in Dirs,
         NEW r, r = Next_ready(s, dir)
  PROVE  /\ Tidy(r.s, o, n) /\ r.s.len = s.len
         /\ r.fd \in Fds \cup {None}
         /\ \A x \in Fds : /\ r.s.ent[x].want = s.ent[x].want
                           /\ r.s.ent[x].can \subseteq s.ent[x].can
         /\ r.fd # None => /\ Ready(s, dir, r.fd)
                           /\ dir \notin r.s.ent[r.fd].can
                           /\ dir \in r.s.ent[r.fd].kern
<1> DEFINE at   == Entry(s, dir)
           hits == {n1 \in 0 .. Cardinality(Fds) : at[n1] \in Fds /\ Ready(s, dir, at[n1])}
           last == IF hits = {} THEN Cardinality(Fds) ELSE Min(hits)
           fd   == IF hits = {} THEN None ELSE at[last]
           gone == {d \in Fds : \E n1 \in 0 .. last : at[n1] = d}
           t    == Dequeued(s, dir, fd, gone)
           u    == IF fd = None THEN t ELSE Taken(t, dir, fd)
<1>1. r = [fd |-> fd, s |-> u]
  BY DEF Next_ready
<1>2. r.fd = fd /\ r.s = u
  BY <1>1
<1>3. hits # {} => fd \in Fds /\ Ready(s, dir, fd)
  <2>1. hits \subseteq Nat
    BY WrapFacts
  <2>2. ASSUME hits # {} PROVE Min(hits) \in hits
    <3> HIDE DEF hits
    <3> QED BY <2>1, <2>2, MinOf
  <2> QED BY <2>2
<1>4. hits = {} => fd = None
  OBVIOUS
<1>5. s \in TableType
  BY DEF Tidy
<1>6. gone \in SUBSET Fds
  OBVIOUS
<1>7. t = Dequeued(s, dir, fd, gone) /\ u = IF fd = None THEN t ELSE Taken(t, dir, fd)
  OBVIOUS
<1> HIDE DEF at, hits, last, fd, gone, t, u
<1>8. fd \in Fds \cup {None} /\ (fd # None => fd \in Fds /\ Ready(s, dir, fd))
  BY <1>3, <1>4
<1>9. /\ t \in TableType
      /\ Alike(s, t)
      /\ \A x \in Fds : t.ent[x].can = s.ent[x].can
  BY <1>5, <1>6, <1>7, <1>8, DequeuedEffect
<1>10. t.len = s.len
  BY <1>5, <1>7 DEF Dequeued, TableType
<1>11. Tidy(t, o, n)
  <2>1. \A x \in Fds : x \in o => t.ent[x].can \subseteq s.ent[x].kern
    BY <1>9 DEF Tidy, TidyEntry
  <2> QED BY <2>1, <1>9, AlikeTidy
<1>12. CASE fd = None
  BY <1>2, <1>7, <1>8, <1>9, <1>10, <1>11, <1>12 DEF Alike
<1>13. CASE fd # None
  <2>1. u = Taken(t, dir, fd) /\ fd \in Fds /\ Ready(t, dir, fd)
    BY <1>7, <1>8, <1>9, <1>13 DEF Ready, Alike
  <2>2. /\ Tidy(u, o, n) /\ u.len = t.len
        /\ \A x \in Fds \ {fd} : u.ent[x] = t.ent[x]
        /\ u.ent[fd].want = t.ent[fd].want
        /\ u.ent[fd].can = t.ent[fd].can \ {dir}
        /\ dir \in u.ent[fd].kern
    BY <2>1, <1>11, TakenTidy
  <2> QED BY <2>1, <2>2, <1>2, <1>8, <1>9, <1>10 DEF Alike
<1> QED BY <1>12, <1>13

-----------------------------------------------------------------------------
(* The list of connections, with the owners of the descriptors and the     *)
(* number of clients that were accepted.                                   *)

Units == Ends \X Nat
SockbufType == [sock : Int, buf : Seq(Units), op : BOOLEAN]
ConnType == [id : Nat, connected : BOOLEAN, sb : [Sides -> SockbufType]]

Op(c) == c.sb["client"].op

\* A connection that was made has two open sockets, both its own; one that was
\* not has the number its client had.
ConnOK(c, own, a) ==
  /\ c.id \in 1 .. a
  /\ c.sb["client"].op = c.sb["proxy"].op
  /\ \A side \in Sides : c.sb[side].sock # -1 /\ c.sb[side].sock # server_sock
  /\ c.sb["client"].sock \in Fds
  /\ Op(c) => \A side \in Sides : /\ c.sb[side].sock \in Fds
                                  /\ own[c.sb[side].sock] = <<c.id, side>>
  /\ ~Op(c) => c.sb["proxy"].sock \notin Fds

Disjoint(c, d) == \A x, y \in Sides : c.sb[x].sock # d.sb[y].sock

\* A connection that was made shares no number with a newer one.  A socket is
\* owned by a connection that was made.
Lists(cs, own, a) ==
  /\ cs \in Seq(ConnType)
  /\ \A i \in 1 .. Len(cs) : ConnOK(cs[i], own, a)
  /\ \A i, j \in 1 .. Len(cs) :
       i < j => cs[i].id # cs[j].id /\ (Op(cs[j]) => Disjoint(cs[i], cs[j]))

Listed(cs, d) == \E i \in 1 .. Len(cs), side \in Sides : cs[i].sb[side].sock = d

Owned(cs, own) ==
  \A d \in Fds : own[d] # Nobody /\ d # server_sock =>
    \/ \E i \in 1 .. Len(cs), side \in Sides :
         Op(cs[i]) /\ cs[i].sb[side].sock = d /\ own[d] = <<cs[i].id, side>>
    \/ own[d] = Failed

LEMMA SideFacts ==
  /\ "client" \in Sides /\ "proxy" \in Sides
  /\ \A side \in Sides : Peer(side) \in Sides /\ Peer(Peer(side)) = side
BY DEF Sides, Peer

\* Nobody's number is 0, a connection's is not.
LEMMA EndsOpen == \A n \in Nat : \A side \in Sides : n > 0 => <<n, side>> # Nobody
BY DEF Nobody

SameConn(c, d) ==
  /\ d.id = c.id
  /\ \A side \in Sides : d.sb[side].sock = c.sb[side].sock /\ d.sb[side].op = c.sb[side].op

LEMMA ListSame ==
  ASSUME NEW cs, NEW own, NEW a, Lists(cs, own, a), NEW ds \in Seq(ConnType),
         Len(ds) = Len(cs), \A k \in 1 .. Len(cs) : SameConn(cs[k], ds[k])
  PROVE  /\ Lists(ds, own, a)
         /\ \A d : Listed(cs, d) <=> Listed(ds, d)
         /\ Owned(cs, own) => Owned(ds, own)
<1>1. \A k \in 1 .. Len(cs) : Op(ds[k]) = Op(cs[k])
  BY SideFacts DEF SameConn, Op
<1>2. ASSUME NEW k \in 1 .. Len(cs) PROVE ConnOK(ds[k], own, a)
  <2>1. ConnOK(cs[k], own, a) /\ SameConn(cs[k], ds[k])
    BY DEF Lists
  <2> QED BY <2>1, <1>1, SideFacts DEF ConnOK, SameConn
<1>3. ASSUME NEW i \in 1 .. Len(cs), NEW j \in 1 .. Len(cs), i < j
      PROVE  ds[i].id # ds[j].id /\ (Op(ds[j]) => Disjoint(ds[i], ds[j]))
  <2>1. cs[i].id # cs[j].id /\ (Op(cs[j]) => Disjoint(cs[i], cs[j]))
    BY <1>3 DEF Lists
  <2>2. SameConn(cs[i], ds[i]) /\ SameConn(cs[j], ds[j])
    OBVIOUS
  <2> QED BY <2>1, <2>2, <1>1 DEF SameConn, Disjoint
<1>4. Lists(ds, own, a)
  BY <1>2, <1>3 DEF Lists
<1>5. \A d : Listed(cs, d) <=> Listed(ds, d)
  BY DEF Listed, SameConn
<1>6. Owned(cs, own) => Owned(ds, own)
  BY <1>1 DEF Owned, SameConn
<1> QED BY <1>4, <1>5, <1>6

LEMMA HeadOf ==
  ASSUME NEW S, NEW c \in S, NEW cs \in Seq(S), NEW ds, ds = <<c>> \o cs
  PROVE  /\ ds \in Seq(S) /\ Len(ds) = Len(cs) + 1
         /\ ds[1] = c
         /\ \A k \in 1 .. Len(ds) : k # 1 => k - 1 \in 1 .. Len(cs) /\ ds[k] = cs[k - 1]
         /\ \A k \in 1 .. Len(cs) : ds[k + 1] = cs[k]
<1>1. <<c>> \in Seq(S) /\ Len(<<c>>) = 1 /\ <<c>>[1] = c
  OBVIOUS
<1>2. /\ <<c>> \o cs \in Seq(S)
      /\ Len(<<c>> \o cs) = Len(<<c>>) + Len(cs)
      /\ \A i \in 1 .. Len(<<c>>) + Len(cs) :
           (<<c>> \o cs)[i] = IF i <= Len(<<c>>) THEN <<c>>[i] ELSE cs[i - Len(<<c>>)]
  BY <1>1, ConcatProperties
<1>3. Len(cs) \in Nat
  BY LenProperties
<1>4. /\ ds \in Seq(S) /\ Len(ds) = Len(cs) + 1
      /\ \A i \in 1 .. Len(cs) + 1 : ds[i] = IF i <= 1 THEN c ELSE cs[i - 1]
  <2>1. \A i \in 1 .. Len(cs) + 1 : i <= 1 => i = 1
    BY <1>3
  <2> QED BY <1>1, <1>2, <1>3, <2>1
<1> QED BY <1>3, <1>4

Held(cs, own, d) ==
  \/ \E i \in 1 .. Len(cs), side \in Sides :
       Op(cs[i]) /\ cs[i].sb[side].sock = d /\ own[d] = <<cs[i].id, side>>
  \/ own[d] = Failed

\* What is open stays as it is; the sockets of c are not.
Keeps(own, own2) == \A d \in Fds : own[d] # Nobody => own2[d] = own[d]
Free(c, own) == \A side \in Sides : c.sb[side].sock \in Fds => own[c.sb[side].sock] = Nobody

LEMMA ListInsert ==
  ASSUME NEW cs, NEW own, NEW a \in Nat, NEW b, b = a + 1, Lists(cs, own, a),
         NEW c \in ConnType, NEW own2, ConnOK(c, own2, b), c.id = b,
         Keeps(own, own2), Free(c, own),
         NEW ds, ds = <<c>> \o cs
  PROVE  /\ Lists(ds, own2, b)
         /\ \A d : Listed(cs, d) => Listed(ds, d)
         /\ \A side \in Sides : Listed(ds, c.sb[side].sock)
         /\ \A d \in Fds : Owned(cs, own) /\ own[d] # Nobody /\ d # server_sock =>
              Held(ds, own, d)
<1>1. /\ ds \in Seq(ConnType) /\ Len(ds) = Len(cs) + 1
      /\ ds[1] = c
      /\ \A k \in 1 .. Len(ds) : k # 1 => k - 1 \in 1 .. Len(cs) /\ ds[k] = cs[k - 1]
      /\ \A k \in 1 .. Len(cs) : ds[k + 1] = cs[k]
  BY HeadOf DEF Lists
<1>2. cs \in Seq(ConnType) /\ Len(cs) \in Nat
  BY LenProperties DEF Lists
<1>3. ASSUME NEW j \in 1 .. Len(cs)
      PROVE  /\ ConnOK(cs[j], own2, b)
             /\ c.id # cs[j].id
             /\ Op(cs[j]) => Disjoint(c, cs[j])
  <2>1. ConnOK(cs[j], own, a) /\ cs[j].id \in 1 .. a /\ b \notin 1 .. a
    <3>1. ConnOK(cs[j], own, a)
      BY DEF Lists
    <3>2. b \notin 1 .. a
      OBVIOUS
    <3> QED BY <3>1, <3>2 DEF ConnOK
  <2>2. cs[j].id \in 1 .. b /\ cs[j].id \in Nat /\ cs[j].id > 0
    BY <2>1
  <2>3. ASSUME Op(cs[j]), NEW side \in Sides
        PROVE  /\ cs[j].sb[side].sock \in Fds
               /\ own[cs[j].sb[side].sock] # Nobody
               /\ own2[cs[j].sb[side].sock] = <<cs[j].id, side>>
    <3>1. cs[j].sb[side].sock \in Fds /\ own[cs[j].sb[side].sock] = <<cs[j].id, side>>
      BY <2>1, <2>3 DEF ConnOK
    <3>2. own[cs[j].sb[side].sock] # Nobody
      BY <3>1, <2>2, EndsOpen
    <3> QED BY <3>1, <3>2 DEF Keeps
  <2>4. ConnOK(cs[j], own2, b)
    BY <2>1, <2>2, <2>3 DEF ConnOK
  <2>5. ASSUME Op(cs[j]), NEW x \in Sides, NEW y \in Sides, c.sb[x].sock = cs[j].sb[y].sock
        PROVE  FALSE
    BY <2>3, <2>5 DEF Free
  <2> QED BY <2>1, <2>4, <2>5 DEF Disjoint
<1>4. \A i \in 1 .. Len(ds) : ConnOK(ds[i], own2, b)
  <2>1. SUFFICES ASSUME NEW i \in 1 .. Len(ds) PROVE ConnOK(ds[i], own2, b)
    OBVIOUS
  <2>2. CASE i = 1
    BY <2>2, <1>1
  <2>3. CASE i # 1
    BY <2>3, <1>1, <1>3
  <2> QED BY <2>2, <2>3
<1>5. ASSUME NEW i \in 1 .. Len(ds), NEW j \in 1 .. Len(ds), i < j
      PROVE  ds[i].id # ds[j].id /\ (Op(ds[j]) => Disjoint(ds[i], ds[j]))
  <2>1. j # 1
    BY <1>5
  <2>2. j - 1 \in 1 .. Len(cs) /\ ds[j] = cs[j - 1]
    BY <2>1, <1>1
  <2>3. CASE i = 1
    <3>1. ds[i] = c
      BY <2>3, <1>1
    <3> QED BY <2>2, <3>1, <1>3
  <2>4. CASE i # 1
    <3>1. i - 1 \in 1 .. Len(cs) /\ ds[i] = cs[i - 1]
      BY <2>4, <1>1
    <3>2. i - 1 < j - 1
      BY <1>5
    <3> QED BY <2>2, <3>1, <3>2 DEF Lists
  <2> QED BY <2>3, <2>4
<1>6. Lists(ds, own2, b)
  BY <1>1, <1>4, <1>5 DEF Lists
<1>7. \A k \in 1 .. Len(cs) : k + 1 \in 1 .. Len(ds)
  BY <1>1, <1>2
<1>8. \A d : Listed(cs, d) => Listed(ds, d)
  BY <1>1, <1>7 DEF Listed
<1>9. \A side \in Sides : Listed(ds, c.sb[side].sock)
  <2>1. 1 \in 1 .. Len(ds)
    BY <1>1, <1>2
  <2> QED BY <2>1, <1>1 DEF Listed
<1>10. \A d \in Fds : Owned(cs, own) /\ own[d] # Nobody /\ d # server_sock => Held(ds, own, d)
  <2>1. SUFFICES ASSUME NEW d \in Fds, Owned(cs, own), own[d] # Nobody, d # server_sock,
                        own[d] # Failed
                 PROVE  \E i \in 1 .. Len(ds), side \in Sides :
                          /\ Op(ds[i]) /\ ds[i].sb[side].sock = d
                          /\ own[d] = <<ds[i].id, side>>
    BY DEF Held
  <2>2. PICK i \in 1 .. Len(cs), side \in Sides :
          Op(cs[i]) /\ cs[i].sb[side].sock = d /\ own[d] = <<cs[i].id, side>>
    BY <2>1 DEF Owned
  <2>3. i + 1 \in 1 .. Len(ds) /\ ds[i + 1] = cs[i]
    BY <1>1, <1>7
  <2> QED BY <2>2, <2>3
<1> QED BY <1>6, <1>8, <1>9, <1>10

\* Where the k-th element was before the i-th was removed.
Before(i, k) == IF k < i THEN k ELSE k + 1

LEMMA RemoveAtSeq ==
  ASSUME NEW S, NEW cs \in Seq(S), NEW i \in 1 .. Len(cs), NEW ds, ds = RemoveAt(cs, i)
  PROVE  /\ ds \in Seq(S) /\ Len(ds) = Len(cs) - 1
         /\ \A k \in 1 .. Len(ds) : Before(i, k) \in 1 .. Len(cs) /\ Before(i, k) # i
                                    /\ ds[k] = cs[Before(i, k)]
         /\ \A k, m \in 1 .. Len(ds) : k < m => Before(i, k) < Before(i, m)
         /\ \A j \in 1 .. Len(cs) : j # i => \E k \in 1 .. Len(ds) : Before(i, k) = j
<1>1. PICK n : n = Len(cs)
  OBVIOUS
<1>2. n \in Nat /\ i \in 1 .. n /\ i \in Int /\ \A k \in 1 .. n : cs[k] \in S
  BY <1>1, LenProperties, ElementOfSeq
<1>3. PICK x : x = SubSeq(cs, 1, i - 1)
  OBVIOUS
<1>4. PICK y : y = SubSeq(cs, i + 1, n)
  OBVIOUS
<1>5. ds = x \o y
  BY <1>1, <1>3, <1>4 DEF RemoveAt
<1>6. /\ x \in Seq(S) /\ Len(x) = i - 1
      /\ \A k \in 1 .. i - 1 : x[k] = cs[k]
  <2>1. i - 1 \in Int /\ 1 \in Int /\ \A k \in 1 .. i - 1 : cs[k] \in S
    BY <1>2
  <2>2. /\ SubSeq(cs, 1, i - 1) \in Seq(S)
        /\ Len(SubSeq(cs, 1, i - 1)) = IF 1 <= i - 1 THEN (i - 1) - 1 + 1 ELSE 0
        /\ \A k \in 1 .. (i - 1) - 1 + 1 : SubSeq(cs, 1, i - 1)[k] = cs[1 + k - 1]
    BY <2>1, SubSeqProperties
  <2>3. i >= 1 /\ \A k \in 1 .. i - 1 : k \in 1 .. (i - 1) - 1 + 1 /\ 1 + k - 1 = k
    BY <1>2
  <2>4. Len(x) = i - 1
    BY <2>2, <2>3, <1>2, <1>3
  <2> QED BY <2>2, <2>3, <2>4, <1>3
<1>7. /\ y \in Seq(S) /\ Len(y) = n - i
      /\ \A k \in 1 .. n - i : y[k] = cs[i + k]
  <2>1. i + 1 \in Int /\ n \in Int /\ \A k \in i + 1 .. n : cs[k] \in S
    BY <1>2
  <2>2. /\ SubSeq(cs, i + 1, n) \in Seq(S)
        /\ Len(SubSeq(cs, i + 1, n)) = IF i + 1 <= n THEN n - (i + 1) + 1 ELSE 0
        /\ \A k \in 1 .. n - (i + 1) + 1 : SubSeq(cs, i + 1, n)[k] = cs[(i + 1) + k - 1]
    BY <2>1, SubSeqProperties
  <2>3. i <= n /\ \A k \in 1 .. n - i : k \in 1 .. n - (i + 1) + 1 /\ (i + 1) + k - 1 = i + k
    BY <1>2
  <2>4. Len(y) = n - i
    BY <2>2, <2>3, <1>2, <1>4
  <2> QED BY <2>2, <2>3, <2>4, <1>4
<1>8. /\ ds \in Seq(S) /\ Len(ds) = Len(x) + Len(y)
      /\ \A k \in 1 .. Len(x) + Len(y) : ds[k] = IF k <= Len(x) THEN x[k] ELSE y[k - Len(x)]
  BY <1>5, <1>6, <1>7, ConcatProperties
<1>9. Len(ds) = n - 1
  BY <1>2, <1>6, <1>7, <1>8
<1>10. ASSUME NEW k \in 1 .. Len(ds)
       PROVE  Before(i, k) \in 1 .. n /\ Before(i, k) # i /\ ds[k] = cs[Before(i, k)]
  <2>1. k \in 1 .. n - 1 /\ k \in 1 .. Len(x) + Len(y)
    BY <1>8, <1>9
  <2>2. CASE k < i
    <3>1. Before(i, k) = k /\ k \in 1 .. i - 1 /\ k <= Len(x)
      BY <2>1, <2>2, <1>2, <1>6 DEF Before
    <3> QED BY <3>1, <2>1, <2>2, <1>2, <1>6, <1>8
  <2>3. CASE ~(k < i)
    <3>1. /\ Before(i, k) = k + 1 /\ ~(k <= Len(x))
          /\ k - Len(x) \in 1 .. n - i /\ i + (k - Len(x)) = k + 1
      BY <2>1, <2>3, <1>2, <1>6 DEF Before
    <3>2. ds[k] = y[k - Len(x)]
      BY <3>1, <2>1, <1>8
    <3>3. y[k - Len(x)] = cs[k + 1]
      BY <3>1, <1>7
    <3>4. k + 1 \in 1 .. n /\ k + 1 # i
      BY <2>1, <2>3, <1>2
    <3> QED BY <3>1, <3>2, <3>3, <3>4
  <2> QED BY <2>2, <2>3
<1>11. \A k, m \in 1 .. Len(ds) : k < m => Before(i, k) < Before(i, m)
  BY <1>2, <1>9 DEF Before
<1>12. ASSUME NEW j \in 1 .. n, j # i PROVE \E k \in 1 .. Len(ds) : Before(i, k) = j
  <2>1. CASE j < i
    <3>1. j \in 1 .. Len(ds) /\ Before(i, j) = j
      BY <2>1, <1>2, <1>9 DEF Before
    <3> QED BY <3>1
  <2>2. CASE j > i
    <3>1. j - 1 \in 1 .. Len(ds) /\ Before(i, j - 1) = j
      BY <2>2, <1>2, <1>9 DEF Before
    <3> QED BY <3>1
  <2> QED BY <2>1, <2>2, <1>12, <1>2
<1> QED BY <1>1, <1>8, <1>9, <1>10, <1>11, <1>12

LEMMA ListRemove ==
  ASSUME NEW cs, NEW own, NEW a, Lists(cs, own, a), NEW i \in 1 .. Len(cs),
         \A j \in 1 .. Len(cs) : j < i /\ Op(cs[j]) => Disjoint(cs[i], cs[j]),
         NEW own2, \A d \in Fds : own2[d] = IF \E side \in Sides : d = cs[i].sb[side].sock
                                              THEN Nobody ELSE own[d],
         NEW ds, ds = RemoveAt(cs, i)
  PROVE  /\ Lists(ds, own2, a)
         /\ \A d : Listed(cs, d) /\ (\A side \in Sides : d # cs[i].sb[side].sock) => Listed(ds, d)
         /\ Owned(cs, own) => Owned(ds, own2)
<1>1. /\ ds \in Seq(ConnType) /\ Len(ds) = Len(cs) - 1
      /\ \A k \in 1 .. Len(ds) : Before(i, k) \in 1 .. Len(cs) /\ Before(i, k) # i
                                 /\ ds[k] = cs[Before(i, k)]
      /\ \A k, m \in 1 .. Len(ds) : k < m => Before(i, k) < Before(i, m)
      /\ \A j \in 1 .. Len(cs) : j # i => \E k \in 1 .. Len(ds) : Before(i, k) = j
  BY RemoveAtSeq DEF Lists
<1>2. ASSUME NEW j \in 1 .. Len(cs), j # i PROVE ConnOK(cs[j], own2, a)
  <2>1. ConnOK(cs[j], own, a)
    BY DEF Lists
  <2>2. Op(cs[j]) => Disjoint(cs[i], cs[j])
    <3>1. CASE j < i
      BY <3>1
    <3>2. CASE i < j
      BY <3>2 DEF Lists
    <3>3. cs \in Seq(ConnType) /\ Len(cs) \in Nat
      BY LenProperties DEF Lists
    <3> QED BY <3>1, <3>2, <3>3, <1>2
  <2>3. Op(cs[j]) => \A side \in Sides : own2[cs[j].sb[side].sock] = own[cs[j].sb[side].sock]
    BY <2>1, <2>2 DEF Disjoint, ConnOK
  <2> QED BY <2>1, <2>3 DEF ConnOK
<1>3. \A k \in 1 .. Len(ds) : ConnOK(ds[k], own2, a)
  BY <1>1, <1>2
<1>4. ASSUME NEW k \in 1 .. Len(ds), NEW m \in 1 .. Len(ds), k < m
      PROVE  ds[k].id # ds[m].id /\ (Op(ds[m]) => Disjoint(ds[k], ds[m]))
  <2>1. PICK x, y \in 1 .. Len(cs) : x < y /\ ds[k] = cs[x] /\ ds[m] = cs[y]
    BY <1>1, <1>4
  <2> QED BY <2>1 DEF Lists
<1>5. Lists(ds, own2, a)
  BY <1>1, <1>3, <1>4 DEF Lists
<1>6. ASSUME NEW d, Listed(cs, d), \A side \in Sides : d # cs[i].sb[side].sock
      PROVE  Listed(ds, d)
  <2>1. PICK j \in 1 .. Len(cs), side \in Sides : cs[j].sb[side].sock = d
    BY <1>6 DEF Listed
  <2>2. j # i
    BY <2>1, <1>6
  <2>3. PICK k \in 1 .. Len(ds) : Before(i, k) = j
    BY <2>2, <1>1
  <2> QED BY <2>1, <2>3, <1>1 DEF Listed
<1>7. ASSUME Owned(cs, own), NEW d \in Fds, own2[d] # Nobody, d # server_sock, own2[d] # Failed
      PROVE  \E k \in 1 .. Len(ds), side \in Sides :
               Op(ds[k]) /\ ds[k].sb[side].sock = d /\ own2[d] = <<ds[k].id, side>>
  <2>1. own2[d] = own[d] /\ \A side \in Sides : d # cs[i].sb[side].sock
    BY <1>7
  <2>2. PICK j \in 1 .. Len(cs), side \in Sides :
          Op(cs[j]) /\ cs[j].sb[side].sock = d /\ own[d] = <<cs[j].id, side>>
    BY <2>1, <1>7 DEF Owned
  <2>3. j # i
    BY <2>1, <2>2
  <2>4. PICK k \in 1 .. Len(ds) : Before(i, k) = j
    BY <2>3, <1>1
  <2>5. ds[k] = cs[j]
    BY <2>4, <1>1
  <2> QED BY <2>1, <2>2, <2>5
<1>8. Owned(cs, own) => Owned(ds, own2)
  BY <1>7 DEF Owned
<1> QED BY <1>5, <1>6, <1>8

-----------------------------------------------------------------------------
(* The beginning of a round.                                               *)

LEMMA CheckTidy ==
  ASSUME NEW s, NEW o, NEW n, Slack(n), Tidy(s, o, n), NEW sb \in SockbufType,
         sb.buf # <<>> => sb.sock \in o,
         NEW t, t = sockbuf_check(s, sb)
  PROVE  /\ Tidy(t, o, n) /\ t.len = s.len
         /\ \A x \in Fds : /\ t.ent[x].can = s.ent[x].can
                           /\ x # sb.sock => t.ent[x].want = s.ent[x].want
<1>1. CASE sb.sock \notin Fds
  BY <1>1 DEF sockbuf_check
<1>2. CASE sb.sock \in Fds /\ sb.buf # <<>>
  <2>1. PICK d \in Fds : d = sb.sock
    BY <1>2
  <2>2. t = io_wantwrite(s, d) /\ d \in o
    BY <1>2, <2>1 DEF sockbuf_check
  <2>3. /\ Tidy(t, o, n) /\ t.len = s.len
        /\ \A x \in Fds \ {d} : t.ent[x] = s.ent[x]
        /\ t.ent[d].can = s.ent[d].can
    BY <2>2, WriteTidy
  <2> QED BY <2>1, <2>3
<1>3. CASE sb.sock \in Fds /\ sb.buf = <<>>
  <2>1. PICK d \in Fds : d = sb.sock
    BY <1>3
  <2>2. t = io_wantread(s, d)
    BY <1>3, <2>1 DEF sockbuf_check
  <2>3. /\ Tidy(t, o, n) /\ t.len = s.len
        /\ \A x \in Fds \ {d} : t.ent[x] = s.ent[x]
        /\ t.ent[d].can = s.ent[d].can
    BY <2>2, ReadTidy
  <2> QED BY <2>1, <2>3
<1> QED BY <1>1, <1>2, <1>3

\* The table after n connections, when f has those before.
Look(s, cs, f, n) ==
  IF n = 0 THEN s
  ELSE sockbuf_check(sockbuf_check(f[n - 1], cs[n].sb["client"]), cs[n].sb["proxy"])

LEMMA LookExists ==
  ASSUME NEW s, NEW cs, NEW m \in Nat
  PROVE  \E f : f = [n \in 0 .. m |-> Look(s, cs, f, n)]
<1> DEFINE Good(k) == \E f : f = [n \in 0 .. k |-> Look(s, cs, f, n)]
           Bad == {k \in Nat : ~Good(k)}
<1>1. SUFFICES ASSUME Bad # {} PROVE FALSE
  OBVIOUS
<1>2. Min(Bad) \in Bad /\ \A y \in Bad : Min(Bad) <= y
  <2>1. Bad \subseteq Nat
    OBVIOUS
  <2> HIDE DEF Bad
  <2> QED BY <1>1, <2>1, MinOf
<1>3. PICK k : k = Min(Bad)
  OBVIOUS
<1>4. k \in Nat /\ ~Good(k) /\ \A y \in Nat : y < k => Good(y)
  <2> HIDE DEF Good
  <2>1. k \in Nat /\ ~Good(k) /\ \A y \in Bad : k <= y
    BY <1>2, <1>3
  <2>2. ASSUME NEW y \in Nat, y < k PROVE Good(y)
    BY <2>1, <2>2
  <2> QED BY <2>1, <2>2
<1>5. k # 0
  <2> DEFINE g == [n \in 0 .. 0 |-> s]
  <2>1. g = [n \in 0 .. 0 |-> Look(s, cs, g, n)]
    BY DEF Look
  <2> QED BY <2>1, <1>4
<1>6. k - 1 \in Nat /\ k - 1 < k
  BY <1>4, <1>5
<1>7. PICK f : f = [n \in 0 .. k - 1 |-> Look(s, cs, f, n)]
  BY <1>4, <1>6
<1> DEFINE g == [n \in 0 .. k |-> IF n = k THEN Look(s, cs, f, k) ELSE f[n]]
<1>8. ASSUME NEW n \in 0 .. k PROVE g[n] = Look(s, cs, g, n)
  <2>1. n # 0 => g[n - 1] = f[n - 1]
    BY <1>4
  <2>2. Look(s, cs, g, n) = Look(s, cs, f, n)
    <3> HIDE DEF g
    <3> QED BY <2>1 DEF Look
  <2>3. n # k => f[n] = Look(s, cs, f, n)
    <3>1. n # k => n \in 0 .. k - 1
      BY <1>4
    <3> QED BY <3>1, <1>7
  <2> QED BY <2>2, <2>3
<1>9. g = [n \in 0 .. k |-> Look(s, cs, g, n)]
  BY <1>8
<1> QED BY <1>9, <1>4

LEMMA CheckedUnfold ==
  ASSUME Len(conns) \in Nat
  PROVE  \E f : /\ \A n \in 0 .. Len(conns) : f[n] = Look(io, conns, f, n)
                /\ Checked = f[Len(conns)]
<1> DEFINE N == Len(conns)
           f == CHOOSE f : f = [n \in 0 .. N |-> Look(io, conns, f, n)]
<1>1. \E g : g = [n \in 0 .. N |-> Look(io, conns, g, n)]
  BY LookExists
<1>2. f = [n \in 0 .. N |-> Look(io, conns, f, n)]
  BY <1>1
<1>3. Checked = f[N]
  BY DEF Checked, Look
<1> HIDE DEF f
<1>4. \A n \in 0 .. N : f[n] = Look(io, conns, f, n)
  BY <1>2
<1> QED BY <1>3, <1>4

\* What sockbuf_check does to the table, for all connections together.
Noted(s, t, cs, o, n) ==
  /\ Tidy(t, o, n) /\ t.len = s.len
  /\ \A x \in Fds : /\ t.ent[x].can = s.ent[x].can
                    /\ t.ent[x].want = s.ent[x].want \/ Listed(cs, x)

LEMMA CheckedTidy ==
  ASSUME NEW o, NEW n, Slack(n), Tidy(io, o, n), conns \in Seq(ConnType),
         \A i \in 1 .. Len(conns), side \in Sides :
           conns[i].sb[side].buf # <<>> => conns[i].sb[side].sock \in o
  PROVE  Noted(io, Checked, conns, o, n)
<1>1. Len(conns) \in Nat /\ \A i \in 1 .. Len(conns) : conns[i] \in ConnType
  BY LenProperties, ElementOfSeq
<1>2. PICK f : /\ \A k \in 0 .. Len(conns) : f[k] = Look(io, conns, f, k)
               /\ Checked = f[Len(conns)]
  BY <1>1, CheckedUnfold
<1> DEFINE P(k) == Noted(io, f[k], conns, o, n)
           Bad == {k \in 0 .. Len(conns) : ~P(k)}
<1>3. Bad = {}
  <2>1. SUFFICES ASSUME Bad # {} PROVE FALSE
    OBVIOUS
  <2>2. PICK k : k = Min(Bad)
    OBVIOUS
  <2>3. k \in Bad /\ \A y \in Bad : k <= y
    <3>1. Bad \subseteq Nat
      BY <1>1
    <3> HIDE DEF Bad
    <3> QED BY <3>1, <2>1, <2>2, MinOf
  <2>4. k \in 0 .. Len(conns) /\ ~P(k) /\ (k # 0 => P(k - 1))
    <3> HIDE DEF P
    <3>1. k \in 0 .. Len(conns) /\ ~P(k) /\ k \in Nat
      BY <2>3, <1>1
    <3>2. ASSUME k # 0 PROVE P(k - 1)
      <4>1. k - 1 \in 0 .. Len(conns) /\ ~(k <= k - 1)
        BY <3>1, <3>2, <1>1
      <4>2. k - 1 \notin Bad
        BY <4>1, <2>3
      <4> QED BY <4>1, <4>2
    <3> QED BY <3>1, <3>2
  <2>5. k # 0
    <3>1. ASSUME k = 0 PROVE FALSE
      <4>1. f[0] = io
        BY <3>1, <2>4, <1>2 DEF Look
      <4> QED BY <3>1, <4>1, <2>4 DEF Noted
    <3> QED BY <3>1
  <2>6. k \in 1 .. Len(conns)
    BY <2>4, <2>5, <1>1
  <2>7. PICK c : c = conns[k]
    OBVIOUS
  <2>8. c.sb["client"] \in SockbufType /\ c.sb["proxy"] \in SockbufType
    BY <2>6, <2>7, <1>1, SideFacts DEF ConnType
  <2>9. /\ c.sb["client"].buf # <<>> => c.sb["client"].sock \in o
        /\ c.sb["proxy"].buf # <<>> => c.sb["proxy"].sock \in o
        /\ Listed(conns, c.sb["client"].sock) /\ Listed(conns, c.sb["proxy"].sock)
    BY <2>6, <2>7, SideFacts DEF Listed
  <2>10. PICK s : s = f[k - 1]
    OBVIOUS
  <2>11. PICK t : t = sockbuf_check(s, c.sb["client"])
    OBVIOUS
  <2>12. PICK u : u = sockbuf_check(t, c.sb["proxy"])
    OBVIOUS
  <2>13. f[k] = u
    BY <2>4, <2>5, <2>7, <2>10, <2>11, <2>12, <1>2 DEF Look
  <2>14. Noted(io, s, conns, o, n)
    BY <2>4, <2>5, <2>10
  <2>15. Tidy(s, o, n)
    BY <2>14 DEF Noted
  <2>16. /\ Tidy(t, o, n) /\ t.len = s.len
         /\ \A x \in Fds : /\ t.ent[x].can = s.ent[x].can
                           /\ x # c.sb["client"].sock => t.ent[x].want = s.ent[x].want
    BY <2>8, <2>9, <2>11, <2>15, CheckTidy
  <2>17. /\ Tidy(u, o, n) /\ u.len = t.len
         /\ \A x \in Fds : /\ u.ent[x].can = t.ent[x].can
                           /\ x # c.sb["proxy"].sock => u.ent[x].want = t.ent[x].want
    BY <2>8, <2>9, <2>12, <2>16, CheckTidy
  <2>18. Noted(io, u, conns, o, n)
    BY <2>9, <2>14, <2>16, <2>17 DEF Noted
  <2> QED BY <2>4, <2>13, <2>18
<1>4. Len(conns) \in 0 .. Len(conns)
  BY <1>1
<1>5. P(Len(conns))
  <2> HIDE DEF P
  <2> QED BY <1>3, <1>4
<1> QED BY <1>2, <1>5

-----------------------------------------------------------------------------
(* The invariant of the table, with the connections cs, the open           *)
(* descriptors o and the number of accepted clients a: the server's socket *)
(* is watched, and only it and the sockets of connections are wanted.      *)

TableOK(s, cs, o, a) ==
  /\ Tidy(s, o, 2 * a)
  /\ server_sock < s.len
  /\ s.ent[server_sock].want = {"r"}
  /\ "r" \in s.ent[server_sock].can => a < MaxConns
  /\ \A d \in Fds : s.ent[d].want # {} => d = server_sock \/ Listed(cs, d)

LEMMA ServerFacts ==
  /\ server_sock \in Fds /\ server_sock \in Nat
  /\ \A d \in Fds : d \in Nat /\ server_sock <= d
<1>1. Fds \subseteq Nat /\ Fds # {}
  BY IoTableAssumption, TinyProxyAssumption
<1>2. Min(Fds) \in Fds /\ \A y \in Fds : Min(Fds) <= y
  BY <1>1, MinOf
<1> QED BY <1>1, <1>2 DEF server_sock

LEMMA EnoughSlack ==
  ASSUME NEW a \in 0 .. MaxConns
  PROVE  /\ Slack(2 * a) /\ MaxConns \in Nat /\ a \in Nat
         /\ a < MaxConns => Slack(2 * a + 1) /\ Slack(2 * a + 1 + 1) /\ 2 * (a + 1) = 2 * a + 1 + 1
<1>1. MaxConns \in Nat /\ Cardinality(Fds) + 2 * MaxConns < Wrap
  BY TinyProxyAssumption
<1> QED BY <1>1, WrapFacts DEF Slack

LEMMA MoreDrift ==
  ASSUME NEW s, NEW o, NEW n \in Nat, NEW m \in Nat, n <= m, Tidy(s, o, n)
  PROVE  Tidy(s, o, m)
<1>1. s.wanted \in Nat /\ Cardinality(Watched(s)) \in Nat
  BY WatchedFinite, WrapFacts DEF Tidy, TableType
<1> QED BY <1>1 DEF Tidy, Drift

\* A descriptor is handed out.
LEMMA TakeOK ==
  ASSUME NEW s, NEW cs, NEW o, NEW a \in 0 .. MaxConns, TableOK(s, cs, o, a),
         NEW dir \in Dirs, NEW r, r = Next_ready(s, dir)
  PROVE  /\ TableOK(r.s, cs, o, a)
         /\ r.fd \in Fds \cup {None}
         /\ r.fd # None =>
              /\ r.fd \in Fds
              /\ dir \notin r.s.ent[r.fd].can /\ dir \in r.s.ent[r.fd].kern
              /\ dir = "w" => r.fd \in o /\ r.fd # server_sock
              /\ r.fd = server_sock => a < MaxConns
              /\ r.fd # server_sock => Listed(cs, r.fd)
<1>1. Slack(2 * a) /\ Tidy(s, o, 2 * a)
  BY EnoughSlack DEF TableOK
<1>2. /\ Tidy(r.s, o, 2 * a) /\ r.s.len = s.len
      /\ r.fd \in Fds \cup {None}
      /\ \A x \in Fds : /\ r.s.ent[x].want = s.ent[x].want
                        /\ r.s.ent[x].can \subseteq s.ent[x].can
      /\ r.fd # None => /\ Ready(s, dir, r.fd)
                        /\ dir \notin r.s.ent[r.fd].can
                        /\ dir \in r.s.ent[r.fd].kern
  BY <1>1, HandTidy
<1>3. server_sock \in Fds
  BY ServerFacts
<1>4. TableOK(r.s, cs, o, a)
  BY <1>2, <1>3 DEF TableOK
<1>5. ASSUME r.fd # None
      PROVE  /\ r.fd \in Fds
             /\ dir = "w" => r.fd \in o /\ r.fd # server_sock
             /\ r.fd = server_sock => a < MaxConns
             /\ r.fd # server_sock => Listed(cs, r.fd)
  <2>1. r.fd \in Fds /\ dir \in s.ent[r.fd].want /\ dir \in s.ent[r.fd].can
    BY <1>2, <1>5 DEF Ready
  <2>2. TidyEntry(s.ent[r.fd], r.fd \in o)
    BY <2>1, <1>1 DEF Tidy
  <2>3. dir = "w" => r.fd \in o
    BY <2>1, <2>2 DEF TidyEntry
  <2>4. r.fd = server_sock => dir = "r"
    BY <2>1 DEF TableOK
  <2> QED BY <2>1, <2>3, <2>4 DEF TableOK
<1> QED BY <1>2, <1>4, <1>5

LEMMA RoundOK ==
  ASSUME NEW o, NEW a \in 0 .. MaxConns, TableOK(io, conns, o, a), conns \in Seq(ConnType),
         \A i \in 1 .. Len(conns), side \in Sides :
           conns[i].sb[side].buf # <<>> => conns[i].sb[side].sock \in o,
         ~Listed(conns, server_sock)
  PROVE  /\ TableOK(Checked, conns, o, a)
         /\ server_sock \in Polled(Checked)
         /\ \A rev \in Findings(Checked) :
              (a = MaxConns => rev[server_sock] = {}) =>
                TableOK(io_waituntil2(Checked, rev), conns, o, a)
<1>1. Slack(2 * a) /\ Tidy(io, o, 2 * a) /\ server_sock \in Fds
      /\ server_sock \in Nat /\ MaxConns \in Nat
  BY EnoughSlack, ServerFacts DEF TableOK
<1>2. PICK s : s = Checked
  OBVIOUS
<1>3. Noted(io, s, conns, o, 2 * a)
  BY <1>1, <1>2, CheckedTidy
<1>4. TableOK(s, conns, o, a)
  BY <1>1, <1>3 DEF TableOK, Noted
<1>5. server_sock \in Polled(s)
  <2>1. s.len \in Nat /\ server_sock < s.len
    BY <1>4 DEF TableOK, Tidy, TableType
  <2>2. s.ent[server_sock].want # {}
    BY <1>4 DEF TableOK
  <2> QED BY <2>1, <2>2, <1>1 DEF Polled
<1>6. ASSUME NEW rev \in Findings(s), a = MaxConns => rev[server_sock] = {},
             NEW t, t = io_waituntil2(s, rev)
      PROVE  TableOK(t, conns, o, a)
  <2>1. Tidy(s, o, 2 * a)
    BY <1>4 DEF TableOK
  <2>2. /\ Tidy(t, o, 2 * a) /\ t.len = s.len
        /\ \A x \in Fds : t.ent[x].want = s.ent[x].want
        /\ s.wanted # 0 => \A x \in Polled(s) : t.ent[x].can \subseteq rev[x]
    BY <2>1, <1>6, WaitTidy
  <2>3. "r" \in t.ent[server_sock].can => a < MaxConns
    <3>1. CASE s.wanted = 0
      <4>1. t = s
        BY <3>1, <1>6 DEF io_waituntil2
      <4> QED BY <4>1, <1>4 DEF TableOK
    <3>2. CASE s.wanted # 0
      <4>1. "r" \in t.ent[server_sock].can => a # MaxConns
        BY <3>2, <2>2, <1>5, <1>6
      <4> QED BY <4>1, <1>1
    <3> QED BY <3>1, <3>2
  <2> QED BY <2>2, <2>3, <1>1, <1>4 DEF TableOK
<1> QED BY <1>2, <1>4, <1>5, <1>6

\* The connection to the remote host is there.
LEMMA ConnectedOK ==
  ASSUME NEW s, NEW cs, NEW o, NEW a \in 0 .. MaxConns, TableOK(s, cs, o, a),
         NEW d \in Fds, d \in o, d # server_sock, Listed(cs, d), "w" \notin s.ent[d].can,
         NEW u, u = io_dontwantwrite(s, d), NEW t, t = io_wantread(u, d)
  PROVE  TableOK(t, cs, o, a)
<1>1. Slack(2 * a) /\ Tidy(s, o, 2 * a) /\ server_sock \in Fds
  BY EnoughSlack, ServerFacts DEF TableOK
<1>2. /\ Tidy(u, o, 2 * a) /\ u.len = s.len
      /\ \A x \in Fds \ {d} : u.ent[x] = s.ent[x]
  BY <1>1, UnwriteTidy
<1>3. /\ Tidy(t, o, 2 * a) /\ t.len = u.len
      /\ \A x \in Fds \ {d} : t.ent[x] = u.ent[x]
  <2>1. PICK n : n = 2 * a
    OBVIOUS
  <2>2. Slack(n) /\ Tidy(u, o, n)
    BY <2>1, <1>1, <1>2
  <2>3. /\ Tidy(t, o, n) /\ t.len = u.len
        /\ \A x \in Fds \ {d} : t.ent[x] = u.ent[x]
    BY <2>2, ReadTidy
  <2> QED BY <2>1, <2>3
<1>4. \A x \in Fds \ {d} : t.ent[x] = s.ent[x]
  BY <1>2, <1>3
<1> QED BY <1>1, <1>2, <1>3, <1>4 DEF TableOK

\* A connection is closed: those of its numbers that are descriptors.
Shut(s, d) == IF d \in Fds THEN io_close(s, d) ELSE s

LEMMA ShutTidy ==
  ASSUME NEW s, NEW o, NEW n, Slack(n), Tidy(s, o, n), NEW d,
         NEW p, Drops(o, p, d), NEW t, t = Shut(s, d),
         d \in Fds => s.ent[d].want \subseteq s.ent[d].kern
  PROVE  /\ Tidy(t, p, n) /\ t.len = s.len
         /\ \A x \in Fds : x # d => t.ent[x] = s.ent[x]
         /\ d \in Fds => t.ent[d].want = {}
<1>1. CASE d \in Fds
  <2>1. t = io_close(s, d)
    BY <1>1 DEF Shut
  <2>2. /\ Tidy(t, p, n) /\ t.len = s.len
        /\ \A x \in Fds \ {d} : t.ent[x] = s.ent[x]
        /\ t.ent[d].want = s.ent[d].want \ s.ent[d].kern
    BY <2>1, <1>1, CloseTidy
  <2> QED BY <2>2, <1>1
<1>2. CASE d \notin Fds
  <2>1. t = s /\ \A x \in Fds : x \in p <=> x \in o
    BY <1>2 DEF Shut, Drops
  <2>2. Placed(t, p) /\ \A x \in Fds : TidyEntry(t.ent[x], x \in p)
    BY <2>1 DEF Tidy, TidyEntry, Placed
  <2> QED BY <2>1, <2>2, <1>2 DEF Tidy
<1> QED BY <1>1, <1>2

LEMMA ClosedOK ==
  ASSUME NEW s, NEW cs, NEW o, NEW a \in 0 .. MaxConns, TableOK(s, cs, o, a),
         NEW d, NEW e, d # server_sock, e # server_sock, d # e,
         d \in Fds => s.ent[d].want \subseteq s.ent[d].kern,
         e \in Fds => s.ent[e].want \subseteq s.ent[e].kern,
         NEW p, \A x \in Fds : x \in p <=> x \in o /\ x # d /\ x # e,
         NEW ds, \A x \in Fds : Listed(cs, x) /\ x # d /\ x # e => Listed(ds, x),
         NEW u, u = Shut(s, d), NEW t, t = Shut(u, e)
  PROVE  TableOK(t, ds, p, a)
<1>1. Slack(2 * a) /\ Tidy(s, o, 2 * a) /\ server_sock \in Fds
  BY EnoughSlack, ServerFacts DEF TableOK
<1>2. PICK q : q = {x \in Fds : x \in o /\ x # d}
  OBVIOUS
<1>3. Drops(o, q, d) /\ Drops(q, p, e)
  BY <1>2 DEF Drops
<1>4. /\ Tidy(u, q, 2 * a) /\ u.len = s.len
      /\ \A x \in Fds : x # d => u.ent[x] = s.ent[x]
      /\ d \in Fds => u.ent[d].want = {}
  BY <1>1, <1>3, ShutTidy
<1>5. e \in Fds => u.ent[e].want \subseteq u.ent[e].kern
  BY <1>4
<1>6. /\ Tidy(t, p, 2 * a) /\ t.len = u.len
      /\ \A x \in Fds : x # e => t.ent[x] = u.ent[x]
      /\ e \in Fds => t.ent[e].want = {}
  BY <1>1, <1>3, <1>4, <1>5, ShutTidy
<1>7. t.ent[server_sock] = s.ent[server_sock]
  BY <1>1, <1>4, <1>6
<1>8. ASSUME NEW x \in Fds, t.ent[x].want # {} PROVE x = server_sock \/ Listed(ds, x)
  <2>1. x # e
    BY <1>6, <1>8
  <2>2. x # d
    BY <2>1, <1>4, <1>6, <1>8
  <2>3. t.ent[x] = s.ent[x]
    BY <2>1, <2>2, <1>4, <1>6
  <2> QED BY <2>1, <2>2, <2>3, <1>8 DEF TableOK
<1> QED BY <1>4, <1>6, <1>7, <1>8 DEF TableOK

\* A client is accepted as descriptor d, which the server's socket was taken
\* for.  Its connection is the newest of ds.
Accepts(s, cs, ds, o, a, d) ==
  /\ TableOK(s, cs, o, a)
  /\ a < MaxConns
  /\ "r" \notin s.ent[server_sock].can
  /\ d \in Fds /\ d \notin o /\ d # server_sock
  /\ \A x : Listed(cs, x) => Listed(ds, x)
  /\ Listed(ds, d)

LEMMA AfterAccept ==
  ASSUME NEW s, NEW cs, NEW ds, NEW o, NEW a \in 0 .. MaxConns, NEW d,
         Accepts(s, cs, ds, o, a, d),
         NEW t, NEW p, NEW n, Tidy(t, p, n), n \in {2 * a, 2 * a + 1, 2 * a + 1 + 1},
         server_sock < t.len,
         NEW D, server_sock \notin D, \A x \in Fds \ D : t.ent[x] = s.ent[x],
         \A x \in Fds \cap D : t.ent[x].want # {} => Listed(ds, x)
  PROVE  TableOK(t, ds, p, a + 1)
<1>1. /\ a \in Nat /\ a < MaxConns /\ MaxConns \in Nat /\ 2 * (a + 1) = 2 * a + 1 + 1
      /\ server_sock \in Fds
  BY EnoughSlack, ServerFacts DEF Accepts
<1>2. Tidy(t, p, 2 * (a + 1))
  <2>1. n \in Nat /\ 2 * (a + 1) \in Nat /\ n <= 2 * (a + 1)
    BY <1>1
  <2>2. PICK m \in Nat : m = 2 * (a + 1)
    BY <2>1
  <2>3. Tidy(t, p, m)
    BY <2>1, <2>2, MoreDrift
  <2> QED BY <2>2, <2>3
<1>3. t.ent[server_sock] = s.ent[server_sock]
  BY <1>1
<1>4. t.ent[server_sock].want = {"r"} /\ "r" \notin t.ent[server_sock].can
  BY <1>3 DEF Accepts, TableOK
<1>5. \A x \in Fds : t.ent[x].want # {} => x = server_sock \/ Listed(ds, x)
  BY DEF Accepts, TableOK
<1> QED BY <1>2, <1>4, <1>5 DEF TableOK

LEMMA LenAfter ==
  ASSUME NEW d \in Fds
  PROVE  server_sock < d + 1
BY ServerFacts

\* No socket is left for the remote side.
LEMMA RefusedOK ==
  ASSUME NEW s, NEW cs, NEW ds, NEW o, NEW a \in 0 .. MaxConns, NEW d,
         Accepts(s, cs, ds, o, a, d),
         NEW t, t = io_close(s, d)
  PROVE  TableOK(t, ds, o, a + 1)
<1>1. PICK n : n = 2 * a
  OBVIOUS
<1>2. Slack(n) /\ Tidy(s, o, n) /\ d \in Fds /\ server_sock < s.len /\ d # server_sock
  BY <1>1, EnoughSlack DEF Accepts, TableOK
<1>3. Drops(o, o, d)
  BY DEF Drops, Accepts
<1>4. /\ Tidy(t, o, n) /\ t.len = s.len
      /\ \A x \in Fds \ {d} : t.ent[x] = s.ent[x]
  BY <1>2, <1>3, CloseTidy
<1>5. PICK D : D = {d}
  OBVIOUS
<1>6. /\ server_sock \notin D /\ \A x \in Fds \ D : t.ent[x] = s.ent[x]
      /\ \A x \in Fds \cap D : t.ent[x].want # {} => Listed(ds, x)
      /\ n \in {2 * a, 2 * a + 1, 2 * a + 1 + 1} /\ server_sock < t.len
  BY <1>1, <1>2, <1>4, <1>5 DEF Accepts
<1> QED BY <1>4, <1>6, AfterAccept

\* The connect fails: descriptor e stays open.
LEMMA FailedOK ==
  ASSUME NEW s, NEW cs, NEW ds, NEW o, NEW a \in 0 .. MaxConns, NEW d,
         Accepts(s, cs, ds, o, a, d),
         NEW e \in Fds, e \notin o, e # d, e # server_sock, NEW p, Adds(o, p, e),
         NEW nonblock, NEW f, f = io_fd_internal(s, e, nonblock),
         NEW u, u = io_nonblock(f, e), NEW t, t = io_close(u, d)
  PROVE  TableOK(t, ds, p, a + 1)
<1>1. PICK n : n = 2 * a
  OBVIOUS
<1>2. Slack(n) /\ Tidy(s, o, n) /\ d \in Fds /\ d \notin o /\ d # server_sock
  BY <1>1, EnoughSlack DEF Accepts, TableOK
<1>3. /\ Tidy(u, p, n + 1) /\ u.len = e + 1
      /\ \A x \in Fds \ {e} : u.ent[x] = s.ent[x]
      /\ u.ent[e].want = {} /\ u.ent[e].can = {}
  BY <1>2, NewTidy
<1>4. PICK m : m = n + 1
  OBVIOUS
<1>5. Slack(m) /\ Tidy(u, p, m)
  BY <1>1, <1>3, <1>4, EnoughSlack DEF Accepts
<1>6. Drops(p, p, d)
  BY <1>2 DEF Drops, Adds
<1>7. /\ Tidy(t, p, m) /\ t.len = u.len
      /\ \A x \in Fds \ {d} : t.ent[x] = u.ent[x]
  BY <1>2, <1>5, <1>6, CloseTidy
<1>8. PICK D : D = {d, e}
  OBVIOUS
<1>9. /\ server_sock \notin D /\ \A x \in Fds \ D : t.ent[x] = s.ent[x]
      /\ \A x \in Fds \cap D : t.ent[x].want # {} => Listed(ds, x)
  BY <1>2, <1>3, <1>7, <1>8 DEF Accepts
<1>10. m \in {2 * a, 2 * a + 1, 2 * a + 1 + 1} /\ server_sock < t.len
  BY <1>1, <1>3, <1>4, <1>7, LenAfter
<1> QED BY <1>7, <1>9, <1>10, AfterAccept

\* Both sockets are registered.
LEMMA MadeOK ==
  ASSUME NEW s, NEW cs, NEW ds, NEW o, NEW a \in 0 .. MaxConns, NEW d,
         Accepts(s, cs, ds, o, a, d),
         NEW e \in Fds, e \notin o, e # d, e # server_sock, Listed(ds, e),
         NEW p, \A x \in Fds : x \in p <=> x \in o \/ x = d \/ x = e,
         NEW nonblock, NEW f, f = io_fd_internal(s, e, nonblock),
         NEW u, u = io_nonblock(f, e), NEW v, v = io_wantwrite(u, e),
         NEW g, g = io_fd_internal(v, d, nonblock),
         NEW w, w = io_nonblock(g, d), NEW t, t = io_wantread(w, d)
  PROVE  TableOK(t, ds, p, a + 1)
<1>1. PICK n : n = 2 * a
  OBVIOUS
<1>2. PICK q : q = {x \in Fds : x \in o \/ x = e}
  OBVIOUS
<1>3. /\ Slack(n) /\ Tidy(s, o, n) /\ d \in Fds /\ d \notin o /\ d # server_sock
      /\ Adds(o, q, e) /\ Adds(q, p, d) /\ e \in q /\ d \notin q
  BY <1>1, <1>2, EnoughSlack DEF Accepts, TableOK, Adds
<1>4. /\ Tidy(u, q, n + 1)
      /\ \A x \in Fds \ {e} : u.ent[x] = s.ent[x]
  BY <1>3, NewTidy
<1>5. PICK m : m = n + 1
  OBVIOUS
<1>6. Slack(m) /\ Tidy(u, q, m)
  BY <1>1, <1>4, <1>5, EnoughSlack DEF Accepts
<1>7. /\ Tidy(v, q, m)
      /\ \A x \in Fds \ {e} : v.ent[x] = u.ent[x]
  BY <1>3, <1>6, WriteTidy
<1>8. /\ Tidy(w, p, m + 1) /\ w.len = d + 1
      /\ \A x \in Fds \ {d} : w.ent[x] = v.ent[x]
  BY <1>3, <1>6, <1>7, NewTidy
<1>9. PICK k : k = m + 1
  OBVIOUS
<1>10. Slack(k) /\ Tidy(w, p, k)
  BY <1>1, <1>5, <1>8, <1>9, EnoughSlack DEF Accepts
<1>11. /\ Tidy(t, p, k) /\ t.len = w.len
       /\ \A x \in Fds \ {d} : t.ent[x] = w.ent[x]
  <2>1. d \in Fds
    BY <1>3
  <2>2. \A y : y = io_wantread(w, d) =>
          /\ Tidy(y, p, k) /\ y.len = w.len
          /\ \A x \in Fds \ {d} : y.ent[x] = w.ent[x]
    BY SMTT(30), <2>1, <1>10, ReadTidy
  <2> QED BY <2>2
<1>12. PICK D : D = {d, e}
  OBVIOUS
<1>13. /\ server_sock \notin D /\ \A x \in Fds \ D : t.ent[x] = s.ent[x]
       /\ \A x \in Fds \cap D : t.ent[x].want # {} => Listed(ds, x)
  BY <1>3, <1>4, <1>7, <1>8, <1>11, <1>12 DEF Accepts
<1>14. k \in {2 * a, 2 * a + 1, 2 * a + 1 + 1} /\ server_sock < t.len
  BY <1>1, <1>3, <1>5, <1>8, <1>9, <1>11, LenAfter
<1> QED BY <1>11, <1>13, <1>14, AfterAccept

-----------------------------------------------------------------------------
(* Finding a connection.                                                   *)

LEMMA Found ==
  ASSUME conns \in Seq(ConnType), NEW client, NEW proxy,
         NEW i, i = connection_find(client, proxy)
  PROVE  /\ i # 0 => /\ i \in 1 .. Len(conns)
                     /\ Sock(i, "client") = client \/ Sock(i, "proxy") = proxy
         /\ \A j \in 1 .. Len(conns) :
              Sock(j, "client") = client \/ Sock(j, "proxy") = proxy => i # 0 /\ i <= j
<1>1. DOMAIN conns = 1 .. Len(conns) /\ Len(conns) \in Nat
  BY LenProperties
<1>2. PICK M : M = Matching(client, proxy)
  OBVIOUS
<1>3. M \subseteq 1 .. Len(conns) /\ M \subseteq Nat
  BY <1>1, <1>2 DEF Matching
<1>4. i = IF M = {} THEN 0 ELSE Min(M)
  BY <1>2 DEF connection_find
<1>5. \A j : j \in M <=> /\ j \in 1 .. Len(conns)
                         /\ Sock(j, "client") = client \/ Sock(j, "proxy") = proxy
  BY <1>1, <1>2 DEF Matching
<1>6. CASE M = {}
  BY <1>4, <1>5, <1>6
<1>7. CASE M # {}
  <2>1. i \in M /\ \A j \in M : i <= j
    BY <1>3, <1>4, <1>7, MinOf
  <2> QED BY <2>1, <1>3, <1>5
<1> QED BY <1>6, <1>7

\* No connection has -1 for a socket.
LEMMA SocketFound ==
  ASSUME NEW own, NEW a, Lists(conns, own, a), NEW fd \in Fds,
         NEW at, at = socket_find(fd)
  PROVE  /\ at[2] \in Sides
         /\ at[1] # 0 => at[1] \in 1 .. Len(conns) /\ Sock(at[1], at[2]) = fd
         /\ Listed(conns, fd) => at[1] # 0
         /\ \A j \in 1 .. Len(conns) :
              Sock(j, "client") = fd => at[2] = "client" /\ at[1] <= j
<1>1. conns \in Seq(ConnType)
  BY DEF Lists
<1>2. \A j \in 1 .. Len(conns) : Sock(j, "client") # -1 /\ Sock(j, "proxy") # -1
  BY SideFacts DEF Lists, ConnOK, Sock
<1>3. PICK i : i = connection_find(fd, -1)
  OBVIOUS
<1>4. PICK k : k = connection_find(-1, fd)
  OBVIOUS
<1>5. /\ i # 0 => i \in 1 .. Len(conns) /\ Sock(i, "client") = fd
      /\ \A j \in 1 .. Len(conns) : Sock(j, "client") = fd => i # 0 /\ i <= j
  BY <1>1, <1>2, <1>3, Found
<1>6. /\ k # 0 => k \in 1 .. Len(conns) /\ Sock(k, "proxy") = fd
      /\ \A j \in 1 .. Len(conns) : Sock(j, "proxy") = fd => k # 0
  BY <1>1, <1>2, <1>4, Found
<1>7. at = CASE i # 0 -> <<i, "client">>
             [] i = 0 /\ k # 0 -> <<k, "proxy">>
             [] OTHER -> <<0, "client">>
  BY <1>3, <1>4 DEF socket_find
<1>8. at = IF i # 0 THEN <<i, "client">> ELSE IF k # 0 THEN <<k, "proxy">> ELSE <<0, "client">>
  BY <1>7
<1>9. Listed(conns, fd) => i # 0 \/ k # 0
  <2>1. SUFFICES ASSUME NEW j \in 1 .. Len(conns), NEW side \in Sides, Sock(j, side) = fd
                 PROVE  i # 0 \/ k # 0
    BY DEF Listed, Sock
  <2>2. side = "client" \/ side = "proxy"
    BY DEF Sides
  <2> QED BY <2>1, <2>2, <1>5, <1>6
<1> QED BY <1>5, <1>6, <1>8, <1>9, SideFacts

\* A connection shares no socket with a newer one that was made, when it is
\* the newest with one of its sockets.
LEMMA NewestWith ==
  ASSUME NEW own, NEW a, Lists(conns, own, a), NEW fd \in Fds,
         NEW i, i = connection_find(fd, fd), i # 0
  PROVE  /\ i \in 1 .. Len(conns)
         /\ Sock(i, "client") = fd \/ Sock(i, "proxy") = fd
         /\ \A j \in 1 .. Len(conns) : j < i /\ Op(conns[j]) => Disjoint(conns[i], conns[j])
<1>1. conns \in Seq(ConnType) /\ Len(conns) \in Nat
  BY LenProperties DEF Lists
<1>2. /\ i \in 1 .. Len(conns)
      /\ Sock(i, "client") = fd \/ Sock(i, "proxy") = fd
      /\ \A j \in 1 .. Len(conns) : Sock(j, "client") = fd \/ Sock(j, "proxy") = fd => i <= j
  BY <1>1, Found
<1>3. ASSUME NEW j \in 1 .. Len(conns), j < i, Op(conns[j])
      PROVE  Disjoint(conns[i], conns[j])
  <2>1. Sock(j, "client") # fd /\ Sock(j, "proxy") # fd
    <3>1. ~(i <= j)
      BY <1>1, <1>2, <1>3
    <3> QED BY <3>1, <1>2
  <2>2. ConnOK(conns[i], own, a) /\ ConnOK(conns[j], own, a)
    BY <1>2 DEF Lists
  <2>3. CASE Op(conns[i])
    <3>1. Disjoint(conns[j], conns[i])
      BY <2>3, <1>2, <1>3 DEF Lists
    <3> QED BY <3>1 DEF Disjoint
  <2>4. CASE ~Op(conns[i])
    <3>1. Sock(i, "proxy") \notin Fds /\ Sock(i, "client") = fd
      BY <2>2, <2>4, <1>2 DEF ConnOK, Sock
    <3>2. \A y \in Sides : Sock(j, y) \in Fds /\ Sock(j, y) # fd
      BY <2>1, <2>2, <1>3 DEF ConnOK, Sock, Sides
    <3> QED BY <3>1, <3>2 DEF Disjoint, Sock, Sides
  <2> QED BY <2>3, <2>4
<1> QED BY <1>2, <1>3

-----------------------------------------------------------------------------
(* Units of the end e in the order they were sent, m of which were.        *)

Good(q, e, m) ==
  /\ q \in Seq(Units)
  /\ \A k \in 1 .. Len(q) : q[k][1] = e /\ q[k][2] <= m
  /\ \A k \in 1 .. Len(q) : k > 1 => q[k - 1][2] < q[k][2]

LEMMA GoodPart ==
  ASSUME NEW x \in Seq(Units), NEW y \in Seq(Units), NEW e, NEW m, Good(x \o y, e, m),
         NEW n \in 0 .. Len(y), NEW z, z = SubSeq(y, 1, n)
  PROVE  z \in Seq(Units) /\ Good(x \o z, e, m)
<1>1. /\ Len(x) \in Nat /\ Len(y) \in Nat /\ n \in Nat /\ n \in Int /\ 1 \in Int
      /\ \A i \in 1 .. n : y[i] \in Units
  BY LenProperties, ElementOfSeq
<1>2. /\ z \in Seq(Units) /\ Len(z) = n
      /\ \A i \in 1 .. n : z[i] = y[i]
  <2>1. /\ SubSeq(y, 1, n) \in Seq(Units)
        /\ Len(SubSeq(y, 1, n)) = IF 1 <= n THEN n - 1 + 1 ELSE 0
        /\ \A i \in 1 .. n - 1 + 1 : SubSeq(y, 1, n)[i] = y[1 + i - 1]
    BY <1>1, SubSeqProperties
  <2>2. n - 1 + 1 = n /\ \A i \in 1 .. n : 1 + i - 1 = i
    BY <1>1
  <2> QED BY <2>1, <2>2, <1>1
<1>3. /\ x \o y \in Seq(Units) /\ Len(x \o y) = Len(x) + Len(y)
      /\ \A i \in 1 .. Len(x) + Len(y) : (x \o y)[i] = IF i <= Len(x) THEN x[i] ELSE y[i - Len(x)]
  BY ConcatProperties
<1>4. /\ x \o z \in Seq(Units) /\ Len(x \o z) = Len(x) + n
      /\ \A i \in 1 .. Len(x) + n : (x \o z)[i] = IF i <= Len(x) THEN x[i] ELSE z[i - Len(x)]
  <2>1. z \in Seq(Units) /\ Len(z) = n
    BY <1>2
  <2>2. /\ x \o z \in Seq(Units) /\ Len(x \o z) = Len(x) + Len(z)
        /\ \A i \in 1 .. Len(x) + Len(z) :
             (x \o z)[i] = IF i <= Len(x) THEN x[i] ELSE z[i - Len(x)]
    BY <2>1, ConcatProperties
  <2> QED BY <2>1, <2>2
<1>5. ASSUME NEW i \in 1 .. Len(x \o z)
      PROVE  i \in 1 .. Len(x \o y) /\ (x \o z)[i] = (x \o y)[i]
  <2>1. i \in 1 .. Len(x) + n /\ i \in 1 .. Len(x) + Len(y)
    BY <1>1, <1>4
  <2>2. ~(i <= Len(x)) => i - Len(x) \in 1 .. n
    BY <2>1, <1>1
  <2> QED BY <2>1, <2>2, <1>2, <1>3, <1>4
<1>6. PICK p : p = x \o z
  OBVIOUS
<1>7. PICK q : q = x \o y
  OBVIOUS
<1>8. Good(q, e, m) /\ p \in Seq(Units) /\ Len(p) \in Nat
      /\ \A i \in 1 .. Len(p) : i \in 1 .. Len(q) /\ p[i] = q[i]
  BY <1>1, <1>4, <1>5, <1>6, <1>7
<1>9. \A k \in 1 .. Len(p) : k > 1 => k - 1 \in 1 .. Len(p)
  BY <1>8
<1>10. Good(p, e, m)
  BY <1>8, <1>9 DEF Good
<1> QED BY <1>2, <1>6, <1>10

\* The next n units of e.
Fresh(e, m, n) == [k \in 1 .. n |-> <<e, m + k>>]

LEMMA GoodMore ==
  ASSUME NEW q, NEW e \in Ends, NEW m \in Nat, Good(q, e, m), NEW n \in Nat,
         NEW u, u = Fresh(e, m, n)
  PROVE  u \in Seq(Units) /\ Len(u) = n /\ Good(q \o u, e, m + n)
<1>1. u \in Seq(Units) /\ Len(u) = n /\ \A k \in 1 .. n : u[k] = <<e, m + k>>
  BY DEF Fresh, Units
<1>2. /\ q \in Seq(Units) /\ Len(q) \in Nat /\ \A k \in 1 .. Len(q) : q[k] \in Units
  BY LenProperties, ElementOfSeq DEF Good
<1>3. /\ q \o u \in Seq(Units) /\ Len(q \o u) = Len(q) + n
      /\ \A i \in 1 .. Len(q) + n : (q \o u)[i] = IF i <= Len(q) THEN q[i] ELSE u[i - Len(q)]
  <2>1. u \in Seq(Units) /\ Len(u) = n /\ q \in Seq(Units)
    BY <1>1, <1>2
  <2>2. /\ q \o u \in Seq(Units) /\ Len(q \o u) = Len(q) + Len(u)
        /\ \A i \in 1 .. Len(q) + Len(u) :
             (q \o u)[i] = IF i <= Len(q) THEN q[i] ELSE u[i - Len(q)]
    BY <2>1, ConcatProperties
  <2> QED BY <2>1, <2>2
<1>4. PICK p : p = q \o u
  OBVIOUS
<1>5. ASSUME NEW i \in 1 .. Len(p)
      PROVE  /\ i <= Len(q) => i \in 1 .. Len(q) /\ p[i] = q[i]
             /\ ~(i <= Len(q)) => i - Len(q) \in 1 .. n /\ p[i] = <<e, m + (i - Len(q))>>
  <2>1. i \in 1 .. Len(q) + n
    BY <1>3, <1>4
  <2>2. ~(i <= Len(q)) => i - Len(q) \in 1 .. n
    BY <2>1, <1>2
  <2> QED BY <2>1, <2>2, <1>1, <1>3, <1>4
<1>6. \A k \in 1 .. Len(q) : q[k][1] = e /\ q[k][2] <= m /\ q[k][2] \in Nat
  BY <1>2 DEF Good, Units
<1>7. ASSUME NEW i \in 1 .. Len(p) PROVE p[i][1] = e /\ p[i][2] <= m + n
  BY <1>5, <1>6, <1>2
<1>8. ASSUME NEW i \in 1 .. Len(p), i > 1 PROVE p[i - 1][2] < p[i][2]
  <2>1. i - 1 \in 1 .. Len(p) /\ i \in Nat
    BY <1>8, <1>2, <1>3, <1>4
  <2>2. CASE i <= Len(q)
    <3>1. i \in 1 .. Len(q) /\ p[i] = q[i] /\ i - 1 <= Len(q)
      BY <2>1, <2>2, <1>2, <1>5
    <3>2. p[i - 1] = q[i - 1]
      BY <3>1, <2>1, <1>5
    <3> QED BY <3>1, <3>2, <1>8 DEF Good
  <2>3. CASE ~(i <= Len(q)) /\ i - 1 <= Len(q)
    <3>1. p[i] = <<e, m + (i - Len(q))>> /\ i - Len(q) \in 1 .. n
      BY <2>3, <1>5
    <3>2. i - 1 \in 1 .. Len(q) /\ p[i - 1] = q[i - 1]
      BY <2>1, <2>3, <1>5
    <3>3. q[i - 1][2] <= m /\ q[i - 1][2] \in Nat
      BY <3>2, <1>6
    <3>4. p[i][2] = m + (i - Len(q))
      BY <3>1
    <3>5. m + (i - Len(q)) > m
      BY <3>1
    <3> QED BY <3>2, <3>3, <3>4, <3>5, <3>1, <1>2, <2>1
  <2>4. CASE ~(i - 1 <= Len(q))
    <3>1. ~(i <= Len(q))
      BY <2>1, <2>4, <1>2
    <3>2. p[i] = <<e, m + (i - Len(q))>>
      BY <3>1, <1>5
    <3>3. PICK j \in 1 .. Len(p) : j = i - 1
      BY <2>1
    <3>4. p[j] = <<e, m + (j - Len(q))>>
      BY <3>3, <2>4, <1>5
    <3>5. m + (j - Len(q)) < m + (i - Len(q))
      BY <3>3, <2>1, <1>2
    <3> QED BY <3>2, <3>3, <3>4, <3>5
  <2> QED BY <2>2, <2>3, <2>4
<1>9. Good(p, e, m + n)
  BY <1>3, <1>4, <1>7, <1>8 DEF Good
<1> QED BY <1>1, <1>4, <1>9

-----------------------------------------------------------------------------
(* What is sent.  Data: what was sent to an end sd, followed by what waits *)
(* in its buffer, is what was received from the other end, rc units.       *)

PeerOf(e) == <<e[1], Peer(e[2])>>

Waits(c, side, sd, rc) ==
  Good(sd[<<c.id, side>>] \o c.sb[side].buf, <<c.id, Peer(side)>>, rc[<<c.id, Peer(side)>>])

Data(cs, sd, rc) ==
  /\ sd \in [Ends -> Seq(Units)] /\ rc \in [Ends -> Nat]
  /\ \A e \in Ends : Good(sd[e], PeerOf(e), rc[PeerOf(e)])
  /\ \A i \in 1 .. Len(cs), side \in Sides : Op(cs[i]) => Waits(cs[i], side, sd, rc)

LEMMA EndFacts ==
  /\ \A e \in Ends : PeerOf(e) \in Ends /\ e # Nobody
  /\ \A n \in 1 .. MaxConns, side \in Sides :
       <<n, side>> \in Ends /\ PeerOf(<<n, side>>) = <<n, Peer(side)>>
BY SideFacts, TinyProxyAssumption DEF Ends, PeerOf, Nobody

LEMMA GoodLater ==
  ASSUME NEW q, NEW e, NEW m \in Nat, NEW n \in Nat, m <= n, Good(q, e, m)
  PROVE  Good(q, e, n)
<1>1. \A k \in 1 .. Len(q) : q[k][2] \in Nat
  BY ElementOfSeq DEF Good, Units
<1> QED BY <1>1 DEF Good

\* A buffer is as it was, or empty.
Kept(c, side, cs) ==
  \/ c.sb[side].buf = <<>>
  \/ \E j \in 1 .. Len(cs) : /\ Op(cs[j]) /\ cs[j].id = c.id
                             /\ cs[j].sb[side].buf = c.sb[side].buf

LEMMA DataStep ==
  ASSUME NEW cs, NEW ds, NEW sd, NEW sd2 \in [Ends -> Seq(Units)],
         NEW rc, NEW rc2 \in [Ends -> Nat], Data(cs, sd, rc),
         \A e \in Ends : rc[e] <= rc2[e],
         \A e \in Ends : sd2[e] # sd[e] => Good(sd2[e], PeerOf(e), rc2[PeerOf(e)]),
         \A k \in 1 .. Len(ds) : ds[k].id \in 1 .. MaxConns,
         \A k \in 1 .. Len(ds), side \in Sides : Op(ds[k]) =>
           \/ Waits(ds[k], side, sd2, rc2)
           \/ sd2[<<ds[k].id, side>>] = sd[<<ds[k].id, side>>] /\ Kept(ds[k], side, cs)
  PROVE  Data(ds, sd2, rc2)
<1>1. sd \in [Ends -> Seq(Units)] /\ rc \in [Ends -> Nat]
  BY DEF Data
<1>2. ASSUME NEW e \in Ends PROVE Good(sd2[e], PeerOf(e), rc2[PeerOf(e)])
  <2>1. PICK f \in Ends : f = PeerOf(e)
    BY EndFacts
  <2>2. rc[f] \in Nat /\ rc2[f] \in Nat /\ rc[f] <= rc2[f] /\ Good(sd[e], f, rc[f])
    BY <2>1, <1>1 DEF Data
  <2>3. Good(sd[e], f, rc2[f])
    BY <2>2, GoodLater
  <2> QED BY <2>1, <2>3
<1>3. ASSUME NEW k \in 1 .. Len(ds), NEW side \in Sides, Op(ds[k])
      PROVE  Waits(ds[k], side, sd2, rc2)
  <2>1. SUFFICES ASSUME sd2[<<ds[k].id, side>>] = sd[<<ds[k].id, side>>],
                        Kept(ds[k], side, cs)
                 PROVE  Waits(ds[k], side, sd2, rc2)
    BY <1>3
  <2>2. PICK e : e = <<ds[k].id, side>>
    OBVIOUS
  <2>3. PICK f : f = <<ds[k].id, Peer(side)>>
    OBVIOUS
  <2>4. e \in Ends /\ f \in Ends /\ f = PeerOf(e)
    BY <2>2, <2>3, EndFacts, SideFacts
  <2>5. sd2[e] = sd[e] /\ sd[e] \in Seq(Units)
    BY <2>1, <2>2, <2>4, <1>1
  <2>6. CASE ds[k].sb[side].buf = <<>>
    <3>1. sd2[e] \o <<>> = sd2[e]
      BY <2>5, ConcatEmptySeq
    <3>2. Good(sd2[e], f, rc2[f])
      BY <2>4, <1>2
    <3> QED BY <3>1, <3>2, <2>2, <2>3, <2>6 DEF Waits
  <2>7. ASSUME NEW j \in 1 .. Len(cs), Op(cs[j]), cs[j].id = ds[k].id,
               cs[j].sb[side].buf = ds[k].sb[side].buf
        PROVE  Waits(ds[k], side, sd2, rc2)
    <3>1. Waits(cs[j], side, sd, rc)
      BY <2>7 DEF Data
    <3>2. Good(sd[e] \o ds[k].sb[side].buf, f, rc[f])
      BY <3>1, <2>2, <2>3, <2>7 DEF Waits
    <3>3. rc[f] \in Nat /\ rc2[f] \in Nat /\ rc[f] <= rc2[f]
      BY <2>4, <1>1
    <3>4. Good(sd[e] \o ds[k].sb[side].buf, f, rc2[f])
      BY <3>2, <3>3, GoodLater
    <3> QED BY <3>4, <2>2, <2>3, <2>5 DEF Waits
  <2> QED BY <2>1, <2>6, <2>7 DEF Kept
<1> QED BY <1>2, <1>3 DEF Data

\* No buffer is filled.
AllKept(ds, cs) ==
  /\ \A k \in 1 .. Len(ds) : ds[k].id \in 1 .. MaxConns
  /\ \A k \in 1 .. Len(ds), side \in Sides : Op(ds[k]) => Kept(ds[k], side, cs)

LEMMA DataKept ==
  ASSUME NEW cs, NEW ds, NEW sd, NEW rc, Data(cs, sd, rc), AllKept(ds, cs)
  PROVE  Data(ds, sd, rc)
<1>1. sd \in [Ends -> Seq(Units)] /\ rc \in [Ends -> Nat] /\ \A e \in Ends : rc[e] <= rc[e]
  BY DEF Data
<1>2. /\ \A k \in 1 .. Len(ds) : ds[k].id \in 1 .. MaxConns
      /\ \A k \in 1 .. Len(ds), side \in Sides : Op(ds[k]) => Kept(ds[k], side, cs)
  BY DEF AllKept
<1> QED BY <1>1, <1>2, DataStep

\* Nothing is sent to a number that is no descriptor, nor if there is nothing.
LEMMA TransferNone ==
  ASSUME NEW to \in [Ends -> Seq(Units)], NEW fd, NEW units, fd \notin Fds \/ units = <<>>,
         NEW t \in Transfers(to, fd, units)
  PROVE  t.sent = to
<1>1. CASE fd \notin open \/ owner[fd] \notin Ends
  <2>1. Transfers(to, fd, units) = {[sent |-> to, ok |-> units = <<>>]}
    BY <1>1, Zenon DEF Transfers
  <2>2. t = [sent |-> to, ok |-> units = <<>>]
    BY <2>1, Zenon
  <2> QED BY <2>2
<1>2. CASE fd \in open /\ owner[fd] \in Ends
  <2>1. fd \in Fds /\ units = <<>>
    BY <1>2 DEF open
  <2>2. PICK e \in Ends : e = owner[fd]
    BY <1>2
  <2>3. PICK n \in 0 .. Len(units) :
          t = [sent |-> [to EXCEPT ![e] = @ \o SubSeq(units, 1, n)], ok |-> n = Len(units)]
    BY <1>2, <2>2 DEF Transfers
  <2>4. Len(units) = 0 /\ n = 0
    BY <2>1, EmptySeq
  <2>5. SubSeq(units, 1, n) = <<>>
    BY <2>4, SubSeqEmpty
  <2>6. to[e] \o <<>> = to[e]
    <3>1. to[e] \in Seq(Units)
      OBVIOUS
    <3> QED BY <3>1, ConcatEmptySeq
  <2> QED BY <2>3, <2>5, <2>6
<1> QED BY <1>1, <1>2

\* Some are sent to e, whose descriptor it is.
SentSome(t, to, e, units) ==
  \E n \in 0 .. Len(units) :
    /\ t.sent \in [Ends -> Seq(Units)]
    /\ t.sent[e] = to[e] \o SubSeq(units, 1, n)
    /\ \A x \in Ends \ {e} : t.sent[x] = to[x]
    /\ t.ok => n = Len(units)

LEMMA TransferTo ==
  ASSUME NEW to \in [Ends -> Seq(Units)], NEW fd \in Fds, NEW e \in Ends, owner[fd] = e,
         NEW units \in Seq(Units), NEW t \in Transfers(to, fd, units)
  PROVE  SentSome(t, to, e, units)
<1>1. fd \in open /\ owner[fd] \in Ends
  BY EndFacts DEF open
<1>2. PICK n \in 0 .. Len(units) :
        t = [sent |-> [to EXCEPT ![e] = @ \o SubSeq(units, 1, n)], ok |-> n = Len(units)]
  BY <1>1 DEF Transfers
<1>3. Len(units) \in Nat /\ \A i \in 1 .. n : units[i] \in Units
  BY LenProperties, ElementOfSeq
<1>4. PICK z : z = SubSeq(units, 1, n)
  OBVIOUS
<1>5. z \in Seq(Units)
  BY <1>3, <1>4, SubSeqProperties
<1>6. PICK y : y = to[e] \o z
  OBVIOUS
<1>7. y \in Seq(Units)
  <2>1. to[e] \in Seq(Units)
    OBVIOUS
  <2> QED BY <2>1, <1>5, <1>6, ConcatProperties
<1>8. t.sent = [to EXCEPT ![e] = y] /\ (t.ok => n = Len(units))
  BY <1>2, <1>4, <1>6
<1>9. t.sent \in [Ends -> Seq(Units)] /\ t.sent[e] = y /\ \A x \in Ends \ {e} : t.sent[x] = to[x]
  BY <1>7, <1>8
<1> QED BY <1>4, <1>6, <1>8, <1>9 DEF SentSome

SentGood(t, to, e, units, p, m) ==
  /\ t.sent \in [Ends -> Seq(Units)]
  /\ Good(t.sent[e], p, m)
  /\ \A x \in Ends \ {e} : t.sent[x] = to[x]
  /\ t.ok => t.sent[e] = to[e] \o units

LEMMA TransferGood ==
  ASSUME NEW to \in [Ends -> Seq(Units)], NEW fd \in Fds, NEW e \in Ends, owner[fd] = e,
         NEW units \in Seq(Units), NEW p, NEW m, Good(to[e] \o units, p, m),
         NEW t \in Transfers(to, fd, units)
  PROVE  SentGood(t, to, e, units, p, m)
<1>5. SentSome(t, to, e, units)
  BY TransferTo
<1>1. PICK n \in 0 .. Len(units) :
           /\ t.sent \in [Ends -> Seq(Units)]
           /\ t.sent[e] = to[e] \o SubSeq(units, 1, n)
           /\ \A x \in Ends \ {e} : t.sent[x] = to[x]
           /\ t.ok => n = Len(units)
  BY <1>5, Zenon DEF SentSome
<1>2. PICK q \in Seq(Units) : q = to[e]
  OBVIOUS
<1>3. Good(q \o SubSeq(units, 1, n), p, m)
  BY <1>2, GoodPart
<1>4. n = Len(units) => SubSeq(units, 1, n) = units
  BY SubSeqFull
<1> QED BY <1>1, <1>2, <1>3, <1>4 DEF SentGood

PutGood(r, to, e, p, m) ==
  /\ r.sent \in [Ends -> Seq(Units)] /\ r.buf \in Seq(Units)
  /\ \A x \in Ends \ {e} : r.sent[x] = to[x]
  /\ Good(r.sent[e] \o r.buf, p, m)
  /\ Good(r.sent[e], p, m)

\* buffer_put keeps the order, for the buffer sb of the end e.
LEMMA PutsGood ==
  ASSUME NEW to \in [Ends -> Seq(Units)], NEW sb \in SockbufType, NEW e \in Ends,
         sb.sock \in Fds, owner[sb.sock] = e,
         NEW units \in Seq(Units), NEW p, NEW m, Good((to[e] \o sb.buf) \o units, p, m),
         NEW r \in Puts(to, sb, units)
  PROVE  PutGood(r, to, e, p, m)
<1>1. PICK a \in Seq(Units) : a = to[e]
  OBVIOUS
<1>2. PICK b \in Seq(Units) : b = sb.buf
  BY DEF SockbufType
<1>3. PICK fd \in Fds : fd = sb.sock
  OBVIOUS
<1>4. owner[fd] = e /\ Good((a \o b) \o units, p, m)
  BY <1>1, <1>2, <1>3
<1>5. a \o b \in Seq(Units) /\ b \o units \in Seq(Units) /\ <<>> \in Seq(Units)
      /\ (a \o b) \o units = a \o (b \o units)
  BY ConcatProperties, ConcatAssociative, EmptySeq
<1>6. \A y \in Seq(Units) : y \o <<>> = y
  BY ConcatEmptySeq
<1>7. Good(a, p, m) /\ Good(a \o b, p, m)
  <2>1. PICK q \in Seq(Units) : q = b \o units
    BY <1>5
  <2>2. Good(a \o q, p, m)
    BY <2>1, <1>4, <1>5
  <2>3. 0 \in 0 .. Len(q) /\ 0 \in 0 .. Len(units)
    BY LenProperties
  <2>4. Good(a \o SubSeq(q, 1, 0), p, m)
    BY <2>2, <2>3, GoodPart
  <2>5. PICK w \in Seq(Units) : w = a \o b
    BY <1>5
  <2>6. Good(w \o units, p, m)
    BY <2>5, <1>4
  <2>7. Good(w \o SubSeq(units, 1, 0), p, m)
    BY <2>3, <2>6, GoodPart
  <2>8. SubSeq(q, 1, 0) = <<>> /\ SubSeq(units, 1, 0) = <<>>
    BY SubSeqEmpty
  <2>9. a \o <<>> = a /\ w \o <<>> = w
    BY <1>6
  <2> QED BY <2>4, <2>5, <2>7, <2>8, <2>9
<1>8. \A f \in Transfers(to, fd, b) :
        /\ f.sent \in [Ends -> Seq(Units)]
        /\ Good(f.sent[e], p, m)
        /\ \A x \in Ends \ {e} : f.sent[x] = to[x]
        /\ f.ok => f.sent[e] = a \o b
  <2>1. Good(to[e] \o b, p, m)
    BY <1>1, <1>7
  <2>2. \A f \in Transfers(to, fd, b) : SentGood(f, to, e, b, p, m)
    BY <2>1, <1>4, TransferGood
  <2> QED BY <2>2, <1>1 DEF SentGood
<1>9. CASE Len(units) <= Room - Len(b)
  <2>1. r = [buf |-> b \o units, sent |-> to]
    BY <1>2, <1>9 DEF Puts
  <2>2. r.buf = b \o units /\ r.sent = to
    BY <2>1
  <2> QED BY <2>2, <1>1, <1>4, <1>5, <1>7 DEF PutGood
<1>10. CASE ~(Len(units) <= Room - Len(b))
  <2>1. PICK f \in Transfers(to, fd, b) :
          r \in IF ~f.ok THEN {[buf |-> <<>>, sent |-> f.sent]}
                ELSE IF Len(units) <= Room THEN {[buf |-> units, sent |-> f.sent]}
                ELSE {[buf |-> <<>>, sent |-> g.sent] : g \in Transfers(f.sent, fd, units)}
    BY <1>2, <1>3, <1>10, Zenon DEF Puts
  <2>2. /\ f.sent \in [Ends -> Seq(Units)]
        /\ Good(f.sent[e], p, m)
        /\ \A x \in Ends \ {e} : f.sent[x] = to[x]
        /\ f.ok => f.sent[e] = a \o b
    BY <1>8
  <2>3. CASE ~f.ok
    <3>1. r = [buf |-> <<>>, sent |-> f.sent]
      BY <2>1, <2>3, Zenon
    <3>2. r.buf = <<>> /\ r.sent = f.sent
      BY <3>1
    <3>3. f.sent[e] \in Seq(Units)
      BY <2>2
    <3> QED BY <3>2, <3>3, <2>2, <1>5, <1>6 DEF PutGood
  <2>4. CASE f.ok /\ Len(units) <= Room
    <3>1. r = [buf |-> units, sent |-> f.sent]
      BY <2>1, <2>4, Zenon
    <3>2. r.buf = units /\ r.sent = f.sent
      BY <3>1
    <3> QED BY <3>2, <2>2, <2>4, <1>4 DEF PutGood
  <2>5. CASE f.ok /\ ~(Len(units) <= Room)
    <3>1. PICK g \in Transfers(f.sent, fd, units) : r = [buf |-> <<>>, sent |-> g.sent]
      BY <2>1, <2>5, Zenon
    <3>2. PICK h \in [Ends -> Seq(Units)] : h = f.sent
      BY <2>2
    <3>3. g \in Transfers(h, fd, units) /\ h[e] = a \o b
      BY <3>1, <3>2, <2>2, <2>5
    <3>4. Good(h[e] \o units, p, m)
      BY <3>3, <1>4
    <3>8. SentGood(g, h, e, units, p, m)
      BY <3>3, <3>4, <1>4, TransferGood
    <3>5. /\ g.sent \in [Ends -> Seq(Units)]
          /\ Good(g.sent[e], p, m)
          /\ \A x \in Ends \ {e} : g.sent[x] = h[x]
      BY <3>8 DEF SentGood
    <3>6. r.buf = <<>> /\ r.sent = g.sent
      BY <3>1
    <3>7. g.sent[e] \in Seq(Units)
      BY <3>5
    <3> QED BY <3>2, <3>5, <3>6, <3>7, <2>2, <1>5, <1>6 DEF PutGood
  <2> QED BY <2>3, <2>4, <2>5
<1> QED BY <1>9, <1>10

\* Without a socket nothing is sent.
LEMMA PutsNone ==
  ASSUME NEW to \in [Ends -> Seq(Units)], NEW sb \in SockbufType, sb.sock \notin Fds,
         NEW units \in Seq(Units), NEW r \in Puts(to, sb, units)
  PROVE  r.sent = to /\ r.buf \in Seq(Units)
<1>1. PICK b \in Seq(Units) : b = sb.buf
  BY DEF SockbufType
<1>2. PICK fd : fd = sb.sock /\ fd \notin Fds
  OBVIOUS
<1>3. b \o units \in Seq(Units) /\ <<>> \in Seq(Units)
  BY ConcatProperties, EmptySeq
<1>4. CASE Len(units) <= Room - Len(b)
  <2>1. r = [buf |-> b \o units, sent |-> to]
    BY <1>1, <1>4 DEF Puts
  <2> QED BY <2>1, <1>3
<1>5. CASE ~(Len(units) <= Room - Len(b))
  <2>1. PICK f \in Transfers(to, fd, b) :
          r \in IF ~f.ok THEN {[buf |-> <<>>, sent |-> f.sent]}
                ELSE IF Len(units) <= Room THEN {[buf |-> units, sent |-> f.sent]}
                ELSE {[buf |-> <<>>, sent |-> g.sent] : g \in Transfers(f.sent, fd, units)}
    BY <1>1, <1>2, <1>5, Zenon DEF Puts
  <2>2. f.sent = to
    BY <2>1, <1>2, TransferNone
  <2>3. \A g \in Transfers(f.sent, fd, units) : g.sent = to
    BY <2>2, <1>2, TransferNone
  <2>4. \/ r = [buf |-> <<>>, sent |-> f.sent]
        \/ r = [buf |-> units, sent |-> f.sent]
        \/ \E g \in Transfers(f.sent, fd, units) : r = [buf |-> <<>>, sent |-> g.sent]
    BY <2>1, Zenon
  <2>5. CASE r = [buf |-> <<>>, sent |-> f.sent]
    BY <2>2, <2>5, <1>3
  <2>6. CASE r = [buf |-> units, sent |-> f.sent]
    BY <2>2, <2>6
  <2>7. ASSUME NEW g \in Transfers(f.sent, fd, units), r = [buf |-> <<>>, sent |-> g.sent]
        PROVE  r.sent = to /\ r.buf \in Seq(Units)
    <3>1. g.sent = to /\ r.sent = g.sent /\ r.buf = <<>>
      BY <2>3, <2>7
    <3> QED BY <3>1, <1>3
  <2> QED BY <2>4, <2>5, <2>6, <2>7
<1> QED BY <1>4, <1>5

-----------------------------------------------------------------------------
(* The inductive invariant.                                                *)

Owners == Ends \cup {Server, Nobody, Failed}

\* While the program runs, a connection that was not made has empty buffers.
EmptyBufs(cs) ==
  \A i \in 1 .. Len(cs), side \in Sides : ~Op(cs[i]) => cs[i].sb[side].buf = <<>>

Inv ==
  /\ TypeOK
  /\ Lists(conns, owner, accepted)
  /\ Owned(conns, owner)
  /\ owner[server_sock] = Server
  /\ TableOK(io, conns, open, accepted)
  /\ pc # "crash" => EmptyBufs(conns)
  /\ pc # "no such fd"
  /\ Data(conns, sent, rcvd)

LEMMA InvFacts ==
  ASSUME Inv
  PROVE  /\ conns \in Seq(ConnType) /\ Len(conns) \in Nat /\ DOMAIN conns = 1 .. Len(conns)
         /\ accepted \in 0 .. MaxConns
         /\ \A i \in 1 .. Len(conns) : /\ conns[i] \in ConnType /\ conns[i].id \in 1 .. MaxConns
                                       /\ ConnOK(conns[i], owner, accepted)
         /\ ~Listed(conns, server_sock)
         /\ \A i \in 1 .. Len(conns), side \in Sides :
              Op(conns[i]) => /\ conns[i].sb[side].sock \in open
                              /\ conns[i].sb[side].sock \in Fds
                              /\ owner[conns[i].sb[side].sock] = <<conns[i].id, side>>
                              /\ <<conns[i].id, side>> \in Ends
<1>1. Lists(conns, owner, accepted) /\ accepted \in 0 .. MaxConns
  BY DEF Inv, TypeOK
<1>2. conns \in Seq(ConnType) /\ Len(conns) \in Nat /\ DOMAIN conns = 1 .. Len(conns)
  BY <1>1, LenProperties DEF Lists
<1>3. ASSUME NEW i \in 1 .. Len(conns)
      PROVE  /\ conns[i] \in ConnType /\ conns[i].id \in 1 .. MaxConns
             /\ ConnOK(conns[i], owner, accepted)
  <2>1. conns[i] \in ConnType
    BY <1>2, ElementOfSeq
  <2>2. ConnOK(conns[i], owner, accepted) /\ MaxConns \in Nat
    BY <1>1, EnoughSlack DEF Lists
  <2>3. conns[i].id \in 1 .. accepted
    BY <2>2 DEF ConnOK
  <2> QED BY <2>1, <2>2, <2>3, <1>1
<1>4. ~Listed(conns, server_sock)
  BY <1>3 DEF Listed, ConnOK
<1>5. ASSUME NEW i \in 1 .. Len(conns), NEW side \in Sides, Op(conns[i])
      PROVE  /\ conns[i].sb[side].sock \in open
             /\ conns[i].sb[side].sock \in Fds
             /\ owner[conns[i].sb[side].sock] = <<conns[i].id, side>>
             /\ <<conns[i].id, side>> \in Ends
  <2>1. /\ conns[i].sb[side].sock \in Fds
        /\ owner[conns[i].sb[side].sock] = <<conns[i].id, side>>
    BY <1>3, <1>5 DEF ConnOK
  <2>2. <<conns[i].id, side>> \in Ends /\ <<conns[i].id, side>> # Nobody
    BY <1>3, EndFacts
  <2> QED BY <2>1, <2>2 DEF open
<1> QED BY <1>1, <1>2, <1>3, <1>4, <1>5

\* How the invariant holds after a step.
LEMMA InvAfter ==
  ASSUME Inv,
         pc' \in {"check", "write", "read", "accept error", "crash"} \/ pc' = pc,
         hungup' \subseteq Ends, accepted' \in 0 .. MaxConns, owner' \in [Fds -> Owners],
         Lists(conns', owner', accepted'), Owned(conns', owner'),
         owner'[server_sock] = Server, TableOK(io', conns', open', accepted'),
         pc' # "crash" => EmptyBufs(conns'),
         Data(conns', sent', rcvd')
  PROVE  Inv'
<1>1. io' \in TableType
  BY DEF TableOK, Tidy
<1>2. TypeOK' /\ pc' # "no such fd"
  BY <1>1 DEF Inv, TypeOK, Owners
<1> QED BY <1>2 DEF Inv

\* Only the table changes.
LEMMA InvTable ==
  ASSUME Inv, UNCHANGED <<conns, owner, rcvd, sent, accepted>>, hungup' \subseteq Ends,
         (pc' \in {"check", "write", "read"} /\ pc # "crash") \/ pc' = pc,
         TableOK(io', conns, open, accepted)
  PROVE  Inv'
<1>1. open' = open
  BY DEF open
<1>2. owner \in [Fds -> Owners] /\ accepted \in 0 .. MaxConns
  BY DEF Inv, TypeOK, Owners
<1>3. Lists(conns', owner', accepted') /\ Owned(conns', owner')
  BY DEF Inv
<1>4. TableOK(io', conns', open', accepted')
  BY <1>1
<1>5. Data(conns', sent', rcvd')
  BY DEF Inv
<1>6. pc' # "crash" => EmptyBufs(conns')
  BY DEF Inv
<1>7. owner' \in [Fds -> Owners] /\ accepted' \in 0 .. MaxConns /\ owner'[server_sock] = Server
  BY <1>2 DEF Inv
<1>8. pc' \in {"check", "write", "read", "accept error", "crash"} \/ pc' = pc
  OBVIOUS
<1> QED BY <1>3, <1>4, <1>5, <1>6, <1>7, <1>8, InvAfter, Zenon

LEMMA RoundStep == ASSUME Inv, Round PROVE Inv'
<1>1. PICK rev \in Findings(Checked) :
        (accepted = MaxConns => rev[server_sock] = {}) /\ io' = io_waituntil2(Checked, rev)
  BY DEF Round
<1>2. pc = "check" /\ pc' = "write" /\ UNCHANGED <<conns, owner, hungup, rcvd, sent, accepted>>
  BY DEF Round
<1>3. \A i \in 1 .. Len(conns), side \in Sides :
        conns[i].sb[side].buf # <<>> => conns[i].sb[side].sock \in open
  BY <1>2, InvFacts DEF Inv, EmptyBufs
<1>4. TableOK(io, conns, open, accepted)
  BY DEF Inv
<1>5. TableOK(io', conns, open, accepted)
  BY <1>1, <1>3, <1>4, InvFacts, RoundOK
<1>6. hungup' \subseteq Ends
  BY <1>2 DEF Inv, TypeOK
<1> QED BY <1>2, <1>5, <1>6, InvTable

LEMMA NoneStep == ASSUME Inv, NoneToWrite \/ NoneToRead PROVE Inv'
<1>1. PICK dir \in Dirs : io' = Next_ready(io, dir).s
  BY DEF NoneToWrite, NoneToRead, io_canwrite, io_canread, Dirs
<1>2. /\ pc # "crash" /\ pc' \in {"check", "write", "read"}
      /\ UNCHANGED <<conns, owner, hungup, rcvd, sent, accepted>>
  BY DEF NoneToWrite, NoneToRead
<1>3. TableOK(io, conns, open, accepted) /\ accepted \in 0 .. MaxConns /\ hungup \subseteq Ends
  BY DEF Inv, TypeOK
<1>4. TableOK(io', conns, open, accepted)
  BY <1>1, <1>3, TakeOK
<1> QED BY <1>2, <1>3, <1>4, InvTable

LEMMA HangUpStep == ASSUME Inv, NEW e \in Leavers, HangUp(e) PROVE Inv'
<1>1. hungup' \subseteq Ends /\ pc' = pc /\ io' = io
      /\ UNCHANGED <<conns, owner, rcvd, sent, accepted>>
  BY TinyProxyAssumption DEF Inv, TypeOK, HangUp
<1>2. TableOK(io', conns, open, accepted)
  BY <1>1 DEF Inv
<1> QED BY <1>1, <1>2, InvTable

LEMMA StutterStep == ASSUME Inv, UNCHANGED vars PROVE Inv'
<1>1. hungup' \subseteq Ends /\ pc' = pc /\ io' = io
      /\ UNCHANGED <<conns, owner, rcvd, sent, accepted>>
  BY DEF Inv, TypeOK, vars
<1>2. TableOK(io', conns, open, accepted)
  BY <1>1 DEF Inv
<1> QED BY <1>1, <1>2, InvTable

-----------------------------------------------------------------------------
(* A change of one connection.                                             *)

LEMMA ConnSet ==
  ASSUME NEW cs \in Seq(ConnType), NEW i \in 1 .. Len(cs), NEW c \in ConnType,
         SameConn(cs[i], c), NEW ds, ds = [cs EXCEPT ![i] = c]
  PROVE  /\ ds \in Seq(ConnType) /\ Len(ds) = Len(cs)
         /\ ds[i] = c /\ \A k \in 1 .. Len(cs) : k # i => ds[k] = cs[k]
         /\ \A k \in 1 .. Len(cs) : SameConn(cs[k], ds[k]) /\ Op(ds[k]) = Op(cs[k])
<1>1. /\ ds \in Seq(ConnType) /\ Len(ds) = Len(cs)
      /\ \A k \in 1 .. Len(cs) : ds[k] = IF k = i THEN c ELSE cs[k]
  BY ExceptSeq
<1>2. \A k \in 1 .. Len(cs) : SameConn(cs[k], ds[k])
  BY <1>1 DEF SameConn
<1>3. \A k \in 1 .. Len(cs) : Op(ds[k]) = Op(cs[k])
  BY <1>2, SideFacts DEF SameConn, Op
<1> QED BY <1>1, <1>2, <1>3

SetBuf(c, side, b) == [c EXCEPT !.sb[side].buf = b]

LEMMA BufSet ==
  ASSUME NEW c \in ConnType, NEW side \in Sides, NEW b \in Seq(Units),
         NEW d, d = SetBuf(c, side, b)
  PROVE  /\ d \in ConnType /\ SameConn(c, d)
         /\ d.sb[side].buf = b
         /\ \A x \in Sides : x # side => d.sb[x].buf = c.sb[x].buf
<1>1. PICK y : y = [c.sb[side] EXCEPT !.buf = b]
  OBVIOUS
<1>2. c.sb[side] \in SockbufType /\ c.sb \in [Sides -> SockbufType]
  BY DEF ConnType
<1>3. /\ y \in SockbufType /\ y.buf = b
      /\ y.sock = c.sb[side].sock /\ y.op = c.sb[side].op
  BY <1>1, <1>2 DEF SockbufType
<1>4. PICK z : z = [c.sb EXCEPT ![side] = y]
  OBVIOUS
<1>5. z \in [Sides -> SockbufType] /\ z[side] = y /\ \A x \in Sides : x # side => z[x] = c.sb[x]
  BY <1>2, <1>3, <1>4
<1>6. d = [c EXCEPT !.sb = z]
  BY <1>1, <1>4 DEF SetBuf, ConnType
<1>7. d \in ConnType /\ d.id = c.id /\ d.sb = z
  BY <1>5, <1>6 DEF ConnType
<1>8. \A x \in Sides : d.sb[x].sock = c.sb[x].sock /\ d.sb[x].op = c.sb[x].op
  BY <1>3, <1>5, <1>7
<1> QED BY <1>3, <1>5, <1>7, <1>8 DEF SameConn

\* A change that leaves the sockets of the connections alone.
LEMMA InvSame ==
  ASSUME Inv, pc # "crash",
         conns' \in Seq(ConnType), Len(conns') = Len(conns),
         \A k \in 1 .. Len(conns) : SameConn(conns[k], conns'[k]) /\ Op(conns'[k]) = Op(conns[k]),
         (pc' = pc /\ EmptyBufs(conns')) \/ pc' = "crash",
         UNCHANGED <<owner, hungup, accepted>>,
         TableOK(io', conns, open, accepted),
         Data(conns', sent', rcvd')
  PROVE  Inv'
<1>1. Lists(conns, owner, accepted) /\ Owned(conns, owner) /\ hungup \subseteq Ends
      /\ accepted \in 0 .. MaxConns /\ owner \in [Fds -> Owners] /\ owner[server_sock] = Server
  BY DEF Inv, TypeOK, Owners
<1>2. \A k \in 1 .. Len(conns) : SameConn(conns[k], conns'[k])
  OBVIOUS
<1>3. /\ Lists(conns', owner, accepted) /\ Owned(conns', owner)
      /\ \A d : Listed(conns, d) <=> Listed(conns', d)
  BY <1>1, <1>2, ListSame
<1>4. TableOK(io', conns', open, accepted)
  BY <1>3 DEF TableOK
<1>5. open' = open
  BY DEF open
<1>6. TableOK(io', conns', open', accepted') /\ Lists(conns', owner', accepted')
      /\ Owned(conns', owner')
  BY <1>3, <1>4, <1>5
<1>7. /\ hungup' \subseteq Ends /\ accepted' \in 0 .. MaxConns /\ owner' \in [Fds -> Owners]
      /\ owner'[server_sock] = Server
  BY <1>1
<1>8. pc' # "crash" => EmptyBufs(conns')
  OBVIOUS
<1> QED BY <1>6, <1>7, <1>8, InvAfter

-----------------------------------------------------------------------------
(* A socket can be written.                                                *)

LEMMA ConnectedStep ==
  ASSUME Inv, pc = "write", NEW r, r = io_canwrite(io), r.fd # None,
         NEW i, i = connection_find(-1, r.fd), i # 0,
         Connected(r.s, i, r.fd), UNCHANGED <<owner, hungup, rcvd, accepted>>
  PROVE  Inv'
<1>1. /\ conns \in Seq(ConnType) /\ accepted \in 0 .. MaxConns
      /\ TableOK(io, conns, open, accepted) /\ EmptyBufs(conns) /\ Data(conns, sent, rcvd)
  BY InvFacts DEF Inv
<1>2. /\ TableOK(r.s, conns, open, accepted)
      /\ r.fd \in Fds /\ "w" \notin r.s.ent[r.fd].can
      /\ r.fd \in open /\ r.fd # server_sock /\ Listed(conns, r.fd)
  BY <1>1, TakeOK DEF io_canwrite, Dirs
<1>3. i \in 1 .. Len(conns)
  BY <1>1, Found
<1>4. PICK c : c = [conns[i] EXCEPT !.connected = TRUE]
  OBVIOUS
<1>5. conns[i] \in ConnType
  BY <1>3, InvFacts
<1>6. c \in ConnType /\ c.id = conns[i].id /\ c.sb = conns[i].sb
  BY <1>4, <1>5 DEF ConnType
<1>7. SameConn(conns[i], c)
  BY <1>6 DEF SameConn
<1>8. conns' = [conns EXCEPT ![i] = c]
  BY <1>4 DEF Connected
<1>9. /\ conns' \in Seq(ConnType) /\ Len(conns') = Len(conns)
      /\ conns'[i] = c /\ \A k \in 1 .. Len(conns) : k # i => conns'[k] = conns[k]
      /\ \A k \in 1 .. Len(conns) : SameConn(conns[k], conns'[k]) /\ Op(conns'[k]) = Op(conns[k])
  BY <1>1, <1>3, <1>6, <1>7, <1>8, ConnSet
<1>10. \A k \in 1 .. Len(conns) : conns'[k].sb = conns[k].sb /\ conns'[k].id = conns[k].id
  BY <1>6, <1>9
<1>11. EmptyBufs(conns')
  BY <1>1, <1>9, <1>10 DEF EmptyBufs
<1>12. Data(conns', sent', rcvd')
  <2>1. sent' = sent /\ rcvd' = rcvd
    BY DEF Connected
  <2>2. \A k \in 1 .. Len(conns), side \in Sides :
          Op(conns'[k]) => Waits(conns'[k], side, sent, rcvd)
    BY <1>1, <1>9, <1>10 DEF Data, Waits
  <2> QED BY <2>1, <2>2, <1>1, <1>9 DEF Data
<1>13. TableOK(io', conns, open, accepted)
  <2>1. PICK s : s = r.s
    OBVIOUS
  <2>2. PICK d \in Fds : d = r.fd
    BY <1>2
  <2>3. PICK u : u = io_dontwantwrite(s, d)
    OBVIOUS
  <2>4. io' = io_wantread(u, d)
    BY <2>1, <2>2, <2>3 DEF Connected
  <2>5. /\ TableOK(s, conns, open, accepted) /\ "w" \notin s.ent[d].can
        /\ d \in open /\ d # server_sock /\ Listed(conns, d)
    BY <2>1, <2>2, <1>2
  <2> QED BY <2>3, <2>4, <2>5, <1>1, ConnectedOK
<1>14. pc' = pc /\ pc # "crash"
  BY DEF Connected
<1> QED BY <1>9, <1>11, <1>12, <1>13, <1>14, InvSame

LEMMA FlushStep ==
  ASSUME Inv, pc = "write", NEW r, r = io_canwrite(io), r.fd # None,
         NEW at, at = socket_find(r.fd),
         Flush(at[1], at[2]), io' = r.s, UNCHANGED <<owner, hungup, rcvd, accepted>>
  PROVE  Inv'
<1>1. /\ conns \in Seq(ConnType) /\ accepted \in 0 .. MaxConns /\ DOMAIN conns = 1 .. Len(conns)
      /\ TableOK(io, conns, open, accepted) /\ EmptyBufs(conns) /\ Data(conns, sent, rcvd)
      /\ Lists(conns, owner, accepted)
  BY InvFacts DEF Inv
<1>2. /\ TableOK(r.s, conns, open, accepted)
      /\ r.fd \in Fds /\ Listed(conns, r.fd)
  BY <1>1, TakeOK DEF io_canwrite, Dirs
<1>3. PICK i : i = at[1]
  OBVIOUS
<1>4. PICK side : side = at[2]
  OBVIOUS
<1>5. i # 0 /\ i \in 1 .. Len(conns) /\ side \in Sides /\ Sock(i, side) = r.fd
  BY <1>1, <1>2, <1>3, <1>4, SocketFound
<1>6. PICK b : b = conns[i].sb[side].buf
  OBVIOUS
<1>7. PICK t \in Transfers(sent, r.fd, b) : sent' = t.sent
  BY <1>3, <1>4, <1>5, <1>6, Zenon DEF Flush, Sock
<1>8. conns[i] \in ConnType /\ conns[i].id \in 1 .. MaxConns
  BY <1>5, InvFacts
<1>9. b \in Seq(Units) /\ <<>> \in Seq(Units)
  BY <1>5, <1>6, <1>8, EmptySeq DEF ConnType, SockbufType
<1>10. PICK c : c = SetBuf(conns[i], side, <<>>)
  OBVIOUS
<1>11. /\ c \in ConnType /\ SameConn(conns[i], c)
       /\ c.sb[side].buf = <<>>
       /\ \A x \in Sides : x # side => c.sb[x].buf = conns[i].sb[x].buf
  <2>1. PICK nil \in Seq(Units) : nil = <<>>
    BY <1>9
  <2>2. PICK c0 \in ConnType : c0 = conns[i]
    BY <1>8
  <2>3. c = SetBuf(c0, side, nil) /\ side \in Sides
    BY <2>1, <2>2, <1>5, <1>10
  <2>4. /\ c \in ConnType /\ SameConn(c0, c)
        /\ c.sb[side].buf = nil
        /\ \A x \in Sides : x # side => c.sb[x].buf = c0.sb[x].buf
    BY <2>3, BufSet
  <2> QED BY <2>1, <2>2, <2>4
<1>12. conns' = [conns EXCEPT ![i] = c]
  BY <1>1, <1>3, <1>4, <1>10 DEF Flush, SetBuf
<1>13. /\ conns' \in Seq(ConnType) /\ Len(conns') = Len(conns)
       /\ conns'[i] = c /\ \A k \in 1 .. Len(conns) : k # i => conns'[k] = conns[k]
       /\ \A k \in 1 .. Len(conns) : SameConn(conns[k], conns'[k]) /\ Op(conns'[k]) = Op(conns[k])
  <2>1. c \in ConnType /\ SameConn(conns[i], c) /\ conns \in Seq(ConnType) /\ i \in 1 .. Len(conns)
    BY <1>1, <1>5, <1>11
  <2> QED BY <2>1, <1>12, ConnSet
<1>14. EmptyBufs(conns')
  BY <1>1, <1>11, <1>13 DEF EmptyBufs
<1>15. pc' = pc /\ rcvd' = rcvd
  BY <1>3, <1>5 DEF Flush
<1>16. \A k \in 1 .. Len(conns'), x \in Sides :
         Op(conns'[k]) => conns'[k].id = conns[k].id /\ Kept(conns'[k], x, conns)
  <2>1. SUFFICES ASSUME NEW k \in 1 .. Len(conns), NEW x \in Sides, Op(conns'[k])
                 PROVE  conns'[k].id = conns[k].id /\ Kept(conns'[k], x, conns)
    BY <1>13
  <2>2. conns'[k].id = conns[k].id /\ Op(conns[k])
    BY <2>1, <1>13 DEF SameConn
  <2>3. conns'[k].sb[x].buf = <<>> \/ conns'[k].sb[x].buf = conns[k].sb[x].buf
    BY <1>11, <1>13
  <2> QED BY <2>2, <2>3 DEF Kept
<1>17. /\ \A k \in 1 .. Len(conns') : conns'[k].id \in 1 .. MaxConns
       /\ sent \in [Ends -> Seq(Units)] /\ rcvd \in [Ends -> Nat]
       /\ \A e \in Ends : rcvd[e] <= rcvd[e]
  BY <1>1, <1>13, InvFacts DEF SameConn, Data
<1>18. Data(conns', sent', rcvd)
  <2>1. CASE ~Op(conns[i])
    <3>1. b = <<>>
      BY <2>1, <1>1, <1>5, <1>6 DEF EmptyBufs
    <3>2. sent' = sent
      BY <3>1, <1>7, <1>17, TransferNone
    <3> QED BY <3>2, <1>1, <1>16, <1>17, DataStep
  <2>2. CASE Op(conns[i])
    <3>1. PICK e : e = <<conns[i].id, side>>
      OBVIOUS
    <3>2. PICK f : f = <<conns[i].id, Peer(side)>>
      OBVIOUS
    <3>3. e \in Ends /\ owner[r.fd] = e /\ f = PeerOf(e)
      BY <3>1, <3>2, <2>2, <1>5, <1>8, InvFacts, EndFacts DEF Sock
    <3>4. Good(sent[e] \o b, f, rcvd[f])
      BY <3>1, <3>2, <2>2, <1>1, <1>5, <1>6 DEF Data, Waits
    <3>5. SentGood(t, sent, e, b, f, rcvd[f])
      <4>1. PICK d \in Fds : d = r.fd
        BY <1>2
      <4>2. t \in Transfers(sent, d, b) /\ owner[d] = e
        BY <4>1, <1>7, <3>3
      <4> QED BY <4>2, <3>3, <3>4, <1>9, <1>17, TransferGood
    <3>6. /\ sent' \in [Ends -> Seq(Units)] /\ Good(sent'[e], f, rcvd[f])
          /\ \A x \in Ends \ {e} : sent'[x] = sent[x]
      BY <3>5, <1>7 DEF SentGood
    <3>7. \A x \in Ends : sent'[x] # sent[x] => Good(sent'[x], PeerOf(x), rcvd[PeerOf(x)])
      BY <3>3, <3>6
    <3>8. ASSUME NEW k \in 1 .. Len(conns'), NEW x \in Sides, Op(conns'[k])
          PROVE  \/ Waits(conns'[k], x, sent', rcvd)
                 \/ /\ sent'[<<conns'[k].id, x>>] = sent[<<conns'[k].id, x>>]
                    /\ Kept(conns'[k], x, conns)
      <4>1. <<conns'[k].id, x>> \in Ends /\ Kept(conns'[k], x, conns)
        BY <3>8, <1>16, <1>17, EndFacts
      <4>2. CASE <<conns'[k].id, x>> # e
        BY <4>1, <4>2, <3>6
      <4>3. CASE <<conns'[k].id, x>> = e
        <5>1. conns[k].id = conns[i].id /\ x = side /\ k \in 1 .. Len(conns)
          BY <4>3, <3>1, <3>8, <1>13, <1>16
        <5>2. k = i
          BY <5>1, <1>1, <1>5 DEF Lists
        <5>3. conns'[k].sb[x].buf = <<>>
          BY <5>1, <5>2, <1>11, <1>13
        <5>4. sent'[e] \in Seq(Units)
          BY <3>3, <3>6
        <5>5. sent'[e] \o <<>> = sent'[e]
          BY <5>4, ConcatEmptySeq
        <5>6. <<conns'[k].id, Peer(x)>> = f
          BY <5>1, <5>2, <3>2, <3>8, <1>16
        <5> QED BY <4>3, <5>3, <5>5, <5>6, <3>6 DEF Waits
      <4> QED BY <4>2, <4>3
    <3> QED BY <3>6, <3>7, <3>8, <1>1, <1>17, DataStep
  <2> QED BY <2>1, <2>2
<1> QED BY <1>2, <1>13, <1>14, <1>15, <1>18, InvSame

LEMMA WriteStep == ASSUME Inv, CanWrite PROVE Inv'
<1>1. PICK r : r = io_canwrite(io)
  OBVIOUS
<1>2. PICK i : i = connection_find(-1, r.fd)
  OBVIOUS
<1>3. PICK at : at = socket_find(r.fd)
  OBVIOUS
<1>4. /\ pc = "write" /\ r.fd # None /\ UNCHANGED <<owner, hungup, rcvd, accepted>>
      /\ \/ i # 0 /\ Connected(r.s, i, r.fd)
         \/ Flush(at[1], at[2]) /\ io' = r.s
  BY <1>1, <1>2, <1>3 DEF CanWrite
<1>5. CASE i # 0 /\ Connected(r.s, i, r.fd)
  BY <1>1, <1>2, <1>4, <1>5, ConnectedStep
<1>6. CASE Flush(at[1], at[2]) /\ io' = r.s
  BY <1>1, <1>3, <1>4, <1>6, FlushStep
<1> QED BY <1>4, <1>5, <1>6

-----------------------------------------------------------------------------
(* A socket can be read.                                                   *)

LEMMA ReceivedFresh ==
  ASSUME NEW e \in Ends, rcvd \in [Ends -> Nat], NEW units \in Received(e)
  PROVE  \E n \in Nat : units = Fresh(e, rcvd[e], n)
<1>1. PICK n \in 1 .. Min({MaxRead, MaxUnits[e] - rcvd[e]}) :
        units = [k \in 1 .. n |-> <<e, rcvd[e] + k>>]
  BY DEF Received
<1>2. n \in Nat
  OBVIOUS
<1> QED BY <1>1, <1>2 DEF Fresh

LEMMA ForwardStep ==
  ASSUME Inv, pc = "read", NEW r, r = io_canread(io), r.fd \notin {None, server_sock},
         NEW at, at = socket_find(r.fd), at[1] # 0,
         sockbuf_forward_data(at[1], at[2]), io' = r.s, UNCHANGED <<hungup, accepted>>
  PROVE  Inv'
<1>1. /\ conns \in Seq(ConnType) /\ accepted \in 0 .. MaxConns /\ DOMAIN conns = 1 .. Len(conns)
      /\ TableOK(io, conns, open, accepted) /\ EmptyBufs(conns) /\ Data(conns, sent, rcvd)
      /\ Lists(conns, owner, accepted)
  BY InvFacts DEF Inv
<1>2. TableOK(r.s, conns, open, accepted) /\ r.fd \in Fds
  BY <1>1, TakeOK DEF io_canread, Dirs
<1>3. PICK i : i = at[1]
  OBVIOUS
<1>4. PICK side : side = at[2]
  OBVIOUS
<1>5. i \in 1 .. Len(conns) /\ side \in Sides /\ Sock(i, side) = r.fd
  BY <1>1, <1>2, <1>3, <1>4, SocketFound
<1>6. PICK e : e = owner[r.fd]
  OBVIOUS
<1>7. PICK side2 : side2 = Peer(side)
  OBVIOUS
<1>8. PICK to : to = conns[i].sb[side2]
  OBVIOUS
<1>9. e \in Ends
  BY <1>3, <1>4, <1>5, <1>6 DEF sockbuf_forward_data
<1>10. PICK units \in Received(e) :
         /\ rcvd' = [rcvd EXCEPT ![e] = @ + Len(units)]
         /\ \E p \in Puts(sent, to, units) :
              /\ sent' = p.sent
              /\ conns' = [conns EXCEPT ![i].sb[side2].buf = p.buf]
  <2>1. sockbuf_forward_data(i, side)
    BY <1>3, <1>4
  <2>2. \E y \in Received(owner[Sock(i, side)]) :
          /\ rcvd' = [rcvd EXCEPT ![owner[Sock(i, side)]] = @ + Len(y)]
          /\ \E p \in Puts(sent, conns[i].sb[Peer(side)], y) :
               /\ sent' = p.sent
               /\ conns' = [conns EXCEPT ![i].sb[Peer(side)].buf = p.buf]
    BY <2>1, Zenon DEF sockbuf_forward_data
  <2>3. owner[Sock(i, side)] = e /\ conns[i].sb[Peer(side)] = to /\ Peer(side) = side2
    BY <1>5, <1>6, <1>7, <1>8
  <2> QED BY <2>2, <2>3, Zenon
<1>11. PICK p \in Puts(sent, to, units) :
         sent' = p.sent /\ conns' = [conns EXCEPT ![i].sb[side2].buf = p.buf]
  BY <1>10
<1>12. /\ sent \in [Ends -> Seq(Units)] /\ rcvd \in [Ends -> Nat] /\ rcvd[e] \in Nat
       /\ conns[i] \in ConnType /\ side2 \in Sides /\ Peer(side2) = side
       /\ conns[i].id \in 1 .. MaxConns
       /\ ConnOK(conns[i], owner, accepted)
  BY <1>1, <1>5, <1>7, <1>9, InvFacts, SideFacts DEF Data
<1>13. PICK n \in Nat : units = Fresh(e, rcvd[e], n)
  BY <1>9, <1>12, ReceivedFresh
<1>14. units \in Seq(Units) /\ Len(units) = n
  <2>1. PICK m \in Nat : m = rcvd[e]
    BY <1>12
  <2>2. units = [k \in 1 .. n |-> <<e, m + k>>]
    BY <2>1, <1>13 DEF Fresh
  <2> QED BY <2>2, <1>9 DEF Units
<1>15. to \in SockbufType
  BY <1>8, <1>12 DEF ConnType
<1>16. /\ rcvd' \in [Ends -> Nat] /\ rcvd'[e] = rcvd[e] + n
       /\ \A x \in Ends : rcvd[x] <= rcvd'[x]
  BY <1>9, <1>10, <1>12, <1>14
<1>17. pc' = IF to.op THEN pc ELSE "crash"
  BY <1>3, <1>4, <1>7, <1>8 DEF sockbuf_forward_data
<1>18. to.op = Op(conns[i])
  BY <1>8, <1>12 DEF ConnOK, Op, Sides
<1>19. ASSUME p.buf \in Seq(Units), Data(conns', sent', rcvd') PROVE Inv'
  <2>1. PICK c : c = SetBuf(conns[i], side2, p.buf)
    OBVIOUS
  <2>2. c \in ConnType /\ SameConn(conns[i], c)
        /\ \A x \in Sides : x # side2 => c.sb[x].buf = conns[i].sb[x].buf
    BY <2>1, <1>12, <1>19, BufSet
  <2>3. conns' = [conns EXCEPT ![i] = c]
    BY <2>1, <1>11 DEF SetBuf
  <2>4. c \in ConnType /\ SameConn(conns[i], c) /\ conns \in Seq(ConnType) /\ i \in 1 .. Len(conns)
    BY <2>2, <1>1, <1>5
  <2>5. /\ conns' \in Seq(ConnType) /\ Len(conns') = Len(conns)
        /\ conns'[i] = c /\ \A k \in 1 .. Len(conns) : k # i => conns'[k] = conns[k]
        /\ \A k \in 1 .. Len(conns) : SameConn(conns[k], conns'[k]) /\ Op(conns'[k]) = Op(conns[k])
    BY <2>3, <2>4, ConnSet
  <2>6. owner' = owner /\ TableOK(io', conns, open, accepted) /\ pc # "crash"
    BY <1>2 DEF sockbuf_forward_data
  <2>7. CASE Op(conns[i])
    <3>1. pc' = pc
      BY <2>7, <1>17, <1>18
    <3>2. EmptyBufs(conns')
      BY <2>5, <2>7, <1>1 DEF EmptyBufs
    <3> QED BY <3>1, <3>2, <2>5, <2>6, <1>19, InvSame
  <2>8. CASE ~Op(conns[i])
    <3>1. pc' = "crash"
      BY <2>8, <1>17, <1>18
    <3>2. i \in 1 .. Len(conns') /\ ~Op(conns'[i])
      BY <2>5, <2>8, <1>5
    <3> QED BY <3>1, <3>2, <2>5, <2>6, <1>19, InvSame
  <2> QED BY <2>7, <2>8
<1>20. ASSUME p.buf \in Seq(Units)
       PROVE  /\ Len(conns') = Len(conns)
              /\ \A k \in 1 .. Len(conns) : k # i => conns'[k] = conns[k]
              /\ conns'[i].id = conns[i].id /\ Op(conns'[i]) = Op(conns[i])
              /\ conns'[i].sb[side2].buf = p.buf
              /\ \A x \in Sides : x # side2 => conns'[i].sb[x].buf = conns[i].sb[x].buf
              /\ \A k \in 1 .. Len(conns') : conns'[k].id \in 1 .. MaxConns
  <2>1. PICK c : c = SetBuf(conns[i], side2, p.buf)
    OBVIOUS
  <2>2. c \in ConnType /\ SameConn(conns[i], c) /\ c.sb[side2].buf = p.buf
        /\ \A x \in Sides : x # side2 => c.sb[x].buf = conns[i].sb[x].buf
    BY <2>1, <1>12, <1>20, BufSet
  <2>3. conns' = [conns EXCEPT ![i] = c]
    BY <2>1, <1>11 DEF SetBuf
  <2>4. c \in ConnType /\ SameConn(conns[i], c) /\ conns \in Seq(ConnType) /\ i \in 1 .. Len(conns)
    BY <2>2, <1>1, <1>5
  <2>5. /\ Len(conns') = Len(conns)
        /\ conns'[i] = c /\ \A k \in 1 .. Len(conns) : k # i => conns'[k] = conns[k]
        /\ \A k \in 1 .. Len(conns) : SameConn(conns[k], conns'[k]) /\ Op(conns'[k]) = Op(conns[k])
    BY <2>3, <2>4, ConnSet
  <2>6. c.id = conns[i].id
    BY <2>2 DEF SameConn
  <2>7. \A k \in 1 .. Len(conns) : conns[k].id \in 1 .. MaxConns
    BY InvFacts
  <2> QED BY <2>2, <2>4, <2>5, <2>6, <2>7
<1>21. CASE ~Op(conns[i])
  <2>1. side2 = "proxy"
    <3>1. conns[i].sb["proxy"].sock \notin Fds
      BY <1>21, <1>12 DEF ConnOK
    <3>2. side # "proxy"
      BY <3>1, <1>2, <1>5 DEF Sock
    <3> QED BY <3>2, <1>5, <1>7 DEF Sides, Peer
  <2>2. to.sock \notin Fds
    BY <2>1, <1>8, <1>12, <1>21 DEF ConnOK
  <2>3. p.sent = sent /\ p.buf \in Seq(Units)
    BY <2>2, <1>11, <1>12, <1>14, <1>15, PutsNone
  <2>4. ASSUME NEW k \in 1 .. Len(conns'), NEW x \in Sides, Op(conns'[k])
        PROVE  Kept(conns'[k], x, conns)
    <3>1. k \in 1 .. Len(conns) /\ conns'[k] = conns[k]
      BY <2>3, <2>4, <1>20, <1>21
    <3> QED BY <3>1, <2>4 DEF Kept
  <2>5. sent' = sent
    BY <2>3, <1>11
  <2>6. Data(conns', sent', rcvd')
    <3>1. \A k \in 1 .. Len(conns') : conns'[k].id \in 1 .. MaxConns
      BY <2>3, <1>20
    <3> QED BY <3>1, <2>4, <2>5, <1>1, <1>12, <1>16, DataStep
  <2> QED BY <2>3, <2>6, <1>19
<1>22. CASE Op(conns[i])
  <2>1. PICK f : f = <<conns[i].id, side2>>
    OBVIOUS
  <2>2. e = <<conns[i].id, side>> /\ f \in Ends /\ to.sock \in Fds /\ owner[to.sock] = f
        /\ e = PeerOf(f)
    BY <2>1, <1>5, <1>6, <1>8, <1>12, <1>22, InvFacts, EndFacts DEF Sock
  <2>3. Good(sent[f] \o to.buf, e, rcvd[e])
    <3>1. Waits(conns[i], side2, sent, rcvd)
      BY <1>1, <1>5, <1>12, <1>22 DEF Data
    <3> QED BY <3>1, <2>1, <2>2, <1>8, <1>12 DEF Waits
  <2>4. Good((sent[f] \o to.buf) \o units, e, rcvd[e] + n)
    BY <2>3, <1>9, <1>12, <1>13, GoodMore
  <2>5. PICK m : m = rcvd[e] + n
    OBVIOUS
  <2>6. /\ p.sent \in [Ends -> Seq(Units)] /\ p.buf \in Seq(Units)
        /\ \A x \in Ends \ {f} : p.sent[x] = sent[x]
        /\ Good(p.sent[f] \o p.buf, e, m)
        /\ Good(p.sent[f], e, m)
    <3>1. Good((sent[f] \o to.buf) \o units, e, m)
      BY <2>4, <2>5
    <3>2. PutGood(p, sent, f, e, m)
      BY <3>1, <2>2, <1>11, <1>12, <1>14, <1>15, PutsGood
    <3> QED BY <3>2 DEF PutGood
  <2>7. /\ sent' \in [Ends -> Seq(Units)] /\ rcvd'[e] = m
        /\ \A x \in Ends \ {f} : sent'[x] = sent[x]
        /\ Good(sent'[f] \o p.buf, e, rcvd'[e])
        /\ Good(sent'[f], e, rcvd'[e])
    BY <2>5, <2>6, <1>11, <1>16
  <2>8. \A x \in Ends : sent'[x] # sent[x] => Good(sent'[x], PeerOf(x), rcvd'[PeerOf(x)])
    BY <2>2, <2>7
  <2>9. ASSUME NEW k \in 1 .. Len(conns'), NEW x \in Sides, Op(conns'[k])
        PROVE  \/ Waits(conns'[k], x, sent', rcvd')
               \/ /\ sent'[<<conns'[k].id, x>>] = sent[<<conns'[k].id, x>>]
                  /\ Kept(conns'[k], x, conns)
    <3>1. k \in 1 .. Len(conns)
      BY <2>6, <1>20
    <3>2. CASE k = i /\ x = side2
      <4>1. conns'[k].sb[x].buf = p.buf /\ <<conns'[k].id, x>> = f
            /\ <<conns'[k].id, Peer(x)>> = e
        BY <3>2, <2>1, <2>2, <2>6, <1>12, <1>20
      <4> QED BY <4>1, <2>7 DEF Waits
    <3>3. CASE ~(k = i /\ x = side2)
      <4>1. conns'[k].id = conns[k].id /\ Op(conns[k])
            /\ conns'[k].sb[x].buf = conns[k].sb[x].buf
        BY <3>1, <3>3, <2>6, <2>9, <1>20
      <4>2. <<conns[k].id, x>> # f
        <5>1. k # i => conns[k].id # conns[i].id
          BY <3>1, <1>1, <1>5, InvFacts DEF Lists
        <5> QED BY <5>1, <3>3, <2>1
      <4>3. <<conns[k].id, x>> \in Ends
        BY <3>1, InvFacts, EndFacts
      <4> QED BY <4>1, <4>2, <4>3, <3>1, <2>7 DEF Kept
    <3> QED BY <3>2, <3>3
  <2>10. Data(conns', sent', rcvd')
    <3>1. \A k \in 1 .. Len(conns') : conns'[k].id \in 1 .. MaxConns
      BY <2>6, <1>20
    <3>2. sent' \in [Ends -> Seq(Units)] /\ rcvd' \in [Ends -> Nat]
          /\ \A x \in Ends : rcvd[x] <= rcvd'[x]
      BY <2>7, <1>16
    <3>3. Data(conns, sent, rcvd)
      BY <1>1
    <3> QED BY <3>1, <3>2, <3>3, <2>8, <2>9, DataStep
  <2> QED BY <2>6, <2>10, <1>19
<1> QED BY <1>21, <1>22

LEMMA CloseStep ==
  ASSUME Inv, pc = "read", NEW r, r = io_canread(io), r.fd \notin {None, server_sock},
         NEW i, i = connection_find(r.fd, r.fd), Close(r.s, i),
         UNCHANGED <<pc, rcvd, hungup, accepted>>
  PROVE  Inv'
<1>1. /\ conns \in Seq(ConnType) /\ accepted \in 0 .. MaxConns /\ Len(conns) \in Nat
      /\ TableOK(io, conns, open, accepted) /\ EmptyBufs(conns) /\ Data(conns, sent, rcvd)
      /\ Lists(conns, owner, accepted) /\ Owned(conns, owner)
      /\ owner \in [Fds -> Owners] /\ owner[server_sock] = Server
      /\ server_sock \in Fds
  BY InvFacts, ServerFacts DEF Inv, TypeOK, Owners
<1>2. /\ TableOK(r.s, conns, open, accepted) /\ r.fd \in Fds /\ Listed(conns, r.fd)
      /\ "r" \in r.s.ent[r.fd].kern
  BY <1>1, TakeOK DEF io_canread, Dirs
<1>3. i # 0
  <2>1. PICK j \in 1 .. Len(conns), side \in Sides : Sock(j, side) = r.fd
    BY <1>2 DEF Listed, Sock
  <2>2. Sock(j, "client") = r.fd \/ Sock(j, "proxy") = r.fd
    BY <2>1 DEF Sides
  <2> QED BY <2>2, <1>1, Found
<1>4. /\ i \in 1 .. Len(conns)
      /\ Sock(i, "client") = r.fd \/ Sock(i, "proxy") = r.fd
      /\ \A j \in 1 .. Len(conns) : j < i /\ Op(conns[j]) => Disjoint(conns[i], conns[j])
  BY <1>1, <1>2, <1>3, NewestWith
<1>5. PICK d : d = conns[i].sb["client"].sock
  OBVIOUS
<1>6. PICK e : e = conns[i].sb["proxy"].sock
  OBVIOUS
<1>7. conns[i] \in ConnType /\ ConnOK(conns[i], owner, accepted) /\ conns[i].id \in 1 .. MaxConns
  BY <1>4, InvFacts
<1>8. d # server_sock /\ e # server_sock /\ d \in Fds
  BY <1>5, <1>6, <1>7, SideFacts DEF ConnOK
<1>9. Op(conns[i]) => /\ e \in Fds /\ d \in open /\ e \in open
                      /\ owner[d] = <<conns[i].id, "client">>
                      /\ owner[e] = <<conns[i].id, "proxy">>
  BY <1>4, <1>5, <1>6, SideFacts, InvFacts
<1>10. ~Op(conns[i]) => e \notin Fds /\ d = r.fd
  BY <1>2, <1>4, <1>5, <1>6, <1>7 DEF ConnOK, Sock
<1>11. d # e
  BY <1>8, <1>9, <1>10
<1>12. \A side \in Sides : conns[i].sb[side].sock = d \/ conns[i].sb[side].sock = e
  BY <1>5, <1>6 DEF Sides
<1>13. owner' = [x \in Fds |-> IF \E side \in Sides : x = conns[i].sb[side].sock
                                 THEN Nobody ELSE owner[x]]
  BY DEF Close, sockbuf_close, Sock
<1>14. \A x \in Fds : owner'[x] = IF \E side \in Sides : x = conns[i].sb[side].sock
                                    THEN Nobody ELSE owner[x]
  BY <1>13
<1>15. \A x \in Fds : owner'[x] = IF x = d \/ x = e THEN Nobody ELSE owner[x]
  BY <1>5, <1>6, <1>12, <1>14, SideFacts
<1>16. conns' = RemoveAt(conns, i)
  BY DEF Close
<1>17. /\ Lists(conns', owner', accepted)
       /\ \A x : Listed(conns, x) /\ (\A side \in Sides : x # conns[i].sb[side].sock)
                   => Listed(conns', x)
       /\ Owned(conns', owner')
  BY <1>1, <1>4, <1>14, <1>16, ListRemove
<1>18. /\ owner' \in [Fds -> Owners] /\ owner'[server_sock] = Server
       /\ \A x \in Fds : x \in open' <=> x \in open /\ x # d /\ x # e
  <2>1. Nobody \in Owners
    BY DEF Owners
  <2>2. owner' \in [Fds -> Owners]
    BY <2>1, <1>1, <1>13
  <2>3. \A x \in Fds : x \in open' <=> x \in open /\ x # d /\ x # e
    BY <1>15 DEF open
  <2>4. owner'[server_sock] = Server
    BY <1>1, <1>8, <1>15
  <2> QED BY <2>2, <2>3, <2>4
<1>19. TableOK(io', conns', open', accepted)
  <2>1. PICK s : s = r.s
    OBVIOUS
  <2>2. PICK u : u = Shut(s, d)
    OBVIOUS
  <2>3. io' = Shut(u, e)
    BY <2>1, <2>2, <1>5, <1>6, SideFacts DEF Close, sockbuf_close, Sock, Shut
  <2>4. TableOK(s, conns, open, accepted)
    BY <2>1, <1>2
  <2>5. \A x \in Fds : x \in open => s.ent[x].want \subseteq s.ent[x].kern
    BY <2>4 DEF TableOK, Tidy, TidyEntry
  <2>6. s.ent[d].want \subseteq s.ent[d].kern
    <3>1. CASE d \in open
      BY <3>1, <2>5, <1>8
    <3>2. CASE d \notin open
      <4>1. TidyEntry(s.ent[d], d \in open)
        BY <2>4, <1>8 DEF TableOK, Tidy
      <4>2. s.ent[d].want \subseteq {"r"}
        BY <4>1, <3>2 DEF TidyEntry
      <4>3. "r" \in s.ent[d].kern
        BY <2>1, <3>2, <1>2, <1>9, <1>10
      <4> QED BY <4>2, <4>3
    <3> QED BY <3>1, <3>2
  <2>7. e \in Fds => s.ent[e].want \subseteq s.ent[e].kern
    BY <2>5, <1>9, <1>10
  <2>8. \A x \in Fds : Listed(conns, x) /\ x # d /\ x # e => Listed(conns', x)
    BY <1>12, <1>17
  <2> QED BY <2>2, <2>3, <2>4, <2>6, <2>7, <2>8, <1>1, <1>8, <1>11, <1>18, ClosedOK
<1>20. /\ conns' \in Seq(ConnType) /\ Len(conns') = Len(conns) - 1
       /\ \A k \in 1 .. Len(conns') :
            \E j \in 1 .. Len(conns) : j # i /\ conns'[k] = conns[j]
  <2>1. conns \in Seq(ConnType) /\ i \in 1 .. Len(conns)
    BY <1>1, <1>4
  <2>2. /\ conns' \in Seq(ConnType) /\ Len(conns') = Len(conns) - 1
        /\ \A k \in 1 .. Len(conns') : Before(i, k) \in 1 .. Len(conns) /\ Before(i, k) # i
                                       /\ conns'[k] = conns[Before(i, k)]
    BY <2>1, <1>16, RemoveAtSeq
  <2> QED BY <2>2
<1>21. EmptyBufs(conns')
  BY <1>1, <1>20 DEF EmptyBufs
<1>22. PICK b : b = conns[i].sb["client"].buf
  OBVIOUS
<1>23. PICK c : c = conns[i].sb["proxy"].buf
  OBVIOUS
<1>24. PICK f \in Transfers(sent, d, b) : \E g \in Transfers(f.sent, e, c) : sent' = g.sent
  BY <1>5, <1>6, <1>22, <1>23, SideFacts, Zenon DEF Close, sockbuf_close, Sock
<1>25. PICK g \in Transfers(f.sent, e, c) : sent' = g.sent
  BY <1>24
<1>26. sent \in [Ends -> Seq(Units)] /\ rcvd \in [Ends -> Nat]
       /\ (\A x \in Ends : rcvd[x] <= rcvd[x]) /\ b \in Seq(Units) /\ c \in Seq(Units)
  <2>1. conns[i].sb["client"] \in SockbufType /\ conns[i].sb["proxy"] \in SockbufType
    BY <1>7, SideFacts DEF ConnType
  <2>2. b \in Seq(Units) /\ c \in Seq(Units)
    BY <2>1, <1>22, <1>23 DEF SockbufType
  <2>3. sent \in [Ends -> Seq(Units)] /\ rcvd \in [Ends -> Nat]
    BY <1>1 DEF Data
  <2> QED BY <2>2, <2>3
<1>27. ASSUME NEW k \in 1 .. Len(conns'), NEW x \in Sides
       PROVE  /\ conns'[k].id \in 1 .. MaxConns /\ conns'[k].id # conns[i].id
              /\ Op(conns'[k]) => Kept(conns'[k], x, conns)
  <2>1. PICK j \in 1 .. Len(conns) : j # i /\ conns'[k] = conns[j]
    BY <1>20
  <2>2. conns[j].id # conns[i].id
    BY <2>1, <1>1, <1>4 DEF Lists
  <2>3. conns[j].id \in 1 .. MaxConns
    BY InvFacts
  <2> QED BY <2>1, <2>2, <2>3 DEF Kept
<1>28. \A k \in 1 .. Len(conns') : conns'[k].id \in 1 .. MaxConns
  BY <1>27, SideFacts
<1>29. Data(conns', sent', rcvd)
  <2>1. CASE ~Op(conns[i])
    <3>1. b = <<>> /\ c = <<>>
      BY <2>1, <1>1, <1>4, <1>22, <1>23, SideFacts DEF EmptyBufs
    <3>2. f.sent = sent
      BY <3>1, <1>24, <1>26, TransferNone
    <3>3. sent' = sent
      BY <3>1, <3>2, <1>25, <1>26, TransferNone
    <3> QED BY <3>3, <1>1, <1>26, <1>27, <1>28, DataStep
  <2>2. CASE Op(conns[i])
    <3>1. PICK x : x = <<conns[i].id, "client">>
      OBVIOUS
    <3>2. PICK y : y = <<conns[i].id, "proxy">>
      OBVIOUS
    <3>3. /\ x \in Ends /\ y \in Ends /\ x # y /\ PeerOf(x) = y /\ PeerOf(y) = x
          /\ Peer("client") = "proxy" /\ Peer("proxy") = "client"
          /\ d \in Fds /\ e \in Fds /\ owner[d] = x /\ owner[e] = y
      BY <3>1, <3>2, <2>2, <1>7, <1>8, <1>9, EndFacts, SideFacts DEF Peer
    <3>4. Good(sent[x] \o b, y, rcvd[y]) /\ Good(sent[y] \o c, x, rcvd[x])
      <4>1. Waits(conns[i], "client", sent, rcvd) /\ Waits(conns[i], "proxy", sent, rcvd)
        BY <2>2, <1>1, <1>4, SideFacts DEF Data
      <4> QED BY <4>1, <3>1, <3>2, <3>3, <1>22, <1>23 DEF Waits
    <3>5. SentGood(f, sent, x, b, y, rcvd[y])
      BY <3>3, <3>4, <1>24, <1>26, TransferGood
    <3>6. PICK h \in [Ends -> Seq(Units)] : h = f.sent
      BY <3>5 DEF SentGood
    <3>7. Good(h[x], y, rcvd[y]) /\ \A z \in Ends \ {x} : h[z] = sent[z]
      BY <3>5, <3>6 DEF SentGood
    <3>8. SentGood(g, h, y, c, x, rcvd[x])
      <4>1. g \in Transfers(h, e, c) /\ Good(h[y] \o c, x, rcvd[x])
        BY <3>3, <3>4, <3>6, <3>7, <1>25
      <4> QED BY <4>1, <3>3, <1>26, TransferGood
    <3>9. /\ sent' \in [Ends -> Seq(Units)] /\ Good(sent'[y], x, rcvd[x])
          /\ \A z \in Ends \ {y} : sent'[z] = h[z]
      BY <3>8, <1>25 DEF SentGood
    <3>10. \A z \in Ends : z # x /\ z # y => sent'[z] = sent[z]
      BY <3>7, <3>9
    <3>11. \A z \in Ends : sent'[z] # sent[z] => Good(sent'[z], PeerOf(z), rcvd[PeerOf(z)])
      BY <3>3, <3>7, <3>9, <3>10
    <3>12. ASSUME NEW k \in 1 .. Len(conns'), NEW z \in Sides, Op(conns'[k])
           PROVE  /\ sent'[<<conns'[k].id, z>>] = sent[<<conns'[k].id, z>>]
                  /\ Kept(conns'[k], z, conns)
      <4>1. <<conns'[k].id, z>> \in Ends /\ <<conns'[k].id, z>> # x /\ <<conns'[k].id, z>> # y
        BY <3>1, <3>2, <1>27, EndFacts
      <4> QED BY <4>1, <3>10, <3>12, <1>27
    <3>13. sent' \in [Ends -> Seq(Units)] /\ rcvd \in [Ends -> Nat] /\ Data(conns, sent, rcvd)
           /\ \A z \in Ends : rcvd[z] <= rcvd[z]
      BY <3>9, <1>1, <1>26
    <3> QED BY <3>11, <3>12, <3>13, <1>28, DataStep
  <2> QED BY <2>1, <2>2
<1>30. /\ hungup' \subseteq Ends /\ pc' = pc /\ pc # "crash" /\ rcvd' = rcvd
       /\ accepted' = accepted
  BY DEF Inv, TypeOK
<1> QED BY <1>1, <1>17, <1>18, <1>19, <1>21, <1>29, <1>30, InvAfter

LEMMA ReadStep == ASSUME Inv, CanRead PROVE Inv'
<1>1. PICK r : r = io_canread(io)
  OBVIOUS
<1>2. PICK at : at = socket_find(r.fd)
  OBVIOUS
<1>3. PICK i : i = connection_find(r.fd, r.fd)
  OBVIOUS
<1>4. /\ pc = "read" /\ r.fd \notin {None, server_sock} /\ UNCHANGED <<hungup, accepted>>
      /\ \/ at[1] # 0 /\ sockbuf_forward_data(at[1], at[2]) /\ io' = r.s
         \/ Close(r.s, i) /\ UNCHANGED <<pc, rcvd>>
         \/ /\ pc' = IF at[1] = 0 THEN "no such fd" ELSE pc
            /\ io' = r.s
            /\ UNCHANGED <<conns, owner, rcvd, sent>>
  BY <1>1, <1>2, <1>3 DEF CanRead
<1>5. CASE at[1] # 0 /\ sockbuf_forward_data(at[1], at[2]) /\ io' = r.s
  BY <1>1, <1>2, <1>4, <1>5, ForwardStep
<1>6. CASE Close(r.s, i) /\ UNCHANGED <<pc, rcvd>>
  BY <1>1, <1>3, <1>4, <1>6, CloseStep
<1>7. CASE /\ pc' = IF at[1] = 0 THEN "no such fd" ELSE pc
           /\ io' = r.s
           /\ UNCHANGED <<conns, owner, rcvd, sent>>
  <2>1. /\ Lists(conns, owner, accepted) /\ TableOK(io, conns, open, accepted)
        /\ accepted \in 0 .. MaxConns /\ hungup \subseteq Ends
    BY DEF Inv, TypeOK
  <2>2. TableOK(r.s, conns, open, accepted) /\ r.fd \in Fds /\ Listed(conns, r.fd)
    BY <2>1, <1>1, <1>4, TakeOK DEF io_canread, Dirs
  <2>3. at[1] # 0
    BY <2>1, <2>2, <1>2, SocketFound
  <2>4. pc' = pc /\ TableOK(io', conns, open, accepted) /\ hungup' \subseteq Ends
    BY <2>1, <2>2, <2>3, <1>4, <1>7
  <2>5. UNCHANGED <<conns, owner, rcvd, sent, accepted>>
    BY <1>4, <1>7
  <2> QED BY <2>4, <2>5, InvTable
<1> QED BY <1>4, <1>5, <1>6, <1>7

-----------------------------------------------------------------------------
(* A client is accepted.                                                   *)

NewConn(id, d, x, op) ==
  [id |-> id, connected |-> FALSE,
   sb |-> [side \in Sides |-> [sock |-> IF side = "client" THEN d ELSE x,
                               buf |-> <<>>, op |-> op]]]

LEMMA NewConnFacts ==
  ASSUME NEW id \in Nat, NEW d \in Int, NEW x \in Int, NEW op \in BOOLEAN,
         NEW c, c = NewConn(id, d, x, op)
  PROVE  /\ c \in ConnType /\ c.id = id /\ Op(c) = op
         /\ c.sb["client"].sock = d /\ c.sb["proxy"].sock = x
         /\ c.sb["client"].op = op /\ c.sb["proxy"].op = op
         /\ c.sb["client"].buf = <<>> /\ c.sb["proxy"].buf = <<>>
<1>1. PICK nil \in Seq(Units) : nil = <<>>
  BY EmptySeq
<1>2. \A side \in Sides : [sock |-> IF side = "client" THEN d ELSE x,
                           buf |-> nil, op |-> op] \in SockbufType
  BY DEF SockbufType
<1>3. c.sb = [side \in Sides |-> [sock |-> IF side = "client" THEN d ELSE x,
                                  buf |-> nil, op |-> op]]
      /\ c.id = id
  BY <1>1 DEF NewConn
<1>4. c.sb \in [Sides -> SockbufType]
  BY <1>2, <1>3
<1>5. c \in ConnType
  BY <1>4 DEF NewConn, ConnType
<1>6. /\ c.sb["client"] = [sock |-> d, buf |-> nil, op |-> op]
      /\ c.sb["proxy"] = [sock |-> x, buf |-> nil, op |-> op]
  BY <1>3, SideFacts
<1> QED BY <1>1, <1>3, <1>5, <1>6 DEF Op

\* The connection of a client that has the descriptor d, with x for the other
\* socket, goes before the others.
Gives(d, x, op) ==
  /\ op => /\ x \in Fds /\ owner[x] = Nobody
           /\ owner'[d] = <<accepted + 1, "client">> /\ owner'[x] = <<accepted + 1, "proxy">>
  /\ ~op => x \notin Fds
  /\ \A y \in Fds : owner[y] = Nobody /\ owner'[y] # Nobody =>
       owner'[y] = Failed \/ (op /\ (y = d \/ y = x))

LEMMA InsertStep ==
  ASSUME Inv, pc = "read", accepted < MaxConns,
         NEW d \in Fds, owner[d] = Nobody, NEW x \in Int, x # -1,
         NEW op \in BOOLEAN,
         conns' = <<NewConn(accepted + 1, d, x, op)>> \o conns,
         owner' \in [Fds -> Owners],
         \A y \in Fds : owner[y] # Nobody => owner'[y] = owner[y],
         Gives(d, x, op),
         (/\ \A y : Listed(conns, y) => Listed(conns', y)
          /\ Listed(conns', d) /\ Listed(conns', x))
           => TableOK(io', conns', open', accepted + 1),
         accepted' = accepted + 1, UNCHANGED <<pc, hungup, rcvd, sent>>
  PROVE  Inv'
<1>1. /\ conns \in Seq(ConnType) /\ Len(conns) \in Nat
      /\ accepted \in 0 .. MaxConns /\ accepted \in Nat /\ MaxConns \in Nat
      /\ EmptyBufs(conns) /\ Data(conns, sent, rcvd)
      /\ Lists(conns, owner, accepted) /\ Owned(conns, owner)
      /\ owner[server_sock] = Server /\ server_sock \in Fds /\ Server # Nobody
      /\ hungup \subseteq Ends
  BY InvFacts, ServerFacts, EnoughSlack DEF Inv, TypeOK, Server, Nobody
<1>2. PICK a \in Nat : a = accepted + 1
  BY <1>1
<1>3. PICK c : c = NewConn(a, d, x, op)
  OBVIOUS
<1>4. /\ c \in ConnType /\ c.id = a /\ Op(c) = op
      /\ c.sb["client"].sock = d /\ c.sb["proxy"].sock = x
      /\ c.sb["client"].op = op /\ c.sb["proxy"].op = op
      /\ c.sb["client"].buf = <<>> /\ c.sb["proxy"].buf = <<>>
  <2>1. d \in Int
    BY ServerFacts
  <2> QED BY <2>1, <1>3, NewConnFacts
<1>5. d # server_sock /\ x # server_sock /\ d # -1 /\ a \in 1 .. a /\ a \in 1 .. MaxConns
  BY <1>1, <1>2, ServerFacts DEF Gives
<1>6. ConnOK(c, owner', a)
  BY <1>2, <1>4, <1>5 DEF ConnOK, Sides, Gives
<1>7. \A side \in Sides : c.sb[side].sock \in Fds => owner[c.sb[side].sock] = Nobody
  BY <1>4 DEF Sides, Gives
<1>8. conns' = <<c>> \o conns
  BY <1>2, <1>3
<1>9. /\ Lists(conns', owner', accepted + 1)
      /\ \A y : Listed(conns, y) => Listed(conns', y)
      /\ \A side \in Sides : Listed(conns', c.sb[side].sock)
      /\ \A y \in Fds : Owned(conns, owner) /\ owner[y] # Nobody /\ y # server_sock =>
           Held(conns', owner, y)
  <2>1. c.id = a /\ accepted \in Nat /\ c \in ConnType /\ Lists(conns, owner, accepted)
    BY <1>1, <1>4
  <2>2. Keeps(owner, owner') /\ Free(c, owner)
    BY <1>7 DEF Keeps, Free
  <2>3. /\ Lists(conns', owner', a)
        /\ \A y : Listed(conns, y) => Listed(conns', y)
        /\ \A side \in Sides : Listed(conns', c.sb[side].sock)
        /\ \A y \in Fds : Owned(conns, owner) /\ owner[y] # Nobody /\ y # server_sock =>
             Held(conns', owner, y)
    BY <2>1, <2>2, <1>2, <1>6, <1>8, ListInsert
  <2> QED BY <2>3, <1>2
<1>10. /\ conns' \in Seq(ConnType) /\ Len(conns') = Len(conns) + 1
       /\ conns'[1] = c
       /\ \A k \in 1 .. Len(conns') : k # 1 => k - 1 \in 1 .. Len(conns) /\ conns'[k] = conns[k - 1]
  BY <1>1, <1>4, <1>8, HeadOf
<1>11. Listed(conns', d) /\ Listed(conns', x)
  BY <1>4, <1>9, SideFacts
<1>12. TableOK(io', conns', open', accepted')
  BY <1>9, <1>11
<1>13. Owned(conns', owner')
  <2>1. SUFFICES ASSUME NEW y \in Fds, owner'[y] # Nobody, y # server_sock, owner'[y] # Failed
                 PROVE  \E i \in 1 .. Len(conns'), side \in Sides :
                          /\ Op(conns'[i]) /\ conns'[i].sb[side].sock = y
                          /\ owner'[y] = <<conns'[i].id, side>>
    BY DEF Owned
  <2>2. CASE owner[y] # Nobody
    <3>1. owner'[y] = owner[y] /\ Owned(conns, owner)
      BY <2>2, <1>1
    <3>2. PICK i \in 1 .. Len(conns'), side \in Sides :
            /\ Op(conns'[i]) /\ conns'[i].sb[side].sock = y
            /\ owner[y] = <<conns'[i].id, side>>
      BY <3>1, <2>1, <2>2, <1>9 DEF Held
    <3> QED BY <3>1, <3>2
  <2>3. CASE owner[y] = Nobody
    <3>1. op /\ (y = d \/ y = x)
      BY <2>1, <2>3 DEF Gives
    <3>2. 1 \in 1 .. Len(conns')
      BY <1>1, <1>10
    <3>3. Op(c) /\ \E side \in Sides : c.sb[side].sock = y /\ owner'[y] = <<c.id, side>>
      BY <3>1, <1>2, <1>4, SideFacts DEF Gives
    <3> QED BY <3>2, <3>3, <1>10
  <2> QED BY <2>2, <2>3
<1>14. EmptyBufs(conns')
  <2>1. SUFFICES ASSUME NEW k \in 1 .. Len(conns'), NEW side \in Sides, ~Op(conns'[k])
                 PROVE  conns'[k].sb[side].buf = <<>>
    BY DEF EmptyBufs
  <2>2. CASE k = 1
    BY <2>2, <1>4, <1>10 DEF Sides
  <2>3. CASE k # 1
    BY <2>1, <2>3, <1>1, <1>10 DEF EmptyBufs
  <2> QED BY <2>2, <2>3
<1>15. Data(conns', sent', rcvd')
  <2>1. Data(conns, sent, rcvd)
    BY <1>1
  <2>2. ASSUME NEW k \in 1 .. Len(conns')
        PROVE  /\ conns'[k].id \in 1 .. MaxConns
               /\ \A side \in Sides : Op(conns'[k]) => Kept(conns'[k], side, conns)
    <3>1. CASE k = 1
      BY <3>1, <1>4, <1>5, <1>10 DEF Kept, Sides
    <3>2. CASE k # 1
      <4>1. PICK j \in 1 .. Len(conns) : conns'[k] = conns[j]
        BY <3>2, <1>10
      <4>2. conns[j].id \in 1 .. MaxConns
        BY InvFacts
      <4> QED BY <4>1, <4>2 DEF Kept
    <3> QED BY <3>1, <3>2
  <2>3. AllKept(conns', conns)
    BY <2>2 DEF AllKept
  <2>4. Data(conns', sent, rcvd)
    BY <2>1, <2>3, DataKept
  <2> QED BY <2>4
<1>16. owner'[server_sock] = Server /\ hungup' \subseteq Ends /\ pc' = pc /\ pc # "crash"
       /\ accepted' \in 0 .. MaxConns /\ Lists(conns', owner', accepted')
  BY <1>1, <1>9
<1> QED BY <1>12, <1>13, <1>14, <1>15, <1>16, InvAfter

\* The record that socket_accept fills in.
Begun(id, d) ==
  [id |-> id, connected |-> FALSE,
   sb |-> [side \in Sides |-> [sockbuf_init EXCEPT !.sock = IF side = "client" THEN d ELSE @]]]

LEMMA SockSet ==
  ASSUME NEW a, NEW b, NEW op, NEW y
  PROVE  [[sock |-> a, buf |-> b, op |-> op] EXCEPT !.sock = y]
           = [sock |-> y, buf |-> b, op |-> op]
OBVIOUS

LEMMA SbSet ==
  ASSUME NEW id, NEW b, NEW f, NEW g
  PROVE  [[id |-> id, connected |-> b, sb |-> f] EXCEPT !.sb = g]
           = [id |-> id, connected |-> b, sb |-> g]
OBVIOUS

LEMMA BegunConn ==
  ASSUME NEW id, NEW d, NEW x
  PROVE  /\ [Begun(id, d) EXCEPT !.sb["proxy"].sock = x] = NewConn(id, d, x, FALSE)
         /\ [Begun(id, d) EXCEPT !.sb = [side \in Sides |->
               [sock |-> IF side = "client" THEN d ELSE x, buf |-> <<>>, op |-> TRUE]]]
            = NewConn(id, d, x, TRUE)
<1>1. PICK no : no = FALSE
  OBVIOUS
<1>2. PICK nil : nil = <<>>
  OBVIOUS
<1>3. PICK z : z = -1
  OBVIOUS
<1>4. PICK f : f = [side \in Sides |-> [sock |-> IF side = "client" THEN d ELSE z,
                                        buf |-> nil, op |-> no]]
  OBVIOUS
<1>5. Begun(id, d) = [id |-> id, connected |-> no, sb |-> f]
  <2>1. sockbuf_init = [sock |-> z, buf |-> nil, op |-> no]
    BY <1>1, <1>2, <1>3 DEF sockbuf_init
  <2>2. ASSUME NEW side \in Sides
        PROVE  [sockbuf_init EXCEPT !.sock = IF side = "client" THEN d ELSE @]
                 = [sock |-> IF side = "client" THEN d ELSE z, buf |-> nil, op |-> no]
    <3>1. sockbuf_init.sock = z
      BY <2>1
    <3>2. [sockbuf_init EXCEPT !.sock = IF side = "client" THEN d ELSE @]
            = [sockbuf_init EXCEPT !.sock = IF side = "client" THEN d ELSE z]
      BY <3>1
    <3> QED BY <3>2, <2>1, SockSet
  <2>3. [side \in Sides |-> [sockbuf_init EXCEPT !.sock = IF side = "client" THEN d ELSE @]] = f
    BY <2>2, <1>4
  <2> QED BY <2>3, <1>1 DEF Begun
<1>6. PICK c : c = Begun(id, d)
  OBVIOUS
<1>7. c = [id |-> id, connected |-> no, sb |-> f] /\ c.sb = f
  BY <1>5, <1>6
<1>8. PICK g : g = [side \in Sides |-> [sock |-> IF side = "client" THEN d ELSE x,
                                        buf |-> nil, op |-> no]]
  OBVIOUS
<1>9. [f EXCEPT !["proxy"].sock = x] = g
  <2>1. PICK h : h = [f["proxy"] EXCEPT !.sock = x]
    OBVIOUS
  <2>2. f["proxy"] = [sock |-> z, buf |-> nil, op |-> no]
    BY <1>4, SideFacts
  <2>3. h = [sock |-> x, buf |-> nil, op |-> no]
    BY <2>1, <2>2, SockSet
  <2>4. [f EXCEPT !["proxy"].sock = x] = [f EXCEPT !["proxy"] = h]
    BY <2>1
  <2>5. [f EXCEPT !["proxy"] = h] = g
    BY <2>3, <1>4, <1>8 DEF Sides
  <2> QED BY <2>4, <2>5
<1>10. [c EXCEPT !.sb["proxy"].sock = x] = [c EXCEPT !.sb = g]
  BY <1>7, <1>9
<1>11. [c EXCEPT !.sb = g] = [id |-> id, connected |-> no, sb |-> g]
  BY <1>7, SbSet
<1>12. [id |-> id, connected |-> no, sb |-> g] = NewConn(id, d, x, FALSE)
  BY <1>1, <1>2, <1>8 DEF NewConn
<1>13. PICK k : k = [side \in Sides |-> [sock |-> IF side = "client" THEN d ELSE x,
                                         buf |-> <<>>, op |-> TRUE]]
  OBVIOUS
<1>14. [c EXCEPT !.sb = k] = [id |-> id, connected |-> no, sb |-> k]
  BY <1>7, SbSet
<1>15. [id |-> id, connected |-> no, sb |-> k] = NewConn(id, d, x, TRUE)
  BY <1>1, <1>13 DEF NewConn
<1> QED BY <1>6, <1>10, <1>11, <1>12, <1>13, <1>14, <1>15

\* What is known when a client is accepted.
Accepting(s, d) ==
  /\ Inv /\ pc = "read" /\ accepted < MaxConns
  /\ TableOK(s, conns, open, accepted) /\ "r" \notin s.ent[server_sock].can
  /\ d \in Fds /\ d \in Unused
  /\ accepted' = accepted + 1 /\ UNCHANGED <<pc, hungup, rcvd, sent>>

LEMMA AcceptingFacts ==
  ASSUME NEW s, NEW d, Accepting(s, d)
  PROVE  /\ Inv /\ pc = "read" /\ accepted < MaxConns /\ accepted \in 0 .. MaxConns
         /\ d \in Fds /\ owner[d] = Nobody /\ d \notin open /\ d # server_sock
         /\ accepted' = accepted + 1 /\ UNCHANGED <<pc, hungup, rcvd, sent>>
         /\ owner \in [Fds -> Owners]
         /\ (/\ \A y : Listed(conns, y) => Listed(conns', y)
             /\ Listed(conns', d)) => Accepts(s, conns, conns', open, accepted, d)
<1>1. Inv /\ pc = "read" /\ accepted < MaxConns /\ d \in Fds /\ d \in Unused
  BY DEF Accepting
<1>2. owner[d] = Nobody /\ d \notin open
  BY <1>1 DEF Unused, open
<1>3. owner[server_sock] = Server /\ Server # Nobody /\ owner \in [Fds -> Owners]
      /\ accepted \in 0 .. MaxConns
  BY <1>1 DEF Inv, Server, Nobody, TypeOK, Owners
<1>4. d # server_sock
  BY <1>2, <1>3
<1> QED BY <1>1, <1>2, <1>3, <1>4 DEF Accepting, Accepts

\* There is no descriptor for the other socket.
LEMMA NoSocketStep ==
  ASSUME NEW s, NEW d, Accepting(s, d),
         Refused(s, Begun(accepted + 1, d), d, CLIENT_SOCKET_ERROR), UNCHANGED owner
  PROVE  Inv'
<1>1. conns' = <<NewConn(accepted + 1, d, CLIENT_SOCKET_ERROR, FALSE)>> \o conns
      /\ io' = io_close(s, d)
  BY BegunConn DEF Refused
<1>2. open' = open
  BY DEF open
<1>3. PICK x : x = CLIENT_SOCKET_ERROR
  OBVIOUS
<1>4. x \in Int /\ x # -1 /\ x \notin Fds
  BY <1>3, ServerFacts DEF CLIENT_SOCKET_ERROR
<1>5. /\ Inv /\ pc = "read" /\ accepted < MaxConns /\ accepted \in 0 .. MaxConns
      /\ d \in Fds /\ owner[d] = Nobody
      /\ accepted' = accepted + 1 /\ UNCHANGED <<pc, hungup, rcvd, sent>>
      /\ owner' \in [Fds -> Owners]
  BY AcceptingFacts
<1>6. ASSUME \A y : Listed(conns, y) => Listed(conns', y), Listed(conns', d)
      PROVE  TableOK(io', conns', open', accepted + 1)
  <2>1. Accepts(s, conns, conns', open, accepted, d)
    BY <1>6, AcceptingFacts
  <2> QED BY <2>1, <1>1, <1>2, <1>5, RefusedOK
<1>7. PICK op \in BOOLEAN : op = FALSE
  OBVIOUS
<1>8. conns' = <<NewConn(accepted + 1, d, x, op)>> \o conns
  BY <1>1, <1>3, <1>7
<1>9. /\ ~op
      /\ \A y \in Fds : owner[y] # Nobody => owner'[y] = owner[y]
      /\ \A y \in Fds : ~(owner[y] = Nobody /\ owner'[y] # Nobody)
  BY <1>7
<1>10. Gives(d, x, op)
  BY <1>4, <1>9 DEF Gives
<1> QED BY <1>4, <1>5, <1>6, <1>8, <1>9, <1>10, InsertStep

\* The connect fails.
LEMMA NoConnectStep ==
  ASSUME NEW s, NEW d, Accepting(s, d), NEW e \in Unused, e # d,
         Refused(io_nonblock(io_fd_internal(s, e, FALSE), e), Begun(accepted + 1, d), d,
                 CLIENT_CONNECT_ERROR),
         owner' = [owner EXCEPT ![e] = Failed]
  PROVE  Inv'
<1>1. PICK nonblock : nonblock = FALSE
  OBVIOUS
<1>2. PICK f : f = io_fd_internal(s, e, nonblock)
  OBVIOUS
<1>3. PICK u : u = io_nonblock(f, e)
  OBVIOUS
<1>4. conns' = <<NewConn(accepted + 1, d, CLIENT_CONNECT_ERROR, FALSE)>> \o conns
      /\ io' = io_close(u, d)
  BY <1>1, <1>2, <1>3, BegunConn DEF Refused
<1>5. PICK x : x = CLIENT_CONNECT_ERROR
  OBVIOUS
<1>6. x \in Int /\ x # -1 /\ x \notin Fds
  BY <1>5, ServerFacts DEF CLIENT_CONNECT_ERROR
<1>7. /\ Inv /\ pc = "read" /\ accepted < MaxConns /\ accepted \in 0 .. MaxConns
      /\ d \in Fds /\ owner[d] = Nobody
      /\ accepted' = accepted + 1 /\ UNCHANGED <<pc, hungup, rcvd, sent>>
      /\ owner \in [Fds -> Owners]
  BY AcceptingFacts
<1>8. e \in Fds /\ owner[e] = Nobody /\ e \notin open /\ Failed # Nobody /\ Failed \in Owners
  BY DEF Unused, open, Failed, Nobody, Owners
<1>9. /\ owner' \in [Fds -> Owners] /\ owner'[e] = Failed
      /\ \A y \in Fds : y # e => owner'[y] = owner[y]
  BY <1>7, <1>8
<1>10. Adds(open, open', e)
  BY <1>8, <1>9 DEF Adds, open
<1>11. e # server_sock
  BY <1>7, <1>8 DEF Inv, Server, Nobody
<1>12. ASSUME \A y : Listed(conns, y) => Listed(conns', y), Listed(conns', d)
       PROVE  TableOK(io', conns', open', accepted + 1)
  <2>1. Accepts(s, conns, conns', open, accepted, d)
    BY <1>12, AcceptingFacts
  <2> QED BY <2>1, <1>2, <1>3, <1>4, <1>7, <1>8, <1>10, <1>11, FailedOK
<1>13. PICK op \in BOOLEAN : op = FALSE
  OBVIOUS
<1>14. conns' = <<NewConn(accepted + 1, d, x, op)>> \o conns
  BY <1>4, <1>5, <1>13
<1>15. /\ ~op
       /\ \A y \in Fds : owner[y] # Nobody => owner'[y] = owner[y]
       /\ \A y \in Fds : owner[y] = Nobody /\ owner'[y] # Nobody =>
            owner'[y] = Failed \/ (op /\ (y = d \/ y = x))
  BY <1>8, <1>9, <1>13
<1>16. Gives(d, x, op)
  BY <1>6, <1>15 DEF Gives
<1> QED BY <1>6, <1>7, <1>9, <1>12, <1>14, <1>15, <1>16, InsertStep

\* The connection is begun.
Given(own, id, d, e) == [own EXCEPT ![d] = <<id, "client">>, ![e] = <<id, "proxy">>]

LEMMA MadeStep ==
  ASSUME NEW s, NEW d, Accepting(s, d), NEW e \in Unused, e # d,
         NEW v, v = io_wantwrite(io_nonblock(io_fd_internal(s, e, FALSE), e), e),
         io' = io_wantread(io_nonblock(io_fd_internal(v, d, FALSE), d), d),
         conns' = <<NewConn(accepted + 1, d, e, TRUE)>> \o conns,
         owner' = Given(owner, accepted + 1, d, e)
  PROVE  Inv'
<1>1. PICK nonblock : nonblock = FALSE
  OBVIOUS
<1>2. PICK f : f = io_fd_internal(s, e, nonblock)
  OBVIOUS
<1>3. PICK u : u = io_nonblock(f, e)
  OBVIOUS
<1>4. PICK g : g = io_fd_internal(v, d, nonblock)
  OBVIOUS
<1>5. PICK w : w = io_nonblock(g, d)
  OBVIOUS
<1>6. v = io_wantwrite(u, e) /\ io' = io_wantread(w, d)
  BY <1>1, <1>2, <1>3, <1>4, <1>5
<1>7. /\ Inv /\ pc = "read" /\ accepted < MaxConns /\ accepted \in 0 .. MaxConns
      /\ d \in Fds /\ owner[d] = Nobody /\ d \notin open
      /\ accepted' = accepted + 1 /\ UNCHANGED <<pc, hungup, rcvd, sent>>
      /\ owner \in [Fds -> Owners]
  BY AcceptingFacts
<1>8. e \in Fds /\ owner[e] = Nobody /\ e \notin open
  BY DEF Unused, open
<1>9. PICK x : x = <<accepted + 1, "client">>
  OBVIOUS
<1>10. PICK y : y = <<accepted + 1, "proxy">>
  OBVIOUS
<1>11. x \in Owners /\ y \in Owners /\ x # Nobody /\ y # Nobody
  <2>1. accepted + 1 \in 1 .. MaxConns
    BY <1>7, EnoughSlack
  <2>2. x \in Ends /\ y \in Ends
    BY <2>1, <1>9, <1>10, SideFacts, EndFacts
  <2> QED BY <2>2, EndFacts DEF Owners
<1>12. /\ owner' \in [Fds -> Owners] /\ owner'[d] = x /\ owner'[e] = y
       /\ \A z \in Fds : z # d /\ z # e => owner'[z] = owner[z]
  <2>1. owner' = [owner EXCEPT ![d] = x, ![e] = y]
    BY <1>9, <1>10 DEF Given
  <2> QED BY <2>1, <1>7, <1>8, <1>11
<1>14. \A z \in Fds : z \in open' <=> z \in open \/ z = d \/ z = e
  BY <1>7, <1>8, <1>11, <1>12 DEF open
<1>15. e # server_sock /\ e \in Int /\ e # -1
  BY <1>7, <1>8, ServerFacts DEF Inv, Server, Nobody
<1>16. ASSUME \A z : Listed(conns, z) => Listed(conns', z), Listed(conns', d), Listed(conns', e)
       PROVE  TableOK(io', conns', open', accepted + 1)
  <2>1. Accepts(s, conns, conns', open, accepted, d)
    BY <1>16, AcceptingFacts
  <2> QED BY <2>1, <1>2, <1>3, <1>4, <1>5, <1>6, <1>7, <1>8, <1>14, <1>15, <1>16, MadeOK
<1>17. PICK op \in BOOLEAN : op = TRUE
  OBVIOUS
<1>18. conns' = <<NewConn(accepted + 1, d, e, op)>> \o conns
  BY <1>17
<1>19. /\ op
       /\ \A z \in Fds : owner[z] # Nobody => owner'[z] = owner[z]
       /\ \A z \in Fds : owner[z] = Nobody /\ owner'[z] # Nobody =>
            owner'[z] = Failed \/ (op /\ (z = d \/ z = e))
       /\ owner'[d] = <<accepted + 1, "client">> /\ owner'[e] = <<accepted + 1, "proxy">>
  BY <1>7, <1>8, <1>9, <1>10, <1>12, <1>17
<1>20. Gives(d, e, op)
  BY <1>8, <1>19 DEF Gives
<1>21. owner' \in [Fds -> Owners] /\ e \in Int /\ e # -1
       /\ \A z \in Fds : owner[z] # Nobody => owner'[z] = owner[z]
  BY <1>12, <1>15, <1>19
<1> QED BY <1>7, <1>16, <1>18, <1>20, <1>21, InsertStep

Made(y, v, e) ==
  \/ (y.s = io_wantwrite(v, e) /\ y.sock = e)
  \/ (y.s = v /\ y.sock = CLIENT_CONNECT_ERROR)

LEMMA ConnectsFacts ==
  ASSUME NEW s, NEW e, NEW y, y \in Connects(s, e),
         NEW v, v = io_nonblock(io_fd_internal(s, e, FALSE), e)
  PROVE  Made(y, v, e)
<1>1. PICK w : w = io_wantwrite(v, e)
  OBVIOUS
<1>2. PICK err : err = CLIENT_CONNECT_ERROR
  OBVIOUS
<1>3. Connects(s, e) = {[s |-> w, sock |-> e], [s |-> v, sock |-> err]}
  BY <1>1, <1>2, Zenon DEF Connects
<1>4. y = [s |-> w, sock |-> e] \/ y = [s |-> v, sock |-> err]
  BY <1>3, Zenon
<1>5. (y.s = w /\ y.sock = e) \/ (y.s = v /\ y.sock = err)
  <2>1. CASE y = [s |-> w, sock |-> e]
    BY <2>1
  <2>2. CASE y = [s |-> v, sock |-> err]
    BY <2>2
  <2> QED BY <2>1, <2>2, <1>4
<1> QED BY <1>1, <1>2, <1>5, Zenon DEF Made

LEMMA AcceptStep == ASSUME Inv, Accept PROVE Inv'
<1>1. PICK r : r = io_canread(io)
  OBVIOUS
<1>2. PICK d : d = Min(Unused)
  OBVIOUS
<1>3. /\ pc = "read" /\ r.fd = server_sock
      /\ accepted' = accepted + 1 /\ UNCHANGED <<hungup, rcvd, sent>>
      /\ \/ /\ pc' = "accept error" /\ io' = r.s
            /\ UNCHANGED <<conns, owner>>
         \/ /\ Unused # {} /\ socket_accept(r.s, accepted + 1, d)
            /\ UNCHANGED pc
  BY <1>1, <1>2 DEF Accept
<1>4. /\ conns \in Seq(ConnType) /\ accepted \in 0 .. MaxConns /\ hungup \subseteq Ends
      /\ TableOK(io, conns, open, accepted) /\ EmptyBufs(conns) /\ Data(conns, sent, rcvd)
      /\ Lists(conns, owner, accepted) /\ Owned(conns, owner)
      /\ owner \in [Fds -> Owners] /\ owner[server_sock] = Server
      /\ server_sock \in Fds /\ server_sock # None /\ MaxConns \in Nat
  <2>1. server_sock \in Fds /\ server_sock # None
    BY ServerFacts DEF None
  <2>2. conns \in Seq(ConnType) /\ accepted \in 0 .. MaxConns
    BY InvFacts
  <2>3. MaxConns \in Nat
    BY TinyProxyAssumption
  <2>4. pc # "crash"
    BY <1>3
  <2> QED BY <2>1, <2>2, <2>3, <2>4 DEF Inv, TypeOK, Owners
<1>5. /\ TableOK(r.s, conns, open, accepted) /\ accepted < MaxConns
      /\ "r" \notin r.s.ent[server_sock].can
  BY <1>1, <1>3, <1>4, TakeOK DEF io_canread, Dirs
<1>6. CASE /\ pc' = "accept error" /\ io' = r.s
           /\ UNCHANGED <<conns, owner>>
  <2>1. PICK a : a = accepted + 1
    OBVIOUS
  <2>2. a \in 0 .. MaxConns /\ 2 * accepted \in Nat /\ 2 * a \in Nat /\ 2 * accepted <= 2 * a
    BY <2>1, <1>4, <1>5
  <2>3. Tidy(r.s, open, 2 * a)
    <3>1. PICK n \in Nat : n = 2 * accepted
      BY <2>2
    <3>2. PICK m \in Nat : m = 2 * a
      BY <2>2
    <3>3. Tidy(r.s, open, n) /\ n <= m
      BY <3>1, <3>2, <2>2, <1>5 DEF TableOK
    <3>4. Tidy(r.s, open, m)
      BY <3>3, MoreDrift
    <3> QED BY <3>2, <3>4
  <2>4. TableOK(r.s, conns, open, a)
    BY <2>3, <1>5 DEF TableOK
  <2>5. Lists(conns, owner, a)
    <3>1. \A y : y \in 1 .. accepted => y \in 1 .. a
      BY <2>1, <1>4
    <3> QED BY <3>1, <1>4 DEF Lists, ConnOK
  <2>6. open' = open
    BY <1>6 DEF open
  <2>7. /\ TableOK(io', conns', open', accepted') /\ Lists(conns', owner', accepted')
        /\ Owned(conns', owner') /\ accepted' \in 0 .. MaxConns /\ hungup' \subseteq Ends
        /\ owner' \in [Fds -> Owners] /\ owner'[server_sock] = Server
        /\ EmptyBufs(conns') /\ Data(conns', sent', rcvd')
    BY <2>1, <2>2, <2>4, <2>5, <2>6, <1>3, <1>4, <1>6
  <2>8. pc' = "accept error" /\ pc = "read"
    BY <1>3, <1>6
  <2> QED BY <2>7, <2>8, InvAfter
<1>7. CASE /\ Unused # {} /\ socket_accept(r.s, accepted + 1, d)
           /\ UNCHANGED pc
  <2>1. Unused \subseteq Fds /\ Unused \subseteq Nat
    BY ServerFacts DEF Unused
  <2>2. d \in Unused
    BY <2>1, <1>2, <1>7, MinOf
  <2>3. PICK s : s = r.s
    OBVIOUS
  <2>4. Accepting(s, d)
    BY <2>1, <2>2, <2>3, <1>3, <1>5, <1>7 DEF Accepting
  <2>5. PICK e : e = Min(Unused \ {d})
    OBVIOUS
  <2>6. PICK v : v = io_nonblock(io_fd_internal(s, e, FALSE), e)
    OBVIOUS
  <2>7. \/ /\ Refused(s, Begun(accepted + 1, d), d, CLIENT_SOCKET_ERROR)
           /\ UNCHANGED owner
        \/ /\ Unused # {d}
           /\ \E y \in Connects(s, e) :
                \/ /\ y.sock # e
                   /\ Refused(y.s, Begun(accepted + 1, d), d, y.sock)
                   /\ owner' = [owner EXCEPT ![e] = Failed]
                \/ /\ y.sock = e
                   /\ conns' = <<[Begun(accepted + 1, d) EXCEPT !.sb = [side \in Sides |->
                        [sock |-> IF side = "client" THEN d ELSE e,
                         buf |-> <<>>, op |-> TRUE]]]>> \o conns
                   /\ io' = io_wantread(io_nonblock(io_fd_internal(y.s, d, FALSE), d), d)
                   /\ owner' = [owner EXCEPT ![d] = <<accepted + 1, "client">>,
                                             ![e] = <<accepted + 1, "proxy">>]
    BY <2>3, <2>5, <1>7, Zenon DEF socket_accept, Begun
  <2>8. CASE /\ Refused(s, Begun(accepted + 1, d), d, CLIENT_SOCKET_ERROR)
             /\ UNCHANGED owner
    BY <2>4, <2>8, NoSocketStep
  <2>11. PICK w : w = io_wantwrite(v, e)
    OBVIOUS
  <2>12. PICK err : err = CLIENT_CONNECT_ERROR
    OBVIOUS
  <2>13. ASSUME NEW y \in Connects(s, e)
         PROVE  (y.s = w /\ y.sock = e) \/ (y.s = v /\ y.sock = err)
    <3>1. y \in Connects(s, e)
      OBVIOUS
    <3>2. Made(y, v, e)
      BY <3>1, <2>6, ConnectsFacts
    <3> QED BY <3>2, <2>11, <2>12, Zenon DEF Made
  <2>14. PICK bufs : bufs = [side \in Sides |-> [sock |-> IF side = "client" THEN d ELSE e,
                                                 buf |-> <<>>, op |-> TRUE]]
    OBVIOUS
  <2>15. [Begun(accepted + 1, d) EXCEPT !.sb = bufs] = NewConn(accepted + 1, d, e, TRUE)
    BY <2>14, BegunConn, Zenon
  <2>9. ASSUME Unused # {d}, NEW y \in Connects(s, e), y.sock # e,
               Refused(y.s, Begun(accepted + 1, d), d, y.sock),
               owner' = [owner EXCEPT ![e] = Failed]
        PROVE  Inv'
    <3>1. e \in Unused \ {d}
      <4>1. Unused \ {d} \subseteq Nat /\ Unused \ {d} # {}
        BY <2>1, <2>9, <1>7
      <4> QED BY <4>1, <2>5, MinOf
    <3>2. y.s = v /\ y.sock = CLIENT_CONNECT_ERROR
      <4>1. y \in Connects(s, e) /\ y.sock # e
        BY <2>9
      <4> QED BY <4>1, <2>12, <2>13, Zenon
    <3>3. Refused(v, Begun(accepted + 1, d), d, CLIENT_CONNECT_ERROR)
      BY <3>2, <2>9
    <3> QED BY <3>1, <3>3, <2>4, <2>6, <2>9, NoConnectStep
  <2>10. ASSUME Unused # {d}, NEW y \in Connects(s, e), y.sock = e,
                conns' = <<[Begun(accepted + 1, d) EXCEPT !.sb = [side \in Sides |->
                     [sock |-> IF side = "client" THEN d ELSE e,
                      buf |-> <<>>, op |-> TRUE]]]>> \o conns,
                io' = io_wantread(io_nonblock(io_fd_internal(y.s, d, FALSE), d), d),
                owner' = [owner EXCEPT ![d] = <<accepted + 1, "client">>,
                                       ![e] = <<accepted + 1, "proxy">>]
         PROVE  Inv'
    <3>1. e \in Unused \ {d}
      <4>1. Unused \ {d} \subseteq Nat /\ Unused \ {d} # {}
        BY <2>1, <2>10, <1>7
      <4> QED BY <4>1, <2>5, MinOf
    <3>2. e # CLIENT_CONNECT_ERROR
      BY <3>1, <2>1 DEF CLIENT_CONNECT_ERROR
    <3>3. y.s = io_wantwrite(v, e)
      <4>1. y \in Connects(s, e) /\ y.sock = e
        BY <2>10
      <4> QED BY <4>1, <3>2, <2>11, <2>12, <2>13, Zenon
    <3>4. conns' = <<NewConn(accepted + 1, d, e, TRUE)>> \o conns
      <4>1. conns' = <<[Begun(accepted + 1, d) EXCEPT !.sb = bufs]>> \o conns
        BY <2>10, <2>14, Zenon
      <4> QED BY <4>1, <2>15
    <3>5. owner' = Given(owner, accepted + 1, d, e)
      BY <2>10 DEF Given
    <3> QED BY <3>1, <3>3, <3>4, <3>5, <2>4, <2>6, <2>10, MadeStep
  <2> QED BY <2>7, <2>8, <2>9, <2>10
<1> QED BY <1>3, <1>6, <1>7

LEMMA InvNext == ASSUME Inv, [Next]_vars PROVE Inv'
<1>1. CASE Round
  BY <1>1, RoundStep
<1>2. CASE NoneToWrite
  BY <1>2, NoneStep
<1>3. CASE CanWrite
  BY <1>3, WriteStep
<1>4. CASE NoneToRead
  BY <1>4, NoneStep
<1>5. CASE Accept
  BY <1>5, AcceptStep
<1>6. CASE CanRead
  BY <1>6, ReadStep
<1>7. ASSUME NEW e \in Leavers, HangUp(e) PROVE Inv'
  BY <1>7, HangUpStep
<1>8. CASE UNCHANGED vars
  BY <1>8, StutterStep
<1> QED BY <1>1, <1>2, <1>3, <1>4, <1>5, <1>6, <1>7, <1>8 DEF Next, loop

-----------------------------------------------------------------------------
(* The first state: the server's socket alone is open.                     *)

LEMMA NoEntriesTidy ==
  /\ Tidy(NoEntries, {}, 0)
  /\ \A d \in Fds : NoEntries.ent[d].want = {} /\ NoEntries.ent[d].kern = {}
<1>1. NoEntries \in TableType
  <2>1. Zero \in EntryType
    BY DEF Zero, EntryType
  <2>2. [d \in Fds |-> Zero] \in [Fds -> EntryType]
    BY <2>1
  <2>3. NoNext \in [Dirs -> Fds \cup {None, 0}]
    BY DEF NoNext
  <2>4. 0 \in 0 .. Wrap - 1
    BY WrapFacts
  <2> QED BY <2>2, <2>3, <2>4 DEF NoEntries, TableType
<1>2. \A d \in Fds : NoEntries.ent[d] = Zero
  BY DEF NoEntries
<1>3. Zero.flags = {} /\ Zero.want = {} /\ Zero.can = {} /\ Zero.kern = {}
  BY DEF Zero
<1>4. \A d \in Fds : TidyEntry(NoEntries.ent[d], d \in {})
  BY <1>2, <1>3 DEF TidyEntry
<1>5. Drift(NoEntries, 0)
  <2>1. Watched(NoEntries) = {}
    BY <1>2, <1>3 DEF Watched
  <2>2. NoEntries.wanted = 0
    BY DEF NoEntries
  <2> QED BY <2>1, <2>2, FS_EmptySet DEF Drift
<1>6. Placed(NoEntries, {})
  BY <1>2, <1>3 DEF Placed
<1> QED BY <1>1, <1>2, <1>3, <1>4, <1>5, <1>6 DEF Tidy

LEMMA InvInit == ASSUME Init PROVE Inv
<1>1. server_sock \in Fds /\ \A d \in Fds : d \in Nat
  BY ServerFacts
<1>2. PICK n : n = 0
  OBVIOUS
<1>3. PICK nonblock : nonblock = FALSE
  OBVIOUS
<1>4. PICK d \in Fds : d = server_sock
  BY <1>1
<1>5. PICK s : s = NoEntries
  OBVIOUS
<1>6. PICK t : t = io_fd_internal(s, d, nonblock)
  OBVIOUS
<1>7. io = io_wantread(t, d)
  BY <1>3, <1>4, <1>5, <1>6 DEF Init
<1>8. /\ conns = <<>> /\ hungup = {} /\ accepted = 0 /\ pc = "check"
      /\ owner = [x \in Fds |-> IF x = d THEN Server ELSE Nobody]
      /\ rcvd = [e \in Ends |-> 0] /\ sent = [e \in Ends |-> <<>>]
  BY <1>4 DEF Init
<1>9. 0 \in 0 .. MaxConns /\ MaxConns \in Nat /\ Slack(n) /\ accepted \in 0 .. MaxConns
  BY <1>2, <1>8, TinyProxyAssumption, WrapFacts DEF Slack
<1>10. Server # Nobody
  BY DEF Server, Nobody
<1>11. owner \in [Fds -> Owners] /\ owner[server_sock] = Server
  BY <1>4, <1>8 DEF Owners
<1>12. \A x \in Fds : x \in open <=> x = d
  BY <1>8, <1>10 DEF open
<1>13. PICK o : o = {}
  OBVIOUS
<1>14. Tidy(s, o, n) /\ d \notin o /\ s.ent[d].kern = {} /\ \A x \in Fds : s.ent[x].want = {}
  BY <1>2, <1>5, <1>13, NoEntriesTidy
<1>15. Adds(o, open, d)
  BY <1>12, <1>13 DEF Adds
<1>16. /\ Tidy(t, open, n) /\ t.len = d + 1
       /\ \A x \in Fds \ {d} : t.ent[x] = s.ent[x]
       /\ t.ent[d].want = {} /\ t.ent[d].can = {}
       /\ d \in t.mapped
  <2>1. /\ Tidy(t, open, n) /\ t.len = d + 1
        /\ \A x \in Fds \ {d} : t.ent[x] = s.ent[x]
        /\ t.ent[d].want = {} /\ t.ent[d].can = {}
    BY <1>6, <1>9, <1>14, <1>15, FdTidy
  <2>2. d \in t.mapped
    BY <2>1, <1>12 DEF Tidy, Placed
  <2> QED BY <2>1, <2>2
<1>17. /\ Tidy(io, open, n) /\ io.len = t.len
       /\ \A x \in Fds \ {d} : io.ent[x] = t.ent[x]
       /\ io.ent[d].want = t.ent[d].want \cup {"r"}
       /\ io.ent[d].can = t.ent[d].can
  BY <1>7, <1>9, <1>16, ReadTidy
<1>18. TableOK(io, conns, open, accepted)
  <2>1. 2 * accepted = n
    BY <1>2, <1>8
  <2>2. server_sock < io.len
    BY <1>4, <1>16, <1>17, LenAfter
  <2>3. io.ent[d].want = {"r"} /\ io.ent[d].can = {}
    BY <1>16, <1>17
  <2>4. \A x \in Fds : io.ent[x].want # {} => x = server_sock
    BY <1>4, <1>14, <1>16, <1>17
  <2> QED BY <2>1, <2>2, <2>3, <2>4, <1>4, <1>17 DEF TableOK
<1>19. conns \in Seq(ConnType) /\ Len(conns) = 0 /\ \A k \in 1 .. Len(conns) : FALSE
  BY <1>8, EmptySeq
<1>20. Lists(conns, owner, accepted)
  BY <1>19 DEF Lists
<1>21. Owned(conns, owner)
  BY <1>4, <1>8 DEF Owned
<1>22. EmptyBufs(conns)
  BY <1>19 DEF EmptyBufs
<1>23. Data(conns, sent, rcvd)
  <2>1. sent \in [Ends -> Seq(Units)] /\ rcvd \in [Ends -> Nat]
    BY <1>8, EmptySeq
  <2>2. \A e \in Ends : Good(sent[e], PeerOf(e), rcvd[PeerOf(e)])
    <3>1. \A e \in Ends : sent[e] = <<>>
      BY <1>8
    <3>2. \A e, m : Good(<<>>, e, m)
      <4>1. <<>> \in Seq(Units) /\ \A k \in 1 .. Len(<<>>) : FALSE
        BY EmptySeq
      <4> QED BY <4>1 DEF Good
    <3> QED BY <3>1, <3>2
  <2> QED BY <2>1, <2>2, <1>19 DEF Data
<1>24. TypeOK
  <2>1. io \in TableType
    BY <1>17 DEF Tidy
  <2> QED BY <2>1, <1>8, <1>9, <1>11 DEF TypeOK, Owners
<1> QED BY <1>8, <1>11, <1>18, <1>20, <1>21, <1>22, <1>23, <1>24 DEF Inv

-----------------------------------------------------------------------------
\* What TLC checks on a small instance holds for every number of descriptors,
\* connections and units, every size of the buffers and every set of ends that
\* hang up.
LEMMA Invariant == Spec => []Inv
<1>1. Init => Inv
  BY InvInit
<1>2. Inv /\ [Next]_vars => Inv'
  BY InvNext
<1> QED BY <1>1, <1>2, PTL DEF Spec

\* The table, the owners of the descriptors and the counts have their types, in
\* every state the loop of tinyproxy.c reaches.
THEOREM TypeOKHolds == Spec => []TypeOK
<1>1. Inv => TypeOK
  BY DEF Inv
<1> QED BY <1>1, Invariant, PTL

\* Every descriptor that is handed out is one of a connection in the list, so
\* that server_loop never exits for one that it does not know; and socket_find
\* finds what an open socket is of, whatever numbers are used again and stay
\* listed, unless a remote socket has the number of a client that was refused.
THEOREM KnowsHolds == Spec => []Knows
<1>1. Inv => Knows
  <2>1. SUFFICES ASSUME Inv, NEW d \in open, owner[d] \in Ends, NEW at, at = socket_find(d)
                 PROVE  /\ at[1] # 0
                        /\ \/ owner[d] = <<conns[at[1]].id, at[2]>>
                           \/ /\ owner[d][2] = "proxy" /\ at[2] = "client"
                              /\ ~Op(conns[at[1]])
    BY DEF Inv, Knows, Op
  <2>2. /\ d \in Fds /\ owner[d] # Nobody /\ d # server_sock /\ owner[d] # Failed
        /\ Lists(conns, owner, accepted) /\ Owned(conns, owner)
    <3>1. \A e \in Ends : e[1] \in 1 .. MaxConns
      BY DEF Ends
    <3>2. Server[1] = 0 /\ Failed[1] = -1 /\ MaxConns \in Nat
      BY TinyProxyAssumption DEF Server, Failed
    <3>3. Server \notin Ends /\ Failed \notin Ends
      BY <3>1, <3>2
    <3> QED BY <3>3, <2>1 DEF Inv, open
  <2>3. PICK j \in 1 .. Len(conns), side \in Sides :
          Op(conns[j]) /\ Sock(j, side) = d /\ owner[d] = <<conns[j].id, side>>
    BY <2>2 DEF Owned, Sock
  <2>4. Listed(conns, d)
    BY <2>3 DEF Listed, Sock
  <2>5. /\ at[1] # 0 /\ at[1] \in 1 .. Len(conns) /\ at[2] \in Sides /\ Sock(at[1], at[2]) = d
        /\ Sock(j, "client") = d => at[2] = "client" /\ at[1] <= j
    BY <2>1, <2>2, <2>4, SocketFound
  <2>6. PICK i \in 1 .. Len(conns) : i = at[1]
    BY <2>5
  <2>7. ConnOK(conns[i], owner, accepted)
    BY <2>2 DEF Lists
  <2>8. CASE Op(conns[i])
    BY <2>5, <2>6, <2>7, <2>8 DEF ConnOK, Sock
  <2>9. CASE ~Op(conns[i])
    <3>1. at[2] = "client"
      BY <2>2, <2>5, <2>6, <2>7, <2>9 DEF ConnOK, Sock, Sides
    <3>2. ASSUME side = "client" PROVE FALSE
      <4>1. i < j
        BY <2>3, <2>5, <2>6, <2>9, <3>2
      <4>2. Disjoint(conns[i], conns[j])
        BY <4>1, <2>2, <2>3 DEF Lists
      <4> QED BY <4>2, <3>1, <3>2, <2>3, <2>5, <2>6 DEF Disjoint, Sock
    <3>3. owner[d][2] = "proxy"
      BY <3>2, <2>3 DEF Sides
    <3> QED BY <3>1, <3>3, <2>5, <2>6, <2>9
  <2> QED BY <2>8, <2>9
<1> QED BY <1>1, Invariant, PTL

\* An open socket belongs to a connection in the list or to a connect that
\* failed: connection_delete leaves none open.
THEOREM OneOwnerHolds == Spec => []OneOwner
<1>1. Inv => OneOwner
  <2>1. SUFFICES ASSUME Inv, NEW d \in open \ {server_sock}, owner[d] # Failed
                 PROVE  \E i \in DOMAIN conns, side \in Sides :
                          Sock(i, side) = d /\ owner[d] = <<conns[i].id, side>>
    BY DEF OneOwner
  <2>2. d \in Fds /\ owner[d] # Nobody /\ d # server_sock
    BY DEF open
  <2>3. Owned(conns, owner) /\ DOMAIN conns = 1 .. Len(conns)
    BY <2>1, InvFacts DEF Inv
  <2> QED BY <2>1, <2>2, <2>3 DEF Owned, Sock
<1> QED BY <1>1, Invariant, PTL

\* Every round waits for the server's socket, and io_wanted_fds never falls
\* below the number of descriptors that are watched, though sockets are closed
\* and registered again while they are watched.
THEOREM ListensHolds == Spec => []Listens
<1>1. Inv => Listens
  <2>1. SUFFICES ASSUME Inv PROVE Listens
    OBVIOUS
  <2>2. io.wanted >= Cardinality({d \in Fds : io.ent[d].kern # {}})
    <3>1. Drift(io, 2 * accepted) /\ io \in TableType
      BY <2>1 DEF Inv, TableOK, Tidy
    <3>2. io.wanted \in Nat /\ Cardinality(Watched(io)) \in Nat
      BY <3>1, WatchedFinite, WrapFacts DEF TableType
    <3>3. Cardinality(Watched(io)) <= io.wanted
      BY <3>1 DEF Drift
    <3>4. io.wanted >= Cardinality(Watched(io))
      BY <3>2, <3>3
    <3> QED BY <3>4 DEF Watched
  <2>3. ASSUME pc = "check" PROVE server_sock \in Polled(Checked)
    <3>1. \A i \in 1 .. Len(conns), side \in Sides :
            conns[i].sb[side].buf # <<>> => conns[i].sb[side].sock \in open
      BY <2>1, <2>3, InvFacts DEF Inv, EmptyBufs
    <3>2. TableOK(io, conns, open, accepted)
      BY <2>1 DEF Inv
    <3> QED BY <2>1, <3>1, <3>2, InvFacts, RoundOK
  <2> QED BY <2>2, <2>3 DEF Listens
<1> QED BY <1>1, Invariant, PTL

\* What buffer_put and the flushes send to an end comes from the other end of
\* the same connection, in the order it was received, each unit once, whatever
\* sends fail or are cut short and whichever descriptors are used again.
THEOREM InOrderHolds == Spec => []InOrder
<1>1. Inv => InOrder
  <2>1. SUFFICES ASSUME Inv, NEW e \in Ends, NEW k \in DOMAIN sent[e]
                 PROVE  /\ sent[e][k][1] = <<e[1], Peer(e[2])>>
                        /\ k > 1 => sent[e][k - 1][2] < sent[e][k][2]
    BY DEF InOrder
  <2>2. Good(sent[e], PeerOf(e), rcvd[PeerOf(e)])
    BY <2>1 DEF Inv, Data
  <2>3. sent[e] \in Seq(Units)
    BY <2>2 DEF Good
  <2>4. k \in 1 .. Len(sent[e])
    BY <2>3, LenProperties
  <2> QED BY <2>2, <2>4 DEF Good, PeerOf
<1> QED BY <1>1, Invariant, PTL
=============================================================================
