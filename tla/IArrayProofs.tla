---------------------------- MODULE IArrayProofs ----------------------------
(***************************************************************************)
(* Proofs about IArray for any number of threads, positions and pages: the *)
(* pages are owned (PagesOwned), elements stay where they are (Stable) and *)
(* are distinct (Distinct).                                                *)
(***************************************************************************)
EXTENDS IArray, TLAPS

States == {"idle", "init", "spin", "enter", "look", "link", "trim", "len"}

Typed ==
  /\ inited \in 0 .. 2
  /\ pages \in [Lists -> Seq(Pages)]
  /\ mapped \subseteq Pages
  /\ at \in [Threads -> States]
  /\ pos \in [Threads -> Nat] /\ depth \in [Threads -> Nat]
  /\ newpage \in [Threads -> Pages \cup {NoPage}]
  /\ given \subseteq [pos : Nat, element : [page : Pages, slot : Nat]]

\* Until the table is made it is empty and nobody looks at it; one thread
\* makes it.
Making ==
  /\ \A t \in Threads : at[t] = "init" => inited = 2
  /\ \A t, u \in Threads : at[t] = "init" /\ at[u] = "init" => t = u
  /\ inited # 1 =>
       /\ \A b \in Lists : pages[b] = <<>>
       /\ given = {}
       /\ \A t \in Threads : at[t] \in {"idle", "init", "spin"}

\* A thread is in its list, not beyond its element, and has a page in hand
\* only between mapping it and giving it back.
Walks ==
  \A t \in Threads :
    /\ at[t] \in {"look", "link", "trim", "len"} =>
         depth[t] * PerPage <= Row(pos[t]) /\ depth[t] <= Len(Mine(t))
    /\ at[t] \in {"trim", "len"} =>
         (depth[t] + 1) * PerPage > Row(pos[t]) /\ depth[t] < Len(Mine(t))
    /\ at[t] = "link" => newpage[t] # NoPage
    /\ at[t] \notin {"look", "link", "trim"} => newpage[t] = NoPage

IInv == Typed /\ Making /\ Walks /\ PagesOwned /\ Stable

-----------------------------------------------------------------------------
(* Arithmetic of positions.                                                *)

\* The quotient is the k with k * P <= r < (k + 1) * P.
LEMMA DivUnique ==
  ASSUME NEW r \in Nat, NEW k \in Nat, NEW P \in Nat \ {0},
         k * P <= r, (k + 1) * P > r
  PROVE  r \div P = k
<1>1. r = k * P + (r - k * P) /\ r - k * P \in 0 .. P - 1
  BY SMTT(20)
<1>2. QED
  BY <1>1, SMTT(20)

\* Division with remainder.
LEMMA DivMod ==
  ASSUME NEW r \in Int, NEW P \in Int, P > 0
  PROVE  r = P * (r \div P) + (r % P)
  BY SMTT(20)

\* Quotient and remainder are natural numbers.
LEMMA DivNat ==
  ASSUME NEW r \in Nat, NEW P \in Nat \ {0}
  PROVE  r \div P \in Nat /\ r % P \in 0 .. P - 1
  BY SMT

\* A position has a list and a row in it.
LEMMA Placed ==
  ASSUME NEW n \in Nat
  PROVE  List(n) \in Lists /\ Row(n) \in Nat
  BY DivNat, IArrayAssumption DEF List, Lists, Row

-----------------------------------------------------------------------------
(* Every part of the invariant is preserved.                               *)

\* Links take pages, and an element that is returned is in a page.
LEMMA TypedStep == IInv /\ [Next]_vars => Typed'
<1> SUFFICES ASSUME IInv, [Next]_vars PROVE Typed'
  OBVIOUS
<1> USE DEF IInv, Typed, States
<1>1. ASSUME NEW t \in Threads, NEW n \in Positions, io_fd(t, n) PROVE Typed'
  BY <1>1, IArrayAssumption DEF io_fd
<1>2. ASSUME NEW t \in Threads, iarray_init(t) PROVE Typed'
  BY <1>2 DEF iarray_init
<1>3. ASSUME NEW t \in Threads, Spin(t) PROVE Typed'
  BY <1>3 DEF Spin
<1>4. ASSUME NEW t \in Threads, Enter(t) PROVE Typed'
  BY <1>4 DEF Enter
<1>5. ASSUME NEW t \in Threads, GoOn(t)
      PROVE /\ at' \in [Threads -> States] /\ depth' \in [Threads -> Nat]
            /\ inited' = inited /\ pos' = pos /\ given' = given
  <2>1. CASE (depth[t] + 1) * PerPage > Row(pos[t])
    BY <1>5, <2>1 DEF GoOn
  <2>2. CASE ~((depth[t] + 1) * PerPage > Row(pos[t]))
    <3>1. /\ at' = [at EXCEPT ![t] = "look"] /\ depth' = [depth EXCEPT ![t] = @ + 1]
          /\ UNCHANGED <<inited, pos, given>>
      BY <1>5, <2>2, Zenon DEF GoOn
    <3>2. QED
      BY <3>1
  <2>3. QED
    BY <2>1, <2>2
<1>6. ASSUME NEW t \in Threads, Found(t) PROVE Typed'
  BY <1>5, <1>6 DEF Found
<1>7. ASSUME NEW t \in Threads, Missing(t) PROVE Typed'
  BY <1>7 DEF Missing
<1>8. ASSUME NEW t \in Threads, NoMemory(t) PROVE Typed'
  BY <1>8 DEF NoMemory
<1>9. ASSUME NEW t \in Threads, Link(t) PROVE Typed'
  <2>1. List(pos[t]) \in Lists
    BY Placed
  <2>2. newpage[t] \in Pages
    BY <1>9 DEF Link, Walks
  <2>3. pages' \in [Lists -> Seq(Pages)] /\ newpage' \in [Threads -> Pages \cup {NoPage}]
    <3>1. CASE depth[t] = Len(Mine(t))
      <4>1. /\ pages' = [pages EXCEPT ![List(pos[t])] = Append(@, newpage[t])]
            /\ newpage' = [newpage EXCEPT ![t] = NoPage]
        BY <1>9, <3>1, Zenon DEF Link
      <4>2. QED
        BY <2>1, <2>2, <4>1
    <3>2. CASE depth[t] # Len(Mine(t))
      BY <1>9, <3>2 DEF Link
    <3>3. QED
      BY <3>1, <3>2
  <2>4. QED
    BY <1>5, <1>9, <2>3 DEF Link
<1>10. ASSUME NEW t \in Threads, Trim(t) PROVE Typed'
  BY <1>10 DEF Trim
<1>11. ASSUME NEW t \in Threads, SetLen(t) PROVE Typed'
  <2>1. CASE len < pos[t] + 1
    BY <1>11, <2>1 DEF SetLen
  <2>2. CASE ~(len < pos[t] + 1)
    <3>1. Mine(t)[depth[t] + 1] \in Pages
      <4>1. depth[t] \in Nat /\ depth[t] < Len(Mine(t))
        BY <1>11 DEF SetLen, Walks
      <4>2. Mine(t) \in Seq(Pages)
        BY Placed DEF Mine
      <4>3. QED
        BY <4>1, <4>2
    <3>2. Row(pos[t]) % PerPage \in Nat
      <4>1. Row(pos[t]) \in Nat
        BY Placed
      <4>2. Row(pos[t]) % PerPage \in 0 .. PerPage - 1
        BY <4>1, DivNat, IArrayAssumption
      <4>3. QED
        BY <4>2, IArrayAssumption
    <3>3. [pos |-> pos[t], element |-> Element(pos[t], Mine(t)[depth[t] + 1])]
            \in [pos : Nat, element : [page : Pages, slot : Nat]]
      BY <3>1, <3>2 DEF Element
    <3>4. QED
      <4>1. /\ at' = [at EXCEPT ![t] = "idle"]
            /\ given' = given \cup
                 {[pos |-> pos[t], element |-> Element(pos[t], Mine(t)[depth[t] + 1])]}
            /\ UNCHANGED <<inited, pages, mapped, pos, depth, newpage>>
        BY <1>11, <2>2, Zenon DEF SetLen
      <4>2. QED
        BY <3>3, <4>1
  <2>3. QED
    BY <2>1, <2>2
<1>12. ASSUME iarray_free PROVE Typed'
  BY <1>12 DEF iarray_free, thread
<1>13. ASSUME UNCHANGED vars PROVE Typed'
  BY <1>13 DEF vars, thread
<1>14. QED
  BY <1>1, <1>2, <1>3, <1>4, <1>6, <1>7, <1>8, <1>9, <1>10, <1>11, <1>12, <1>13
  DEF Next, Step, iarray_allocate

\* io_fd lets one thread make the table, and no thread in before it is made.
LEMMA MakingStep == IInv /\ [Next]_vars => Making'
<1> SUFFICES ASSUME IInv, [Next]_vars PROVE Making'
  OBVIOUS
<1> USE DEF IInv, Typed, States
<1>1. ASSUME NEW t \in Threads, NEW n \in Positions, io_fd(t, n) PROVE Making'
  <2>1. CASE inited = 0
    BY <1>1, <2>1 DEF io_fd, Making
  <2>2. CASE inited # 0
    BY <1>1, <2>2 DEF io_fd, Making
  <2>3. QED
    BY <2>1, <2>2
<1>2. ASSUME NEW t \in Threads, iarray_init(t) PROVE Making'
  BY <1>2 DEF iarray_init, Making
<1>3. ASSUME NEW t \in Threads, Spin(t) PROVE Making'
  BY <1>3 DEF Spin, Making
<1>4. ASSUME NEW t \in Threads, at[t] \notin {"idle", "init", "spin"},
             NEW s \in States \ {"init"}, at' = [at EXCEPT ![t] = s], inited' = inited
      PROVE Making'
  <2>1. inited = 1
    BY <1>4 DEF Making
  <2>2. QED
    BY <1>4, <2>1 DEF Making
<1>5. ASSUME NEW t \in Threads, at[t] \notin {"idle", "init", "spin"}, GoOn(t)
      PROVE Making'
  <2>1. inited' = inited /\ \/ at' = [at EXCEPT ![t] = "trim"]
                            \/ at' = [at EXCEPT ![t] = "look"]
    BY <1>5, Zenon DEF GoOn
  <2>2. QED
    BY <1>4, <1>5, <2>1
<1>6. ASSUME NEW t \in Threads, iarray_allocate(t) PROVE Making'
  <2>1. CASE Enter(t)
    BY <1>4, <2>1 DEF Enter
  <2>2. CASE Found(t)
    BY <1>5, <2>2 DEF Found
  <2>3. CASE Missing(t)
    BY <1>4, <2>3 DEF Missing
  <2>4. CASE NoMemory(t)
    BY <1>4, <2>4 DEF NoMemory
  <2>5. CASE Link(t)
    BY <1>5, <2>5 DEF Link
  <2>6. CASE Trim(t)
    BY <1>4, <2>6 DEF Trim
  <2>7. CASE SetLen(t)
    <3>1. inited' = inited /\ (at' = at \/ at' = [at EXCEPT ![t] = "idle"])
      BY <2>7, Zenon DEF SetLen
    <3>2. CASE at' = at
      <4>1. at[t] = "len" /\ at' = [at EXCEPT ![t] = "len"]
        BY <2>7, <3>2 DEF SetLen
      <4>2. QED
        BY <1>4, <3>1, <4>1
    <3>3. CASE at' = [at EXCEPT ![t] = "idle"]
      BY <1>4, <2>7, <3>1, <3>3 DEF SetLen
    <3>4. QED
      BY <3>1, <3>2, <3>3
  <2>8. QED
    BY <1>6, <2>1, <2>2, <2>3, <2>4, <2>5, <2>6, <2>7 DEF iarray_allocate
<1>7. ASSUME iarray_free PROVE Making'
  BY <1>7 DEF iarray_free, thread, Making
<1>8. ASSUME UNCHANGED vars PROVE Making'
  BY <1>8 DEF vars, thread, Making
<1>9. QED
  BY <1>1, <1>2, <1>3, <1>6, <1>7, <1>8 DEF Next, Step

-----------------------------------------------------------------------------
(* The lists only grow, except when the table is freed.                    *)

Grows ==
  \A b \in Lists : /\ Len(pages[b]) <= Len(pages'[b])
                   /\ \A i \in 1 .. Len(pages[b]) : pages'[b][i] = pages[b][i]

\* Link is the only action that changes a list, and it appends.
LEMMA LinkAppends ==
  ASSUME IInv, NEW t \in Threads, Link(t)
  PROVE  \/ /\ depth[t] = Len(Mine(t))
            /\ pages' = [pages EXCEPT ![List(pos[t])] = Append(@, newpage[t])]
            /\ newpage' = [newpage EXCEPT ![t] = NoPage]
         \/ /\ depth[t] < Len(Mine(t))
            /\ UNCHANGED <<pages, newpage>>
<1>1. depth[t] <= Len(Mine(t)) /\ depth[t] \in Nat /\ Len(Mine(t)) \in Nat
  <2>1. Mine(t) \in Seq(Pages)
    BY Placed DEF IInv, Typed, Mine
  <2>2. QED
    BY <2>1 DEF IInv, Typed, Walks, Link
<1>2. CASE depth[t] = Len(Mine(t))
  BY <1>2, Zenon DEF Link
<1>3. CASE depth[t] # Len(Mine(t))
  <2>1. UNCHANGED <<pages, newpage>>
    BY <1>3, Zenon DEF Link
  <2>2. QED
    BY <1>1, <1>3, <2>1
<1>4. QED
  BY <1>2, <1>3

\* A step that is not iarray_free leaves every page where it is.
LEMMA PagesGrow ==
  ASSUME IInv, NEW t \in Threads, Step(t) \/ \E n \in Positions : io_fd(t, n)
  PROVE  Grows
<1>1. ASSUME pages' = pages PROVE Grows
  BY <1>1 DEF Grows, IInv, Typed
<1>2. CASE iarray_init(t)
  <2>1. \A b \in Lists : pages[b] = <<>> /\ pages'[b] = <<>>
    BY <1>2 DEF iarray_init, IInv, Making
  <2>2. QED
    BY <2>1 DEF Grows
<1>3. CASE Link(t)
  <2>1. CASE pages' = pages
    BY <1>1, <2>1
  <2>2. CASE pages' = [pages EXCEPT ![List(pos[t])] = Append(@, newpage[t])]
    <3>1. newpage[t] \in Pages
      BY <1>3 DEF Link, IInv, Walks, Typed
    <3>2. QED
      BY <2>2, <3>1 DEF Grows, IInv, Typed
  <2>3. QED
    BY <1>3, <2>1, <2>2, LinkAppends
<1>4. QED
  BY <1>1, <1>2, <1>3
  DEF Step, iarray_allocate, Spin, Enter, Found, Missing, NoMemory, Trim, SetLen, io_fd

\* A thread stays within its list and on the way to its element.
LEMMA WalksStep == IInv /\ [Next]_vars => Walks'
<1> SUFFICES ASSUME IInv, [Next]_vars PROVE Walks'
  OBVIOUS
<1> DEFINE Fine(t) ==
      /\ at[t] \in {"look", "link", "trim", "len"} =>
           depth[t] * PerPage <= Row(pos[t]) /\ depth[t] <= Len(Mine(t))
      /\ at[t] \in {"trim", "len"} =>
           (depth[t] + 1) * PerPage > Row(pos[t]) /\ depth[t] < Len(Mine(t))
      /\ at[t] = "link" => newpage[t] # NoPage
      /\ at[t] \notin {"look", "link", "trim"} => newpage[t] = NoPage
<1>a. \A t \in Threads : Fine(t)
  BY DEF IInv, Walks
<1>b. SUFFICES \A t \in Threads : Fine(t)'
  BY DEF Walks
<1>c. ASSUME Grows, NEW u \in Threads,
             at'[u] = at[u], depth'[u] = depth[u], pos'[u] = pos[u],
             newpage'[u] = newpage[u]
      PROVE Fine(u)'
  <2>1. List(pos[u]) \in Lists
    BY Placed DEF IInv, Typed
  <2>2. Mine(u)' = pages'[List(pos[u])]
    BY <1>c DEF Mine
  <2>3. Len(Mine(u)) <= Len(Mine(u)')
    BY <1>c, <2>1, <2>2 DEF Grows, Mine
  <2>4. Len(Mine(u)) \in Nat /\ Len(Mine(u)') \in Nat /\ depth[u] \in Nat
    BY <2>1, <2>2, TypedStep DEF IInv, Typed, Mine
  <2>5. Row(pos[u])' = Row(pos[u])
    BY <1>c DEF Row
  <2>6. Fine(u)
    BY <1>a
  <2>7. depth[u] <= Len(Mine(u)) => depth[u] <= Len(Mine(u)')
    BY <2>3, <2>4
  <2>8. depth[u] < Len(Mine(u)) => depth[u] < Len(Mine(u)')
    BY <2>3, <2>4
  <2>9. QED
    BY <1>c, <2>5, <2>6, <2>7, <2>8, Zenon
<1>0. ASSUME NEW t \in Threads, NEW u \in Threads, u # t, Step(t) \/ \E n \in Positions : io_fd(t, n)
      PROVE Fine(u)'
  <2>1. /\ at'[u] = at[u] /\ depth'[u] = depth[u] /\ pos'[u] = pos[u]
        /\ newpage'[u] = newpage[u]
    BY <1>0, LinkAppends DEF Step, iarray_allocate, io_fd, iarray_init, Spin, Enter, Found,
       Missing, NoMemory, Link, Trim, SetLen, GoOn, IInv, Typed
  <2>2. Grows
    BY <1>0, PagesGrow
  <2>3. QED
    BY <1>c, <2>1, <2>2
<1> USE DEF IInv, Typed, States
<1>d. \A t \in Threads : Row(pos[t]) \in Nat /\ List(pos[t]) \in Lists
  BY Placed
<1>e. \A t \in Threads : Mine(t) \in Seq(Pages) /\ Len(Mine(t)) \in Nat /\ depth[t] \in Nat
  BY <1>d DEF Mine
<1>1. ASSUME NEW t \in Threads, NEW n \in Positions, io_fd(t, n) PROVE Fine(t)'
  BY <1>1, <1>a DEF io_fd
<1>2. ASSUME NEW t \in Threads, iarray_init(t) PROVE Fine(t)'
  BY <1>2, <1>a DEF iarray_init
<1>3. ASSUME NEW t \in Threads, Spin(t) PROVE Fine(t)'
  BY <1>3, <1>a DEF Spin
<1>4. ASSUME NEW t \in Threads, Enter(t) PROVE Fine(t)'
  <2>1. at'[t] = "look" /\ depth'[t] = 0 /\ pos' = pos /\ pages' = pages
    BY <1>4 DEF Enter
  <2>2. 0 * PerPage <= Row(pos[t])
    BY <1>d, IArrayAssumption
  <2>3. Row(pos[t])' = Row(pos[t]) /\ Mine(t)' = Mine(t)
    BY <2>1 DEF Row, Mine
  <2>4. QED
    BY <1>e, <2>1, <2>2, <2>3
\* From a place with a page.
<1>5. ASSUME NEW t \in Threads, at[t] \in {"look", "link"}, GoOn(t),
             Mine(t)' \in Seq(Pages), depth[t] < Len(Mine(t)')
      PROVE Fine(t)'
  <2>1. Row(pos[t])' = Row(pos[t]) /\ depth[t] * PerPage <= Row(pos[t])
    BY <1>5, <1>a DEF GoOn, Row
  <2>2. depth[t] \in Nat /\ Len(Mine(t)') \in Nat
    BY <1>5
  <2>3. CASE (depth[t] + 1) * PerPage > Row(pos[t])
    <3>1. at'[t] = "trim" /\ depth'[t] = depth[t]
      BY <1>5, <2>3 DEF GoOn
    <3>2. depth[t] <= Len(Mine(t)')
      BY <1>5, <2>2
    <3>3. QED
      BY <1>5, <2>1, <2>3, <3>1, <3>2, Zenon
  <2>4. CASE ~((depth[t] + 1) * PerPage > Row(pos[t]))
    <3>1. at' = [at EXCEPT ![t] = "look"] /\ depth' = [depth EXCEPT ![t] = @ + 1]
      BY <1>5, <2>4, Zenon DEF GoOn
    <3>2. at'[t] = "look" /\ depth'[t] = depth[t] + 1
      BY <3>1
    <3>3. (depth[t] + 1) * PerPage \in Nat
      BY <2>2, IArrayAssumption
    <3>4. (depth[t] + 1) * PerPage <= Row(pos[t])
      BY <1>d, <2>4, <3>3
    <3>5. depth[t] + 1 <= Len(Mine(t)')
      BY <1>5, <2>2
    <3>6. QED
      BY <2>1, <3>2, <3>4, <3>5
  <2>5. QED
    BY <2>3, <2>4
<1>6. ASSUME NEW t \in Threads, Found(t) PROVE Fine(t)'
  <2>1. Mine(t)' = Mine(t)
    BY <1>6 DEF Found, GoOn, Mine
  <2>2. QED
    BY <1>5, <1>6, <1>e, <2>1 DEF Found
<1>7. ASSUME NEW t \in Threads, Missing(t) PROVE Fine(t)'
  <2>1. /\ at[t] = "look" /\ at'[t] = "link" /\ depth' = depth /\ newpage'[t] # NoPage
        /\ Row(pos[t])' = Row(pos[t]) /\ Mine(t)' = Mine(t)
    BY <1>7, IArrayAssumption DEF Missing, Row, Mine
  <2>2. QED
    BY <1>a, <2>1
<1>8. ASSUME NEW t \in Threads, NoMemory(t) PROVE Fine(t)'
  BY <1>8 DEF NoMemory
<1>9. ASSUME NEW t \in Threads, Link(t) PROVE Fine(t)'
  <2>1. pos' = pos /\ GoOn(t) /\ at[t] = "link"
    BY <1>9, Zenon DEF Link, GoOn
  <2>2. Mine(t)' = pages'[List(pos[t])] /\ Mine(t)' \in Seq(Pages)
    BY <2>1, <1>d, TypedStep DEF Mine
  <2>3. depth[t] < Len(Mine(t)')
    <3>1. CASE UNCHANGED <<pages, newpage>> /\ depth[t] < Len(Mine(t))
      BY <2>2, <3>1 DEF Mine
    <3>2. CASE /\ depth[t] = Len(Mine(t))
               /\ pages' = [pages EXCEPT ![List(pos[t])] = Append(@, newpage[t])]
      <4>1. Mine(t)' = Append(Mine(t), newpage[t])
        BY <1>d, <2>2, <3>2 DEF Mine
      <4>2. newpage[t] \in Pages
        BY <1>a, <2>1
      <4>3. QED
        BY <1>e, <3>2, <4>1, <4>2
    <3>3. QED
      BY <1>9, <3>1, <3>2, LinkAppends
  <2>4. QED
    BY <1>5, <2>1, <2>2, <2>3
<1>10. ASSUME NEW t \in Threads, Trim(t) PROVE Fine(t)'
  <2>1. /\ at[t] = "trim" /\ at'[t] = "len" /\ depth' = depth /\ newpage'[t] = NoPage
        /\ Row(pos[t])' = Row(pos[t]) /\ Mine(t)' = Mine(t)
    BY <1>10 DEF Trim, Row, Mine
  <2>2. QED
    BY <1>a, <2>1
<1>11. ASSUME NEW t \in Threads, SetLen(t) PROVE Fine(t)'
  <2>1. /\ at[t] = "len" /\ at'[t] \in {"len", "idle"} /\ depth' = depth
        /\ newpage' = newpage /\ Row(pos[t])' = Row(pos[t]) /\ Mine(t)' = Mine(t)
    BY <1>11 DEF SetLen, Row, Mine
  <2>2. QED
    BY <1>a, <2>1
<1>12. ASSUME iarray_free, NEW u \in Threads PROVE Fine(u)'
  BY <1>12, <1>a DEF iarray_free, thread
<1>13. ASSUME UNCHANGED vars, NEW u \in Threads PROVE Fine(u)'
  <2>1. Grows
    BY <1>13 DEF vars, Grows
  <2>2. QED
    BY <1>13, <1>c, <2>1 DEF vars, thread
<1>14. ASSUME NEW t \in Threads, Step(t) PROVE Fine(t)'
  BY <1>2, <1>3, <1>4, <1>6, <1>7, <1>8, <1>9, <1>10, <1>11, <1>14
  DEF Step, iarray_allocate
<1>15. QED
  BY <1>0, <1>1, <1>12, <1>13, <1>14 DEF Next

-----------------------------------------------------------------------------
(* The pages.                                                              *)

\* What is linked, place by place.
LEMMA LinkedPlaces ==
  \A p : p \in Linked <=> \E b \in Lists : \E i \in DOMAIN pages[b] : pages[b][i] = p
  BY DEF Linked, Range

\* No step loses a page or puts one in two places.
LEMMA OwnedStep == IInv /\ [Next]_vars => PagesOwned'
<1> SUFFICES ASSUME IInv, [Next]_vars PROVE PagesOwned'
  OBVIOUS
<1>1. ASSUME UNCHANGED <<pages, mapped, newpage>> PROVE PagesOwned'
  BY <1>1 DEF IInv, PagesOwned, Linked, Held
<1>2. ASSUME NEW t \in Threads, iarray_init(t) PROVE PagesOwned'
  <2>1. pages' = pages
    BY <1>2 DEF iarray_init, IInv, Typed, Making
  <2>2. QED
    BY <1>1, <1>2, <2>1 DEF iarray_init
<1>3. ASSUME NEW t \in Threads, Enter(t) PROVE PagesOwned'
  <2>1. newpage' = newpage
    BY <1>3 DEF Enter, IInv, Typed, Walks
  <2>2. QED
    BY <1>1, <1>3, <2>1 DEF Enter
<1>4. ASSUME NEW t \in Threads, Missing(t) PROVE PagesOwned'
  <2>1. CASE UNCHANGED <<mapped, newpage>>
    BY <1>1, <1>4, <2>1 DEF Missing
  <2>2. ASSUME newpage[t] = NoPage, NEW p \in Pages \ mapped, mapped' = mapped \cup {p},
               newpage' = [newpage EXCEPT ![t] = p]
        PROVE PagesOwned'
    <3>1. pages' = pages /\ Linked' = Linked
      BY <1>4 DEF Missing, Linked
    <3>2. Held' = Held \cup {p}
      BY <2>2, IArrayAssumption DEF Held, IInv, Typed
    <3>3. p \notin Linked /\ p \notin Held
      BY <2>2 DEF IInv, PagesOwned
    <3>4. \A u \in Threads : newpage[u] # p
      BY <2>2, <3>3, IArrayAssumption DEF Held
    <3>5. \A u, v \in Threads : newpage'[u] = newpage'[v] /\ newpage'[u] # NoPage => u = v
      BY <2>2, <3>4 DEF IInv, Typed, PagesOwned
    <3>6. QED
      BY <2>2, <3>1, <3>2, <3>3, <3>5 DEF IInv, PagesOwned
  <2>3. QED
    BY <1>4, <2>1, <2>2 DEF Missing
<1>5. ASSUME NEW t \in Threads, Link(t) PROVE PagesOwned'
  <2>1. CASE UNCHANGED <<pages, newpage>>
    BY <1>1, <1>5, <2>1 DEF Link
  <2>2. CASE /\ pages' = [pages EXCEPT ![List(pos[t])] = Append(@, newpage[t])]
             /\ newpage' = [newpage EXCEPT ![t] = NoPage]
    <3> DEFINE p == newpage[t]
               l == List(pos[t])
    <3>1. p \in Pages /\ p # NoPage /\ p \in Held /\ l \in Lists
      BY <1>5, Placed, IArrayAssumption DEF Link, IInv, Typed, Walks, Held
    <3>2. pages[l] \in Seq(Pages) /\ pages'[l] = Append(pages[l], p)
      BY <2>2, <3>1 DEF IInv, Typed
    <3>3. \A b \in Lists : b # l => pages'[b] = pages[b]
      BY <2>2 DEF IInv, Typed
    <3> DEFINE n == Len(pages[l]) + 1
    <3>4. /\ DOMAIN pages[l] = 1 .. Len(pages[l]) /\ DOMAIN pages'[l] = 1 .. n
          /\ pages'[l][n] = p /\ n \in Nat
          /\ \A i \in DOMAIN pages[l] : pages'[l][i] = pages[l][i] /\ i \in DOMAIN pages'[l]
          /\ \A i \in DOMAIN pages'[l] : i = n \/ i \in DOMAIN pages[l]
      BY <3>1, <3>2
    <3>5. \A b \in Lists : \A i \in DOMAIN pages[b] : pages[b][i] # p
      BY <3>1, LinkedPlaces DEF IInv, PagesOwned
    <3>6. Linked' = Linked \cup {p}
      <4>1. \A q : q \in Linked' <=>
                    \E b \in Lists : \E i \in DOMAIN pages'[b] : pages'[b][i] = q
        BY DEF Linked, Range
      <4>2. ASSUME NEW q, q \in Linked' PROVE q \in Linked \cup {p}
        <5>1. PICK b \in Lists : \E i \in DOMAIN pages'[b] : pages'[b][i] = q
          BY <4>1, <4>2
        <5>2. CASE b = l
          BY <3>4, <5>1, <5>2, LinkedPlaces
        <5>3. CASE b # l
          BY <3>3, <5>1, <5>3, LinkedPlaces
        <5>4. QED
          BY <5>2, <5>3
      <4>3. ASSUME NEW q, q \in Linked PROVE q \in Linked'
        <5>1. PICK b \in Lists : \E i \in DOMAIN pages[b] : pages[b][i] = q
          BY <4>3, LinkedPlaces
        <5>2. CASE b = l
          BY <3>4, <4>1, <5>1, <5>2
        <5>3. CASE b # l
          BY <3>3, <4>1, <5>1, <5>3
        <5>4. QED
          BY <5>2, <5>3
      <4>4. p \in Linked'
        <5>1. n \in DOMAIN pages'[l] /\ pages'[l][n] = p
          BY <3>4
        <5>2. QED
          BY <3>1, <4>1, <5>1
      <4>5. QED
        BY <4>2, <4>3, <4>4
    <3>7. Held' = Held \ {p}
      BY <2>2, <3>1 DEF Held, IInv, Typed, PagesOwned
    <3>8. \A u, v \in Threads : newpage'[u] = newpage'[v] /\ newpage'[u] # NoPage => u = v
      BY <2>2 DEF IInv, Typed, PagesOwned
    <3>9. ASSUME NEW b \in Lists, NEW c \in Lists,
                 NEW i \in DOMAIN pages'[b], NEW j \in DOMAIN pages'[c],
                 pages'[b][i] = pages'[c][j]
          PROVE b = c /\ i = j
      <4>1. (b = l /\ i = n) \/ (i \in DOMAIN pages[b] /\ pages'[b][i] = pages[b][i])
        BY <3>3, <3>4
      <4>2. (c = l /\ j = n) \/ (j \in DOMAIN pages[c] /\ pages'[c][j] = pages[c][j])
        BY <3>3, <3>4
      <4>3. QED
        BY <3>4, <3>5, <3>9, <4>1, <4>2 DEF IInv, PagesOwned
    <3>10. mapped' = mapped
      BY <1>5 DEF Link
    <3>11. mapped' = Linked' \cup Held' /\ Linked' \cap Held' = {}
      BY <3>1, <3>6, <3>7, <3>10 DEF IInv, PagesOwned
    <3>12. QED
      BY <3>8, <3>9, <3>11 DEF PagesOwned
  <2>3. QED
    BY <1>5, <2>1, <2>2, LinkAppends
<1>6. ASSUME NEW t \in Threads, Trim(t) PROVE PagesOwned'
  <2>1. pages' = pages /\ Linked' = Linked
    BY <1>6 DEF Trim, Linked
  <2>2. Held' = Held \ {newpage[t]}
    BY <1>6 DEF Trim, Held, IInv, Typed, PagesOwned
  <2>3. newpage[t] \notin Linked
    BY SMTT(30), IArrayAssumption DEF IInv, Typed, PagesOwned, Held
  <2>4. \A u, v \in Threads : newpage'[u] = newpage'[v] /\ newpage'[u] # NoPage => u = v
    BY <1>6 DEF Trim, IInv, Typed, PagesOwned
  <2>5. mapped' = mapped \ {newpage[t]}
    BY <1>6 DEF Trim
  <2>6. QED
    BY <2>1, <2>2, <2>3, <2>4, <2>5 DEF IInv, PagesOwned
<1>7. ASSUME iarray_free PROVE PagesOwned'
  <2>1. newpage' = newpage /\ Held' = Held /\ mapped' = mapped \ Linked
    BY <1>7 DEF iarray_free, thread, Linked, Held
  <2>2. \A b \in Lists : pages'[b] = <<>>
    BY <1>7 DEF iarray_free
  <2>3. Linked' = {}
    BY <2>2 DEF Linked, Range
  <2>4. QED
    BY <2>1, <2>2, <2>3 DEF IInv, PagesOwned
<1>8. QED
  BY <1>1, <1>2, <1>3, <1>4, <1>5, <1>6, <1>7
  DEF Next, Step, iarray_allocate, io_fd, Spin, Found, NoMemory, SetLen, vars,
      thread

-----------------------------------------------------------------------------
(* The elements.                                                           *)

\* Where iarray_get looks.
Depth(n) == Row(n) \div PerPage

\* The page of a position is a natural number.
LEMMA DepthNat ==
  ASSUME NEW n \in Nat
  PROVE  Depth(n) \in Nat
  BY Placed, DivNat, IArrayAssumption DEF Depth

\* An element that iarray_get has found is found again when the lists have
\* grown.
LEMMA FoundAgain ==
  ASSUME IInv, Grows, NEW n \in Nat, iarray_get(n) # NoElement
  PROVE  iarray_get(n)' = iarray_get(n)
<1> DEFINE d == Depth(n)
           l == List(n)
<1>1. d \in Nat /\ l \in Lists
  BY DepthNat, Placed
<1>2. d < Len(pages[l])
  BY DEF iarray_get, Depth
<1>3. pages[l] \in Seq(Pages) /\ Len(pages[l]) \in Nat
  BY <1>1 DEF IInv, Typed
<1>4. d + 1 \in 1 .. Len(pages[l])
  BY <1>1, <1>2, <1>3
<1>5. pages'[l][d + 1] = pages[l][d + 1] /\ Len(pages[l]) <= Len(pages'[l])
  BY <1>1, <1>4 DEF Grows
<1>6. d < Len(pages'[l])
  <2> HIDE DEF d, l
  <2>1. ASSUME NEW L, Len(pages[l]) <= L, L \in Nat PROVE d < L
    BY <1>1, <1>2, <1>3, <2>1
  <2>2. QED
    BY <1>5, <2>1
<1>7. iarray_get(n) = Element(n, pages[l][d + 1])
  BY <1>2 DEF iarray_get, Depth
<1>8. iarray_get(n)' = Element(n, pages'[l][d + 1])
  BY <1>6 DEF iarray_get, Depth, Element, Row, List
<1>9. QED
  BY <1>5, <1>7, <1>8

\* A returned element is found by iarray_get from then on.
LEMMA StableStep == IInv /\ [Next]_vars => Stable'
<1> SUFFICES ASSUME IInv, [Next]_vars PROVE Stable'
  OBVIOUS
<1>1. ASSUME NEW g \in given, Grows PROVE iarray_get(g.pos)' = g.element
  <2>1. g.pos \in Nat /\ g.element \in [page : Pages, slot : Nat]
    BY DEF IInv, Typed
  <2>2. iarray_get(g.pos) = g.element
    BY DEF IInv, Stable
  <2>3. g.element # NoElement
    BY <2>1, IArrayAssumption DEF NoElement
  <2>4. QED
    BY <1>1, <2>1, <2>2, <2>3, FoundAgain
<1>2. ASSUME Grows, given' = given PROVE Stable'
  BY <1>1, <1>2 DEF Stable
<1>3. ASSUME NEW t \in Threads, SetLen(t) PROVE Stable'
  <2>1. Grows /\ pages' = pages /\ pos' = pos /\ depth' = depth
    BY <1>3, PagesGrow DEF Step, iarray_allocate, SetLen
  <2> DEFINE new == [pos |-> pos[t], element |-> Element(pos[t], Mine(t)[depth[t] + 1])]
  <2>2. given' = given \/ given' = given \cup {new}
    BY <1>3, Zenon DEF SetLen
  <2>3. iarray_get(pos[t]) = new.element
    <3>1. /\ depth[t] * PerPage <= Row(pos[t]) /\ (depth[t] + 1) * PerPage > Row(pos[t])
          /\ depth[t] < Len(Mine(t))
      BY <1>3 DEF IInv, Walks, SetLen
    <3>2. depth[t] \in Nat /\ pos[t] \in Nat
      BY DEF IInv, Typed
    <3>3. Depth(pos[t]) = depth[t]
      BY <3>1, <3>2, Placed, DivUnique, IArrayAssumption DEF Depth
    <3>4. QED
      BY <3>1, <3>3 DEF iarray_get, Depth, Mine
  <2>4. iarray_get(new.pos)' = new.element
    BY <2>1, <2>3 DEF iarray_get, Element, Mine, Row, List
  <2>5. QED
    BY <1>1, <2>1, <2>2, <2>4 DEF Stable
<1>4. ASSUME iarray_free PROVE Stable'
  BY <1>4 DEF iarray_free, Stable
<1>5. ASSUME NEW t \in Threads, Step(t), ~SetLen(t) PROVE given' = given
  BY <1>5 DEF Step, iarray_allocate, iarray_init, Spin, Enter, Found, GoOn, Missing,
              NoMemory, Link, Trim
<1>6. ASSUME UNCHANGED vars PROVE Grows /\ given' = given
  BY <1>6 DEF vars, Grows, IInv, Typed
<1>7. ASSUME NEW t \in Threads, NEW n \in Positions, io_fd(t, n) PROVE Grows /\ given' = given
  BY <1>7, PagesGrow DEF io_fd
<1>8. ASSUME NEW t \in Threads, Step(t) PROVE Stable'
  BY <1>2, <1>3, <1>5, <1>8, PagesGrow
<1>9. QED
  BY <1>2, <1>4, <1>6, <1>7, <1>8 DEF Next

\* Pages that are in one place each give every position its own element.
LEMMA OwnedDistinct == IInv => Distinct
<1> SUFFICES ASSUME IInv, NEW m \in Positions, NEW n \in Positions,
                    iarray_get(m) # NoElement, iarray_get(m) = iarray_get(n)
             PROVE m = n
  BY DEF Distinct
<1>1. /\ m \in Nat /\ n \in Nat /\ Row(m) \in Nat /\ Row(n) \in Nat
      /\ List(m) \in Lists /\ List(n) \in Lists /\ Depth(m) \in Nat /\ Depth(n) \in Nat
  BY IArrayAssumption, Placed, DepthNat
<1>2. /\ Depth(m) < Len(pages[List(m)])
      /\ iarray_get(m) = Element(m, pages[List(m)][Depth(m) + 1])
  BY DEF iarray_get, Depth
<1>3. /\ Depth(n) < Len(pages[List(n)])
      /\ iarray_get(n) = Element(n, pages[List(n)][Depth(n) + 1])
  BY DEF iarray_get, Depth
<1>4. /\ pages[List(m)][Depth(m) + 1] = pages[List(n)][Depth(n) + 1]
      /\ Row(m) % PerPage = Row(n) % PerPage
  <2>1. ASSUME NEW p, NEW q, Element(m, p) = Element(n, q)
        PROVE p = q /\ Row(m) % PerPage = Row(n) % PerPage
    <3>1. Element(m, p).page = Element(n, q).page /\ Element(m, p).slot = Element(n, q).slot
      BY <2>1
    <3>2. QED
      BY <3>1 DEF Element
  <2>2. QED
    BY <1>2, <1>3, <2>1
<1>5. Depth(m) + 1 \in DOMAIN pages[List(m)] /\ Depth(n) + 1 \in DOMAIN pages[List(n)]
  BY <1>1, <1>2, <1>3 DEF IInv, Typed
<1>6. List(m) = List(n) /\ Depth(m) + 1 = Depth(n) + 1
  <2>1. \A b, c \in Lists : \A i \in DOMAIN pages[b], j \in DOMAIN pages[c] :
          pages[b][i] = pages[c][j] => b = c /\ i = j
    BY DEF IInv, PagesOwned
  <2>2. QED
    BY <1>1, <1>4, <1>5, <2>1
<1>7. Depth(m) = Depth(n)
  BY <1>1, <1>6
<1>8. Row(m) = Row(n)
  BY <1>1, <1>4, <1>7, DivMod, IArrayAssumption DEF Depth
<1>9. QED
  BY <1>1, <1>6, <1>8, DivMod, IArrayAssumption DEF Row, List

-----------------------------------------------------------------------------
(* The theorems.                                                           *)

\* Before the first call of io_fd.
LEMMA InitIInv == Init => IInv
<1> SUFFICES ASSUME Init PROVE IInv
  OBVIOUS
<1>1. Typed /\ Making
  BY DEF Init, Typed, States, Making
<1>2. Walks
  BY DEF Init, Walks
<1>3. PagesOwned
  BY DEF Init, PagesOwned, Linked, Held, Range
<1>4. Stable
  BY DEF Init, Stable
<1>5. QED
  BY <1>1, <1>2, <1>3, <1>4 DEF IInv

\* The invariant of iarray_allocate and of the table's making.
LEMMA IInvHolds == Spec => []IInv
<1>1. IInv /\ [Next]_vars => IInv'
  BY TypedStep, MakingStep, WalksStep, OwnedStep, StableStep DEF IInv
<1>2. QED
  BY InitIInv, <1>1, PTL DEF Spec

\* However many threads compete in iarray_allocate for the links of the
\* lists, each page they map stays in exactly one place.
THEOREM PagesOwnedHolds == Spec => []PagesOwned
<1>1. IInv => PagesOwned
  BY DEF IInv
<1>2. QED
  BY IInvHolds, <1>1, PTL

\* What iarray_allocate has returned for a descriptor is what iarray_get
\* finds for it ever after, in every thread.
THEOREM StableHolds == Spec => []Stable
<1>1. IInv => Stable
  BY DEF IInv
<1>2. QED
  BY IInvHolds, <1>1, PTL

\* Two descriptors never share an element of the table.
THEOREM DistinctHolds == Spec => []Distinct
  BY IInvHolds, OwnedDistinct, PTL
=============================================================================
