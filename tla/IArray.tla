------------------------------- MODULE IArray -------------------------------
(***************************************************************************)
(* The table of file descriptors of lib/io, an iarray (src/lib/iarray) that *)
(* several threads extend without locks.                                   *)
(*                                                                         *)
(* Element n is in list n % FanOut of pages.  The pages of a list never    *)
(* move: a thread that misses one maps it and links it with a compare and  *)
(* swap, and keeps the page for the next link if another was faster.  Then *)
(* it sets len with a second compare and swap.  The table is made by the   *)
(* first thread that calls io_fd.                                          *)
(*                                                                         *)
(* A list is the sequence of its pages; the pointer p of iarray_allocate   *)
(* is the number of pages before it, so that *p is null when p is the      *)
(* length of the list.  A step of a thread is a read or a write of what    *)
(* the threads share, with the local work that follows.                    *)
(***************************************************************************)
EXTENDS Integers, Sequences, SequencesExt

CONSTANTS
  Threads,
  Positions,   \* the descriptors that threads register
  FanOut,      \* lists of pages, 16 in the code
  PerPage,     \* elemperpage
  Pages,       \* pages that mmap can give
  NoPage,      \* the null pointer
  MaxCalls     \* bound: calls of io_fd

ASSUME IArrayAssumption ==
  /\ Positions \subseteq Nat
  /\ FanOut \in Nat \ {0} /\ PerPage \in Nat \ {0}
  /\ NoPage \notin Pages
  /\ MaxCalls \in Nat

VARIABLES
  inited,      \* io_fds_inited: 0, 2 while a thread makes the table, then 1
  pages,       \* pages[b]: list b
  len,
  mapped,      \* the pages that are mapped
  calls,
  \* The threads:
  at,          \* what the thread does next
  pos, depth,  \* the element it looks for; the pages before p
  newpage, prevlen,
  \* History:
  given        \* the elements that were returned

thread == <<at, pos, depth, newpage, prevlen>>
vars == <<inited, pages, len, mapped, calls, thread, given>>

Lists == 0 .. FanOut - 1
List(n) == n % FanOut

\* The place of element n in its list.
Row(n) == n \div FanOut

\* Mutant: the place in the page is that of the whole position.
Element_Whole(n, p) == [page |-> p, slot |-> n % PerPage]

\* The element of page p that position n has.
Element(n, p) == [page |-> p, slot |-> Row(n) % PerPage]
NoElement == [page |-> NoPage, slot |-> 0]

iarray_get(n) ==
  LET d == Row(n) \div PerPage
  IN  IF d < Len(pages[List(n)]) THEN Element(n, pages[List(n)][d + 1])
                                 ELSE NoElement

-----------------------------------------------------------------------------
(* io_fd: the table is made once.                                          *)

io_fd(t, n) ==
  /\ at[t] = "idle" /\ calls < MaxCalls
  /\ calls' = calls + 1
  /\ pos' = [pos EXCEPT ![t] = n]
  /\ inited' = IF inited = 0 THEN 2 ELSE inited
  /\ at' = [at EXCEPT ![t] = IF inited = 0 THEN "init" ELSE "spin"]
  /\ UNCHANGED <<pages, len, mapped, depth, newpage, prevlen, given>>

iarray_init(t) ==
  /\ at[t] = "init"
  /\ pages' = [b \in Lists |-> <<>>]
  /\ len' = 0
  /\ inited' = 1
  /\ at' = [at EXCEPT ![t] = "enter"]
  /\ UNCHANGED <<mapped, calls, pos, depth, newpage, prevlen, given>>

Spin(t) ==
  /\ at[t] = "spin" /\ inited = 1
  /\ at' = [at EXCEPT ![t] = "enter"]
  /\ UNCHANGED <<inited, pages, len, mapped, calls, pos, depth, newpage, prevlen,
                 given>>

-----------------------------------------------------------------------------
(* iarray_allocate.                                                        *)

Enter(t) ==
  /\ at[t] = "enter"
  /\ prevlen' = [prevlen EXCEPT ![t] = len]
  /\ depth' = [depth EXCEPT ![t] = 0]
  /\ newpage' = [newpage EXCEPT ![t] = NoPage]
  /\ at' = [at EXCEPT ![t] = "look"]
  /\ UNCHANGED <<inited, pages, len, mapped, calls, pos, given>>

Mine(t) == pages[List(pos[t])]

\* There is a page at p: it is the right one, or p goes on to its next.
GoOn(t) ==
  /\ IF (depth[t] + 1) * PerPage > Row(pos[t])
       THEN /\ at' = [at EXCEPT ![t] = "trim"]
            /\ UNCHANGED depth
       ELSE /\ at' = [at EXCEPT ![t] = "look"]
            /\ depth' = [depth EXCEPT ![t] = @ + 1]
  /\ UNCHANGED <<inited, len, calls, pos, prevlen, given>>

Found(t) ==
  /\ at[t] = "look" /\ depth[t] < Len(Mine(t))
  /\ GoOn(t)
  /\ UNCHANGED <<pages, mapped, newpage>>

\* No page: take the one that is left over, or map one.
Missing(t) ==
  /\ at[t] = "look" /\ depth[t] = Len(Mine(t))
  /\ \/ newpage[t] # NoPage /\ UNCHANGED <<mapped, newpage>>
     \/ /\ newpage[t] = NoPage
        /\ \E p \in Pages \ mapped :
             /\ mapped' = mapped \cup {p}
             /\ newpage' = [newpage EXCEPT ![t] = p]
  /\ at' = [at EXCEPT ![t] = "link"]
  /\ UNCHANGED <<inited, pages, len, calls, pos, depth, prevlen, given>>

\* mmap fails: null is returned.
NoMemory(t) ==
  /\ at[t] = "look" /\ depth[t] = Len(Mine(t)) /\ newpage[t] = NoPage
  /\ at' = [at EXCEPT ![t] = "idle"]
  /\ UNCHANGED <<inited, pages, len, mapped, calls, pos, depth, newpage, prevlen,
                 given>>

\* Mutant: the link is stored without comparing.
Link_Store(t) ==
  /\ at[t] = "link"
  /\ pages' = [pages EXCEPT ![List(pos[t])] = SubSeq(@, 1, depth[t]) \o <<newpage[t]>>]
  /\ newpage' = [newpage EXCEPT ![t] = NoPage]
  /\ GoOn(t)
  /\ UNCHANGED mapped

\* Mutant: the link is tried again until it is the thread's own.
Link_Again(t) ==
  /\ at[t] = "link"
  /\ IF depth[t] = Len(Mine(t))
       THEN /\ pages' = [pages EXCEPT ![List(pos[t])] = Append(@, newpage[t])]
            /\ newpage' = [newpage EXCEPT ![t] = NoPage]
            /\ GoOn(t)
            /\ UNCHANGED mapped
       ELSE UNCHANGED vars

Link(t) ==
  /\ at[t] = "link"
  /\ IF depth[t] = Len(Mine(t))
       THEN /\ pages' = [pages EXCEPT ![List(pos[t])] = Append(@, newpage[t])]
            /\ newpage' = [newpage EXCEPT ![t] = NoPage]
       ELSE UNCHANGED <<pages, newpage>>
  /\ GoOn(t)
  /\ UNCHANGED mapped

\* Mutant: the page that was not needed is forgotten.
Trim_Leak(t) ==
  /\ at[t] = "trim"
  /\ newpage' = [newpage EXCEPT ![t] = NoPage]
  /\ at' = [at EXCEPT ![t] = "len"]
  /\ UNCHANGED <<inited, pages, len, mapped, calls, pos, depth, prevlen, given>>

\* A page that was not needed is unmapped.
Trim(t) ==
  /\ at[t] = "trim"
  /\ mapped' = mapped \ {newpage[t]}
  /\ newpage' = [newpage EXCEPT ![t] = NoPage]
  /\ at' = [at EXCEPT ![t] = "len"]
  /\ UNCHANGED <<inited, pages, len, calls, pos, depth, prevlen, given>>

\* One turn of the loop that sets len.  prevlen is not read again.
SetLen(t) ==
  /\ at[t] = "len"
  /\ len' = IF len = prevlen[t] THEN pos[t] + 1 ELSE len
  /\ IF len < pos[t] + 1
       THEN UNCHANGED <<at, given>>
       ELSE /\ at' = [at EXCEPT ![t] = "idle"]
            /\ given' = given \cup
                 {[pos |-> pos[t], element |-> Element(pos[t], Mine(t)[depth[t] + 1])]}
  /\ UNCHANGED <<inited, pages, mapped, calls, pos, depth, newpage, prevlen>>

\* No thread uses the table any more.  len stays.
iarray_free ==
  /\ \A t \in Threads : at[t] = "idle"
  /\ inited = 1
  /\ mapped' = mapped \ UNION {Range(pages[b]) : b \in Lists}
  /\ pages' = [b \in Lists |-> <<>>]
  /\ given' = {}
  /\ UNCHANGED <<inited, len, calls, thread>>

-----------------------------------------------------------------------------

Init ==
  /\ inited = 0
  /\ pages = [b \in Lists |-> <<>>] /\ len = 0
  /\ mapped = {} /\ calls = 0
  /\ at = [t \in Threads |-> "idle"]
  /\ pos = [t \in Threads |-> 0]
  /\ depth = [t \in Threads |-> 0]
  /\ newpage = [t \in Threads |-> NoPage]
  /\ prevlen = [t \in Threads |-> 0]
  /\ given = {}

iarray_allocate(t) ==
  \/ Enter(t) \/ Found(t) \/ Missing(t) \/ NoMemory(t) \/ Link(t) \/ Trim(t)
  \/ SetLen(t)

Step(t) == iarray_init(t) \/ Spin(t) \/ iarray_allocate(t)

Next == \/ \E t \in Threads : Step(t) \/ \E n \in Positions : io_fd(t, n)
        \/ iarray_free

Spec == Init /\ [][Next]_vars

\* Every thread in a call gets the processor again and again.
FairSpec == Spec /\ \A t \in Threads : WF_vars(Step(t))

-----------------------------------------------------------------------------
(* Properties.                                                             *)

Linked == UNION {Range(pages[b]) : b \in Lists}
Held == {newpage[t] : t \in Threads} \ {NoPage}

TypeOK ==
  /\ inited \in 0 .. 2 /\ len \in Nat /\ calls \in 0 .. MaxCalls
  /\ pages \in [Lists -> Seq(Pages)]
  /\ mapped \subseteq Pages
  /\ at \in [Threads -> {"idle", "init", "spin", "enter", "look", "link", "trim",
                         "len"}]
  /\ pos \in [Threads -> Nat] /\ depth \in [Threads -> Nat]
  /\ newpage \in [Threads -> Pages \cup {NoPage}]
  /\ prevlen \in [Threads -> Nat]

\* Every mapped page is in one place of one list, or one thread has it in
\* hand; none is lost when threads compete for a link.
PagesOwned ==
  /\ mapped = Linked \cup Held
  /\ Linked \cap Held = {}
  /\ \A t, u \in Threads : newpage[t] = newpage[u] /\ newpage[t] # NoPage => t = u
  /\ \A b, c \in Lists : \A i \in DOMAIN pages[b], j \in DOMAIN pages[c] :
       pages[b][i] = pages[c][j] => b = c /\ i = j

\* What iarray_allocate has returned for a position is where iarray_get finds
\* it ever after, so that all threads mean the same element.
Stable == \A g \in given : iarray_get(g.pos) = g.element

\* No two positions share an element.
Distinct ==
  \A m, n \in Positions :
    iarray_get(m) # NoElement /\ iarray_get(m) = iarray_get(n) => m = n

\* A thread gets as far as its element however many others compete with it.
WalkEnds ==
  \A t \in Threads :
    at[t] \in {"init", "spin", "enter", "look", "link", "trim"} ~> at[t] \in {"len", "idle"}
=============================================================================
