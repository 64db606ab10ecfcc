-------------------------- MODULE CacheRefinesLog ---------------------------
(* The ring of Cache implements the log of CacheLog: the live entries in   *)
(* the order of their ranks are the log, and a call is pending until its   *)
(* entry is published by SetHead.                                          *)
EXTENDS Cache

\* What the log keeps of the entry at p.
ItemAt(p) == [key |-> entry[p].key, data |-> entry[p].data,
              expire |-> entry[p].expire]

\* The live entries stored before p, and the i-th in the order of storing.
Before(p) == {q \in Live : Rank(q) < Rank(p)}

Nth(i) == CHOOSE p \in Live : Cardinality(Before(p)) = i - 1

LogOf == [i \in 1 .. Cardinality(Live) |-> ItemAt(Nth(i))]

L == INSTANCE CacheLog WITH
       Item     <- [key : Keys, data : Data,
                    expire : {n + t : n \in Clock, t \in 0 .. MaxTTL}],
       Volatile <- ~UseFile,
       log      <- LogOf,
       pending  <- call.pc \in {"room", "store", "head"}

\* cache_set appends and drops from the other end only, one entry at a time
\* and only while it makes room for its own; it gives up only with nothing
\* left to drop; a restart on a file loses nothing.
RefinesLog == L!LogSpec
=============================================================================
