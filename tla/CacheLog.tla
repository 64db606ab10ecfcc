------------------------------ MODULE CacheLog ------------------------------
(***************************************************************************)
(* What the cache of src/cache.c promises, without its memory layout: a    *)
(* log of entries.  cache_set appends at its end; to make room it drops    *)
(* from its beginning, so an entry never outlives a newer one; and it      *)
(* gives up only on an entry that does not fit even when nothing is left.  *)
(***************************************************************************)
EXTENDS Sequences

CONSTANTS
  Item,       \* [key, data, expire] of the entries
  Volatile    \* a restart loses the log

VARIABLES
  log,        \* the entries that can be found, the oldest first
  pending     \* a cache_set has been called and has stored nothing yet

logVars == <<log, pending>>

LogInit == log = << >> /\ pending = FALSE

Request == ~pending /\ pending' = TRUE /\ UNCHANGED log

Drop == pending /\ log # << >> /\ log' = Tail(log) /\ UNCHANGED pending

Put(e) == pending /\ log' = Append(log, e) /\ pending' = FALSE

Refuse == pending /\ log = << >> /\ pending' = FALSE /\ UNCHANGED log

Lose == Volatile /\ ~pending /\ log' = << >> /\ UNCHANGED pending

LogNext == Request \/ Drop \/ (\E e \in Item : Put(e)) \/ Refuse \/ Lose

LogSpec == LogInit /\ [][LogNext]_logVars
=============================================================================
