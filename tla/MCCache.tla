------------------------------ MODULE MCCache ------------------------------
(* TLC instances of Cache and CacheCrash.                                  *)
EXTENDS CacheRefinesLog, CacheCrash

CONSTANTS k1, k2, k3, short, long, huge

\* Two keys share bucket 0, the third has bucket 4 (when there are two).
MCKeyLen == [k \in Keys |-> 3]
MCKeyHash == [k \in Keys |-> IF k = k3 THEN HSize - 4 ELSE 0]
MCDataLen == [d \in Data |-> IF d = short THEN 4
                             ELSE IF d = long THEN 30 ELSE 110]
=============================================================================
