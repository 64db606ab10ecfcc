------------------------------ MODULE MCNsCache -----------------------------
(* TLC instances of NsCache.                                               *)
EXTENDS NsCache
=============================================================================
