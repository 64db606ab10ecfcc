----------------------------- MODULE CacheCrash -----------------------------
(* Cache with a process that is killed inside cache_set and started again  *)
(* on the same file.  nscache installs no signal handler, so the SIGTERM   *)
(* that stops the daemon can arrive between any two stores.                *)
EXTENDS Cache

\* The kill in cache_update may come after its first or its second store.
TornHeader ==
  IF call.pc = "update"
  THEN {header, <<writer, header[2], header[3]>>, <<writer, oldest, header[3]>>}
  ELSE {header}

\* The mapped file keeps what was stored in it; cache_open reads the
\* registers from it and checks nothing.
Killed ==
  /\ UseFile
  /\ status = "ok"
  /\ call # Idle
  /\ \E hd \in TornHeader : Load(heads, entry, hd)

CrashNext == Next \/ Killed

CrashSpec == Init /\ [][CrashNext]_vars
=============================================================================
