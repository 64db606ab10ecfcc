------------------------------- MODULE IoLoop -------------------------------
(***************************************************************************)
(* Any program that uses the event loop of lib/io: it registers open       *)
(* descriptors, says what it wants of them, waits, asks which are ready,   *)
(* reads, writes and closes them, in any order.                            *)
(*                                                                         *)
(* The kernel's part is a choice: which descriptors poll reports, and what *)
(* a read or a write does.  A closed descriptor that is polled is reported *)
(* (POLLNVAL).                                                             *)
(***************************************************************************)
EXTENDS IoTable

CONSTANTS
  Blocking,    \* the descriptors that are not in non-blocking mode
  MaxRash,     \* bound: see rash
  Uses         \* Uses[d]: what the program does with d, reading or writing or both

ASSUME IoLoopAssumption ==
  /\ Blocking \subseteq Fds
  /\ MaxRash \in Nat
  /\ Uses \in [Fds -> SUBSET Dirs]

VARIABLES
  io,          \* the table
  open,        \* the open descriptors
  \* History:
  rash,        \* how often the program gave up its interest in a descriptor that
               \* was ready for it, or used io_fd_canwrite
  news,        \* what was reported of the open descriptors and not yet handed out
  ret          \* what io_canread or io_canwrite returned last

vars == <<io, open, rash, news, ret>>

NoReturn == <<"r", None>>

Init ==
  /\ io = NoEntries
  /\ open = {}
  /\ rash = 0
  /\ news = {}
  /\ ret = NoReturn

\* A descriptor is opened and registered.
Register(d) ==
  /\ d \notin open
  /\ open' = open \cup {d}
  /\ \/ /\ io' = io_fd_internal(io, d, d \notin Blocking)
        /\ UNCHANGED <<news, rash>>
     \/ /\ "w" \in Uses[d] /\ rash < MaxRash
        /\ rash' = rash + 1
        /\ io' = io_fd_canwrite(io, d, d \notin Blocking)
        /\ news' = news \cup {<<"w", d>>}
  /\ ret' = NoReturn

\* The calls that leave the history alone.
Calls(d) ==
  {io_eagain(io, d)} \cup
  (IF "r" \notin Uses[d] THEN {}
   ELSE {io_wantread(io, d), io_eagain_read(io, d)} \cup io_tryread(io, d)) \cup
  (IF "w" \notin Uses[d] THEN {}
   ELSE {io_wantwrite(io, d), io_eagain_write(io, d)} \cup io_trywrite(io, d))

Call(d) ==
  /\ d \in open
  /\ io' \in Calls(d)
  /\ ret' = NoReturn
  /\ UNCHANGED <<open, rash, news>>

GiveUp(dir, d) ==
  /\ d \in open /\ dir \in Uses[d]
  /\ rash' = rash + IF dir \in io.ent[d].can THEN 1 ELSE 0
  /\ rash' <= MaxRash
  /\ io' = IF dir = "r" THEN io_dontwantread(io, d) ELSE io_dontwantwrite(io, d)
  /\ ret' = NoReturn
  /\ UNCHANGED <<open, news>>

\* Interest in the one direction is exchanged for interest in the other.
Exchange(dir, d) ==
  /\ d \in open /\ Uses[d] = Dirs
  /\ rash' = rash + IF Other(dir) \in io.ent[d].can THEN 1 ELSE 0
  /\ rash' <= MaxRash
  /\ io' = IF dir = "r" THEN io_onlywantread(io, d) ELSE io_onlywantwrite(io, d)
  /\ ret' = NoReturn
  /\ UNCHANGED <<open, news>>

Close(d) ==
  /\ d \in open
  /\ open' = open \ {d}
  /\ io' = io_close(io, d)
  /\ news' = {x \in news : x[2] # d}
  /\ ret' = NoReturn
  /\ UNCHANGED rash

Wait ==
  /\ \E rev \in Findings(io) :
       /\ \A d \in Polled(io) \ open : rev[d] = io.ent[d].want
       /\ io' = io_waituntil2(io, rev)
       /\ news' = IF io.wanted = 0 THEN news
                  ELSE news \cup {x \in Dirs \X open : x[2] \in Readied(rev, x[1])}
  /\ ret' = NoReturn
  /\ UNCHANGED <<open, rash>>

HandOut(dir) ==
  LET r == IF dir = "r" THEN io_canread(io) ELSE io_canwrite(io)
  IN  /\ io' = r.s
      /\ ret' = <<dir, r.fd>>
      /\ news' = news \ {ret'}
      /\ UNCHANGED <<open, rash>>

Next ==
  \/ \E d \in Fds : Register(d) \/ Call(d) \/ Close(d)
  \/ \E d \in Fds, dir \in Dirs : GiveUp(dir, d) \/ Exchange(dir, d)
  \/ Wait
  \/ \E dir \in Dirs : HandOut(dir)

Spec == Init /\ [][Next]_vars

-----------------------------------------------------------------------------
TypeOK ==
  /\ io \in TableType
  /\ open \subseteq Fds
  /\ rash \in 0 .. MaxRash
  /\ news \subseteq Dirs \X open
  /\ ret \in Dirs \X (Fds \cup {None})

\* An event is handed out once, and only to the descriptor that had it: when
\* io_canread or io_canwrite returns a descriptor that is open, poll has
\* reported it since it was registered, and it was not returned since.  A
\* number that is closed and opened again inherits nothing, though its entry
\* may still be in the queues, even twice.
Fresh == [][ret'[2] \in open => ret' \in news]_vars

\* io_wanted_fds, without which io_waituntil2 returns at once, is the number
\* of descriptors the kernel is to watch.
WantedCount ==
  rash = 0 => io.wanted = Cardinality({d \in Fds : io.ent[d].kern # {}})

\* io_close ends the program's interest: no closed descriptor is returned.
NoStranger == rash = 0 /\ ret[2] # None => ret[2] \in open

\* After a wait, all that poll reported is in the queues, whatever they were
\* before: asking until -1 returns all of it.
AllQueued ==
  [][\A dir \in Dirs :
       Wait /\ io.wanted # 0 =>
         {d \in Polled(io) : Ready(io', dir, d)} \subseteq InQueue(io', dir)]_vars

\* io_dontwantread and io_dontwantwrite assert that the kernel watches a
\* descriptor that is ready.  They are right, the first time.
AssertsHold == rash = 0 => \A d \in open : io.ent[d].can \subseteq io.ent[d].kern
=============================================================================
