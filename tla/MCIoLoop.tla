------------------------------ MODULE MCIoLoop ------------------------------
(* TLC instances of IoLoop.                                                *)
EXTENDS IoLoop

\* Descriptor 0 is only read from.
MCUses == [d \in Fds |-> IF d = 0 THEN {"r"} ELSE Dirs]
=============================================================================
