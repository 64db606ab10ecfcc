--------------------------- MODULE MCDnsTransmit ----------------------------
(* TLC instances of DnsTransmit.                                           *)
EXTENDS DnsTransmit

MCtimeouts == [l \in 0 .. NLoops - 1 |-> IF l = 0 THEN 1 ELSE 4 * l - 1]
=============================================================================
