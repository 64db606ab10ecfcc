---------------------------- MODULE MCTinyProxy ----------------------------
(* TLC instances of TinyProxy.                                             *)
EXTENDS TinyProxy

\* The first client sends two units, the remote end of the fourth connection one.
MCUnits == [e \in Ends |-> CASE e = <<1, "client">> -> 2
                             [] e = <<4, "proxy">> -> 1
                             [] OTHER -> 0]

MCLeavers == {<<2, "proxy">>}
=============================================================================
