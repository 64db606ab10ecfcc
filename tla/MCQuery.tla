------------------------------ MODULE MCQuery -------------------------------
(* TLC instances of Query: the zones . and c, the names a and b in c,      *)
(* localhost, and o, the name of the loopback address.                     *)
EXTENDS Query

MCPath == [n \in Names |-> CASE n = "." -> <<".">>
                             [] n \in {"a", "b"} -> <<n, "c", ".">>
                             [] OTHER -> <<n, ".">>]
MCRootServers == [n \in Roots |-> <<9>>]

Nothing == [rcode |-> 0, out |-> FALSE, ips |-> <<>>, cname |-> NoName,
            soa |-> FALSE, referral |-> NoName, ns |-> <<>>, extra |-> {}]

Glue == Record("A", "b", <<2>>)

MCPackets ==
  {[Nothing EXCEPT !.out = TRUE, !.ips = <<1>>, !.referral = "c", !.ns = <<"localhost">>],
   [Nothing EXCEPT !.cname = "a"],
   [Nothing EXCEPT !.cname = "b"],
   [Nothing EXCEPT !.rcode = 3, !.soa = TRUE],
   [Nothing EXCEPT !.soa = TRUE],
   [Nothing EXCEPT !.referral = "c", !.ns = <<"b">>, !.extra = {Glue}],
   [Nothing EXCEPT !.referral = "c", !.ns = <<"localhost", "b">>],
   [Nothing EXCEPT !.referral = "a", !.ns = <<"b">>]}

MCForeign == {[type |-> "NS", name |-> "c", data |-> <<"b", "localhost">>, zone |-> "."],
              [type |-> "CNAME", name |-> "b", data |-> <<"a">>, zone |-> "c"]}

\* The same, for a cache in front of the configured servers of c and a.
MCForeignForward == {[type |-> "CNAME", name |-> "b", data |-> <<"a">>, zone |-> "c"]}
=============================================================================
