------------------------------- MODULE MCCaa -------------------------------
(***************************************************************************)
(* A small instance of CaaLookup: a host of three labels, and every way    *)
(* its levels, servers and resolv.conf can differ in what the walk and the *)
(* failover tell apart.                                                    *)
(***************************************************************************)
EXTENDS CaaLookup

MCServers  == {"s1", "s2", "s3", "s4", "p1", "p2"}
MCFallback == <<"p1", "p2">>
MCRecords  == {"issue", "iodef"}

Depth == 3

Confs == {<<>>, <<"s1">>, <<NoServer, "s1", NoServer, "s2", "s3", "s4">>}

\* The first two servers of either list behave in any way; the third answers or
\* refuses, the fourth is never asked.
MCKinds == {[s \in MCServers |-> CASE s \in {"s1", "p1"} -> k1
                                   [] s \in {"s2", "p2"} -> k2
                                   [] s = "s3" -> k3
                                   [] OTHER -> "good"] :
              k1 \in Kinds, k2 \in Kinds, k3 \in {"good", "refuses"}}

MCLookups ==
  {[depth |-> Depth, broken |-> b, zone |-> z, big |-> g, conf |-> c, kind |-> k] :
     b \in 0..1, z \in [1..Depth -> {{}, MCRecords}], g \in {{}, {1}}, c \in Confs, k \in MCKinds}
=============================================================================
