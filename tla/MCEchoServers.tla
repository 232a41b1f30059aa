---------------------------- MODULE MCEchoServers ----------------------------
(* EchoServers with every server, two TCP clients and one UDP client. *)
EXTENDS EchoServers, TLC

CONSTANTS t1, t2, u1

TwoTcp == {t1, t2}
OneUdp == {u1}
AllKinds == Mux \cup PerConnection
AllMishaps == {"none", "fork", "drop", "kill"}
=============================================================================
