---------------------------- MODULE MCKeyServer ----------------------------
(* KeyServer with two servers on one key.                                  *)
EXTENDS KeyServer

CONSTANTS c1, c2, s1, s2

TwoClients == {c1, c2}
TwoServers == {s1, s2}
ShortFiles == {1, Missing}
AllFaults == {"fork", "longEnd", "kill", "childKill"}
=============================================================================
