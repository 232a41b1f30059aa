---------------------------- MODULE MCSvmsgFile ----------------------------
(* Instances of the System V message queue file server.                    *)
EXTENDS SvmsgFile, TLC

CONSTANTS c1, c2, s1, s2

TwoClients == {c1, c2}
TwoServers == {s1, s2}
AllFaults == {"readError", "longEnd", "interrupt", "kill", "childKill", "fork", "start"}
NoFaults == {}
LongEnd == {"longEnd"}

\* Clients may be exchanged, and so may servers (safety runs only).
Symmetry == Permutations(TwoClients) \cup Permutations(TwoServers)

AnyFile == 0..MaxBlocks \cup {Missing}
ExistingFile == 0..MaxBlocks
=============================================================================
