------------------------------ MODULE MCMqFile ------------------------------
(* MqFile with both servers and every misfortune. *)
EXTENDS MqFile, TLC

CONSTANTS c1, c2

TwoClients == {c1, c2}
AnyFile == {0, 1, MaxBlocks, Missing}
AllKinds == {"fork", "notify"}
AllMishaps == {"none", "kill", "fork", "create", "read"}
=============================================================================
