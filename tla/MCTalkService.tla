---------------------------- MODULE MCTalkService ----------------------------
(* Instances of the talk service.  A client's name is the client itself,    *)
(* which keeps the clients interchangeable.                                 *)
EXTENDS TalkService, TLC

CONSTANTS c1, c2

TwoClients == {c1, c2}
OwnNames == [c \in TwoClients |-> c]
AllFaults == {"interrupt", "kill", "fork"}
Interrupts == {"interrupt"}
=============================================================================
