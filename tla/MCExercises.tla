---------------------------- MODULE MCExercises ----------------------------
(* A small instance of every program of Exercises.                         *)
EXTENDS Exercises

EitherEnd == {"parent", "child"}
AllPrograms ==
  {"26.5", "53.1", "55.2", "55.4", "signals", "19.1", "31.2", "44.1", "26.4", "30.4", "5.3",
   "inet_sockets"}
SocketPrograms == {"inet_sockets"}
=============================================================================
