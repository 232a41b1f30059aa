------------------------------ MODULE Exercises ------------------------------
(***************************************************************************)
(* The programs that share nothing with one another, side by side: each     *)
(* behaviour runs one of them, and the others are never started.            *)
(***************************************************************************)
EXTENDS MultiSigchld, SemCopy, FileLocks, SignalReceivers, DirMonitor, PathNames, ChildPairs,
        JoinThreads, AppendWriters, SocketHelpers

CONSTANT Programs   \* the programs that may be run

ASSUME ProgramAssumption ==
  Programs \subseteq {"26.5", "53.1", "55.2", "55.4", "signals", "19.1", "31.2", "44.1", "26.4",
               "30.4", "5.3", "inet_sockets"}

VARIABLE program   \* the one that is

vars == <<program, reapVars, copyVars, flockVars, probeVars, signalVars, monitorVars, pathVars,
          pipeVars, syncVars, joinVars, appendVars, helperVars>>

Init ==
  /\ program \in Programs
  /\ ReapInit /\ CopyInit
  /\ FlockInit /\ ProbeInit /\ SignalInit /\ MonitorInit /\ PathInit
  /\ PipeInit /\ SyncInit /\ JoinInit /\ AppendInit /\ HelperInit

Next ==
  \/ /\ program = "26.5" /\ ReapNext
     /\ UNCHANGED <<copyVars, flockVars, probeVars, signalVars, monitorVars, pathVars,
                    pipeVars, syncVars, joinVars, appendVars, helperVars>>
  \/ /\ program = "53.1" /\ CopyNext
     /\ UNCHANGED <<reapVars, flockVars, probeVars, signalVars, monitorVars, pathVars,
                    pipeVars, syncVars, joinVars, appendVars, helperVars>>
  \/ /\ program = "55.2" /\ FlockNext
     /\ UNCHANGED <<reapVars, copyVars, probeVars, signalVars, monitorVars, pathVars,
                    pipeVars, syncVars, joinVars, appendVars, helperVars>>
  \/ /\ program = "55.4" /\ ProbeNext
     /\ UNCHANGED <<reapVars, copyVars, flockVars, signalVars, monitorVars, pathVars,
                    pipeVars, syncVars, joinVars, appendVars, helperVars>>
  \/ /\ program = "signals" /\ SignalNext
     /\ UNCHANGED <<reapVars, copyVars, flockVars, probeVars, monitorVars, pathVars,
                    pipeVars, syncVars, joinVars, appendVars, helperVars>>
  \/ /\ program = "19.1" /\ MonitorNext
     /\ UNCHANGED <<reapVars, copyVars, flockVars, probeVars, signalVars, pathVars,
                    pipeVars, syncVars, joinVars, appendVars, helperVars>>
  \/ /\ program = "31.2" /\ PathNext
     /\ UNCHANGED <<reapVars, copyVars, flockVars, probeVars, signalVars, monitorVars,
                    pipeVars, syncVars, joinVars, appendVars, helperVars>>
  \/ /\ program = "44.1" /\ PipeNext
     /\ UNCHANGED <<reapVars, copyVars, flockVars, probeVars, signalVars, monitorVars,
                    pathVars, syncVars, joinVars, appendVars, helperVars>>
  \/ /\ program = "26.4" /\ SyncNext
     /\ UNCHANGED <<reapVars, copyVars, flockVars, probeVars, signalVars, monitorVars,
                    pathVars, pipeVars, joinVars, appendVars, helperVars>>
  \/ /\ program = "30.4" /\ JoinNext
     /\ UNCHANGED <<reapVars, copyVars, flockVars, probeVars, signalVars, monitorVars,
                    pathVars, pipeVars, syncVars, appendVars, helperVars>>
  \/ /\ program = "5.3" /\ AppendNext
     /\ UNCHANGED <<reapVars, copyVars, flockVars, probeVars, signalVars, monitorVars,
                    pathVars, pipeVars, syncVars, joinVars, helperVars>>
  \/ /\ program = "inet_sockets" /\ HelperNext
     /\ UNCHANGED <<reapVars, copyVars, flockVars, probeVars, signalVars, monitorVars,
                    pathVars, pipeVars, syncVars, joinVars, appendVars>>

\* The fairness of a program that is not started asks for nothing.
Spec ==
  /\ Init /\ [][Next /\ UNCHANGED program]_vars
  /\ ReapFairness /\ CopyFairness
  /\ FlockFairness /\ SignalFairness /\ PairFairness
  /\ JoinFairness /\ HelperFairness
=============================================================================
