---------------------------- MODULE MultiSigchld ----------------------------
(***************************************************************************)
(* practice/26.5/multi_SIGCHLD.c: a parent forks one child per command     *)
(* line argument, keeps SIGCHLD blocked except inside sigsuspend(), and    *)
(* reaps in the handler every child that has terminated.  SIGCHLD is a     *)
(* standard signal, so exits that happen while one is pending coalesce.    *)
(***************************************************************************)
EXTENDS Integers, FiniteSets

CONSTANT N          \* argc - 1, the number of children asked for

\* argc is declared "char" (line 39): above 127 arguments it is negative.
ASSUME NAssumption == N \in 0..126

Children == 1..N
SIGCHLD == {"SIGCHLD"}

VARIABLES
  mpc,              \* where main is: "setup" "fork" "test" "call" "suspend" "done" "failed"
  forkLoop,         \* the loop variable of the fork loop
  child,            \* child[c]: "none" "running" "zombie" "reaped"
  numLiveChildren,  \* the counter the handler decrements
  blocked,          \* main's signal mask: {} or SIGCHLD
  pending,          \* the signals pending for the parent
  hpc,              \* the handler: "idle" "reap" "return"
  signum            \* how often sigsuspend() has returned

reapVars == <<mpc, forkLoop, child, numLiveChildren, blocked, pending, hpc, signum>>

In(state) == {c \in Children : child[c] = state}

-----------------------------------------------------------------------------
ReapInit ==
  /\ mpc = "setup"
  /\ forkLoop = 1
  /\ child = [c \in Children |-> "none"]
  /\ numLiveChildren = 0
  /\ blocked = {}
  /\ pending = {}
  /\ hpc = "idle"
  /\ signum = 0

\* Fault: the mask is never set, SIGCHLD may interrupt main anywhere.
SetupUnblocked ==
  /\ mpc = "setup"
  /\ mpc' = "fork"
  /\ numLiveChildren' = N
  /\ UNCHANGED <<forkLoop, child, blocked, pending, hpc, signum>>

\* Fault: the counter starts one short.
SetupShort ==
  /\ mpc = "setup"
  /\ mpc' = "fork"
  /\ numLiveChildren' = N - 1
  /\ blocked' = SIGCHLD
  /\ UNCHANGED <<forkLoop, child, pending, hpc, signum>>

\* numLiveChildren = argc - 1, the handler is installed, SIGCHLD is blocked.
Setup ==
  /\ mpc = "setup"
  /\ mpc' = "fork"
  /\ numLiveChildren' = N
  /\ blocked' = SIGCHLD
  /\ UNCHANGED <<forkLoop, child, pending, hpc, signum>>

\* One turn of the fork loop: fork() succeeds, or it fails and main exits.
Fork ==
  /\ mpc = "fork" /\ hpc = "idle"
  /\ forkLoop <= N
  /\ \/ /\ child' = [child EXCEPT ![forkLoop] = "running"]
        /\ forkLoop' = forkLoop + 1
        /\ UNCHANGED mpc
     \/ /\ mpc' = "failed"
        /\ UNCHANGED <<child, forkLoop>>
  /\ UNCHANGED <<numLiveChildren, blocked, pending, hpc, signum>>

ForksDone ==
  /\ mpc = "fork" /\ hpc = "idle"
  /\ forkLoop > N
  /\ mpc' = "test"
  /\ UNCHANGED <<forkLoop, child, numLiveChildren, blocked, pending, hpc, signum>>

\* while (numLiveChildren > 0) ...
TestLive ==
  /\ mpc = "test" /\ hpc = "idle"
  /\ mpc' = IF numLiveChildren > 0 THEN "call" ELSE "done"
  /\ UNCHANGED <<forkLoop, child, numLiveChildren, blocked, pending, hpc, signum>>

\* sigsuspend(&emptyMask) is entered: the mask is replaced and main sleeps.
Suspend ==
  /\ mpc = "call" /\ hpc = "idle"
  /\ mpc' = "suspend"
  /\ UNCHANGED <<forkLoop, child, numLiveChildren, blocked, pending, hpc, signum>>

\* A child's sleep is over and it calls _exit(); the kernel raises SIGCHLD.
ChildExit(c) ==
  /\ child[c] = "running"
  /\ child' = [child EXCEPT ![c] = "zombie"]
  /\ pending' = IF mpc \in {"done", "failed"} THEN pending ELSE SIGCHLD
  /\ UNCHANGED <<mpc, forkLoop, numLiveChildren, blocked, hpc, signum>>

\* The kernel enters the handler: in sigsuspend(), whose mask is empty, or
\* anywhere in main when SIGCHLD is not blocked.  SIGCHLD is masked meanwhile.
Deliver ==
  /\ pending = SIGCHLD /\ hpc = "idle"
  /\ mpc \notin {"done", "failed"}
  /\ mpc = "suspend" \/ blocked = {}
  /\ pending' = {}
  /\ hpc' = "reap"
  /\ UNCHANGED <<mpc, forkLoop, child, numLiveChildren, blocked, signum>>

\* Fault: "if" for "while": one child is reaped per signal.
HandlerReapOnce ==
  /\ hpc = "reap"
  /\ \E c \in In("zombie") : child' = [child EXCEPT ![c] = "reaped"]
  /\ numLiveChildren' = numLiveChildren - 1
  /\ hpc' = "return"
  /\ UNCHANGED <<mpc, forkLoop, blocked, pending, signum>>

\* One turn of "while (waitpid(-1, &status, WNOHANG) > 0) numLiveChildren--".
HandlerReap ==
  /\ hpc = "reap"
  /\ \E c \in In("zombie") : child' = [child EXCEPT ![c] = "reaped"]
  /\ numLiveChildren' = numLiveChildren - 1
  /\ UNCHANGED <<mpc, forkLoop, blocked, pending, hpc, signum>>

\* waitpid() finds no zombie: it returns 0, or -1 with ECHILD; sleep(5) begins.
HandlerNoMore ==
  /\ hpc = "reap"
  /\ In("zombie") = {}
  /\ hpc' = "return"
  /\ UNCHANGED <<mpc, forkLoop, child, numLiveChildren, blocked, pending, signum>>

\* The handler returns.  A sigsuspend() it interrupted fails with EINTR, the
\* old mask is back before another SIGCHLD can be delivered, and signum++.
HandlerReturn ==
  /\ hpc = "return"
  /\ hpc' = "idle"
  /\ IF mpc = "suspend"
       THEN mpc' = "test" /\ signum' = signum + 1
       ELSE UNCHANGED <<mpc, signum>>
  /\ UNCHANGED <<forkLoop, child, numLiveChildren, blocked, pending>>

ReapNext ==
  \/ Setup \/ Fork \/ ForksDone \/ TestLive \/ Suspend
  \/ \E c \in Children : ChildExit(c)
  \/ Deliver \/ HandlerReap \/ HandlerNoMore \/ HandlerReturn

\* Once the program has been started the parent is scheduled whenever it can
\* run, and every sleep() ends.
ReapFairness ==
  /\ WF_reapVars(Fork \/ ForksDone \/ TestLive \/ Suspend)
  /\ WF_reapVars(Deliver \/ HandlerReap \/ HandlerNoMore \/ HandlerReturn)
  /\ \A c \in Children : WF_reapVars(ChildExit(c))

ReapSpec == ReapInit /\ [][ReapNext]_reapVars

-----------------------------------------------------------------------------
\* Every variable keeps its range (the declarations on lines 12 and 41).
ReapTypes ==
  /\ mpc \in {"setup", "fork", "test", "call", "suspend", "done", "failed"}
  /\ forkLoop \in 1..(N + 1)
  /\ child \in [Children -> {"none", "running", "zombie", "reaped"}]
  /\ numLiveChildren \in Int
  /\ blocked \in {{}, SIGCHLD}
  /\ pending \in {{}, SIGCHLD}
  /\ hpc \in {"idle", "reap", "return"}
  /\ signum \in Nat

\* numLiveChildren, decremented in the handler and tested in main, is at every
\* moment the number of children not yet reaped, those not yet forked included.
CountMatchesChildren ==
  mpc # "setup" => numLiveChildren = N - Cardinality(In("reaped"))

\* A terminated child is never forgotten: unless the handler is still in its
\* waitpid loop, a zombie implies that SIGCHLD is pending, so sigsuspend()
\* cannot sleep past the last exit even though the exits coalesce.
NoLostSigchld ==
  (In("zombie") # {} /\ mpc \notin {"done", "failed"}) => (pending = SIGCHLD \/ hpc = "reap")

\* "All %d children have terminated" (line 93) is printed only when every child
\* asked for was forked, has terminated and left no zombie behind.
DoneMeansAllReaped ==
  mpc = "done" => In("reaped") = Children

\* "SIGCHLD was caught: %d times" (line 93): coalescing only ever lowers the
\* count, each catch answers at least one exit no other catch answered.
SignumBound ==
  signum + (IF pending = SIGCHLD THEN 1 ELSE 0) + (IF hpc = "idle" THEN 0 ELSE 1)
    <= Cardinality(In("zombie") \cup In("reaped"))

\* Once started, main comes to an end, and if no fork() failed it has then forked
\* and reaped every child asked for: no wake-up is lost between the test of
\* numLiveChildren and sigsuspend() (lines 84-93).
ReaperEnds ==
  mpc = "fork" ~> mpc = "failed" \/ (mpc = "done" /\ In("reaped") = Children)
=============================================================================
