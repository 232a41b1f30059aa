------------------------------ MODULE FileLocks ------------------------------
(***************************************************************************)
(* Two exercises on locks of whole files.  practice/55.2: parent and child  *)
(* flock() two files in opposite orders.  practice/55.4: one child locks a  *)
(* file as the first argument says, another as the second, to see whether   *)
(* the second lock is refused.                                              *)
(***************************************************************************)
EXTENDS Integers, Sequences, FiniteSets

VARIABLES
  lockAt,      \* lockAt[p]: 0 before the fork, the lock p wants next (1, 2), 3
               \* when it has both, 4 after its exit
  lockHeld,    \* lockHeld[f]: the process with the lock of f, or "nobody"
  probeArgs,   \* the two arguments
  probe,       \* probe[p]: "off" "try" "hold" "wait" "ended"
  probeLocks,  \* the locks of the file, with their owners
  reports      \* the processes that have printed "the second lock failed"

flockVars == <<lockAt, lockHeld>>
probeVars == <<probeArgs, probe, probeLocks, reports>>

-----------------------------------------------------------------------------
(* practice/55.2                                                           *)

LockOrder == [child |-> <<"temp1", "temp2">>, parent |-> <<"temp2", "temp1">>]
Lockers == DOMAIN LockOrder

FlockInit ==
  /\ lockAt = [p \in Lockers |-> 0]
  /\ lockHeld = [f \in {"temp1", "temp2"} |-> "nobody"]

\* Both files are made, then fork().
FlockForks ==
  /\ lockAt["parent"] = 0
  /\ lockAt' = [p \in Lockers |-> 1]
  /\ UNCHANGED lockHeld

\* The lock that p is waiting for.
Wanted(p) == LockOrder[p][lockAt[p]]

\* flock(LOCK_EX) waits until nobody has the lock.
FlockTakes(p) ==
  /\ lockAt[p] \in 1..2 /\ lockHeld[Wanted(p)] = "nobody"
  /\ lockHeld' = [lockHeld EXCEPT ![Wanted(p)] = p]
  /\ lockAt' = [lockAt EXCEPT ![p] = @ + 1]

\* Fault: the locks outlive the process, whose descriptors another one shares.
FlockExitKeeps(p) ==
  /\ lockAt[p] = 3 /\ (p = "parent" => lockAt["child"] = 4)
  /\ lockAt' = [lockAt EXCEPT ![p] = 4]
  /\ UNCHANGED lockHeld

\* exit() gives the locks back; the parent's comes after its waitpid().
FlockExits(p) ==
  /\ lockAt[p] = 3 /\ (p = "parent" => lockAt["child"] = 4)
  /\ lockAt' = [lockAt EXCEPT ![p] = 4]
  /\ lockHeld' = [f \in DOMAIN lockHeld |->
                    IF lockHeld[f] = p THEN "nobody" ELSE lockHeld[f]]

FlockNext == FlockForks \/ \E p \in Lockers : FlockTakes(p) \/ FlockExits(p)

FlockFairness == \A p \in Lockers : WF_flockVars(FlockTakes(p) \/ FlockExits(p))

\* p cannot go on before q does: q has the lock p wants, or p is in waitpid().
WaitsFor(p, q) ==
  \/ lockAt[p] \in 1..2 /\ lockHeld[Wanted(p)] = q
  \/ p = "parent" /\ q = "child" /\ lockAt[p] = 3 /\ lockAt[q] # 4

\* "Two processes that flock() two different files deadlock" (55.2, line 16):
\* the program ends, or each process waits for the other.  The circle has two
\* forms, one lock each, and a parent that has both and waits in waitpid()
\* (line 114) for a child that wants one; there is no third way to get stuck.
FlockEndsOrCircle ==
  lockAt["parent"] = 1 ~> \/ \A p \in Lockers : lockAt[p] = 4
                          \/ WaitsFor("parent", "child") /\ WaitsFor("child", "parent")

-----------------------------------------------------------------------------
(* practice/55.4.  The child of turn 1 does not exit when it has its lock:  *)
(* it goes on to turn 2 and forks a process of its own, "again", that locks *)
(* as the second argument says beside the parent's child of turn 2.         *)

Provers == {"first", "second", "again"}
LockArgs == [family : {"c", "l"}, kind : {"R", "W"}]

\* Which argument a process works on.
TurnOf(p) == IF p = "first" THEN 1 ELSE 2

\* The locks two arguments ask for exclude one another: fcntl() and flock() do
\* not see each other's locks, and readers share.
Conflict(a, b) == a.family = b.family /\ "W" \in {a.kind, b.kind}

ProbeInit ==
  /\ probeArgs = <<>>
  /\ probe = [p \in Provers |-> "off"]
  /\ probeLocks = {}
  /\ reports = {}

\* The parent forks for both arguments without waiting in between.
ProbeForks ==
  /\ probeArgs = <<>>
  /\ probeArgs' \in LockArgs \X LockArgs
  /\ probe' = [probe EXCEPT !["first"] = "try", !["second"] = "try"]
  /\ UNCHANGED <<probeLocks, reports>>

\* Fault: LOCK_EX and F_WRLCK for 'R' as well.
LockForAlwaysWrite(p) == [family |-> probeArgs[TurnOf(p)].family, kind |-> "W"]

\* F_RDLCK or LOCK_SH for 'R', F_WRLCK or LOCK_EX for 'W'.
LockFor(p) == probeArgs[TurnOf(p)]

Refused(p) == \E l \in probeLocks : Conflict(l.lock, LockFor(p))

\* F_SETLK, LOCK_NB: the lock, and a second of sleep with it.
ProbeTakes(p) ==
  /\ probe[p] = "try" /\ ~Refused(p)
  /\ probeLocks' = probeLocks \cup {[owner |-> p, lock |-> LockFor(p)]}
  /\ probe' = [probe EXCEPT ![p] = "hold"]
  /\ UNCHANGED <<probeArgs, reports>>

\* Refused: in turn 2 that is the result, in turn 1 an error; exit either way.
ProbeFails(p) ==
  /\ probe[p] = "try" /\ Refused(p)
  /\ probe' = [probe EXCEPT ![p] = "ended"]
  /\ reports' = IF TurnOf(p) = 2 THEN reports \cup {p} ELSE reports
  /\ UNCHANGED <<probeArgs, probeLocks>>

\* The next turn of the loop in the process of turn 1.
ProbeGoesOn ==
  /\ probe["first"] = "hold"
  /\ probe' = [probe EXCEPT !["first"] = "wait", !["again"] = "try"]
  /\ UNCHANGED <<probeArgs, probeLocks, reports>>

\* waitpid() for one's own child, if any, and exit(), which drops the locks.
ProbeExits(p) ==
  /\ \/ p = "first" /\ probe[p] = "wait" /\ probe["again"] = "ended"
     \/ p # "first" /\ probe[p] = "hold"
  /\ probe' = [probe EXCEPT ![p] = "ended"]
  /\ probeLocks' = {l \in probeLocks : l.owner # p}
  /\ UNCHANGED <<probeArgs, reports>>

ProbeNext ==
  \/ ProbeForks \/ ProbeGoesOn
  \/ \E p \in Provers : ProbeTakes(p) \/ ProbeFails(p) \/ ProbeExits(p)

\* The report "after the first argument's lock the second one failed"
\* (resultOut, lines 37-45) is about the two arguments only if these exclude
\* one another.  Otherwise it comes from two processes of turn 2 in each
\* other's way, which takes a second argument that excludes itself and a
\* process of turn 1 that got its lock and went on instead of ending.
ReportsAreExplained ==
  reports # {} =>
    \/ Conflict(probeArgs[1], probeArgs[2])
    \/ Conflict(probeArgs[2], probeArgs[2]) /\ probe["again"] # "off"
=============================================================================
