----------------------------- MODULE ChildPairs -----------------------------
(***************************************************************************)
(* Two exercises in which a parent and its child wait for each other.       *)
(* practice/44.1: letters go to the child through one pipe and come back as *)
(* capitals through another.  practice/26.4: the child's exit handler sends *)
(* SIGUSR1, for which the parent waits in sigsuspend().                     *)
(***************************************************************************)
EXTENDS Integers, Sequences, FiniteSets

CONSTANT MayBeKilled   \* the processes of 44.1 that a signal may kill

ASSUME KilledAssumption == MayBeKilled \subseteq {"parent", "child"}

VARIABLES
  pipePc,    \* pipePc[p]: "off" "write" "read" "ended" "killed"
  letter,    \* letter[p]: its chr, 0 for 'a'
  pipe,      \* pipe[p]: the letters written to p and not read yet
  answers,   \* what the parent has read
  syncPc,    \* 26.4, the parent: "off" "suspend" "kill" "sleep" "ended"
  syncChild, \* 26.4, the child: "none" "exits" "signalled" "zombie"
  usr1       \* SIGUSR1 is pending, blocked since before the fork

pipeVars == <<pipePc, letter, pipe, answers>>
syncVars == <<syncPc, syncChild, usr1>>

-----------------------------------------------------------------------------
(* practice/44.1                                                           *)

Ends == {"parent", "child"}
Other(p) == IF p = "parent" THEN "child" ELSE "parent"
Over(p) == pipePc[p] \in {"ended", "killed"}

PipeInit ==
  /\ pipePc = [p \in Ends |-> "off"]
  /\ letter = [p \in Ends |-> 0]
  /\ pipe = [p \in Ends |-> <<>>]
  /\ answers = <<>>

\* Two pipes, fork(); each side closes the ends it does not use.
PipeForks ==
  /\ pipePc["parent"] = "off"
  /\ pipePc' = [parent |-> "write", child |-> "read"]
  /\ UNCHANGED <<letter, pipe, answers>>

\* A write to a pipe that has lost its reader is answered with SIGPIPE.
BrokenPipe(p) ==
  /\ Over(Other(p))
  /\ pipePc' = [pipePc EXCEPT ![p] = "killed"]
  /\ UNCHANGED pipe

ParentWrites ==
  /\ pipePc["parent"] = "write"
  /\ \/ BrokenPipe("parent")
     \/ /\ ~Over("child")
        /\ pipe' = [pipe EXCEPT !["child"] = Append(@, letter["parent"])]
        /\ pipePc' = [pipePc EXCEPT !["parent"] = "read"]
  /\ UNCHANGED <<letter, answers>>

\* The answer; the next letter, or the end after the fifth.
ParentReads ==
  /\ pipePc["parent"] = "read" /\ pipe["parent"] # <<>>
  /\ answers' = Append(answers, Head(pipe["parent"]))
  /\ pipe' = [pipe EXCEPT !["parent"] = Tail(@)]
  /\ letter' = [letter EXCEPT !["parent"] = @ + 1]
  /\ pipePc' = [pipePc EXCEPT !["parent"] = IF letter'["parent"] = 5 THEN "ended" ELSE "write"]

\* End-of-file: "continue" takes the parent back to its write().
ParentReadsEnd ==
  /\ pipePc["parent"] = "read" /\ pipe["parent"] = <<>> /\ Over("child")
  /\ pipePc' = [pipePc EXCEPT !["parent"] = "write"]
  /\ UNCHANGED <<letter, pipe, answers>>

\* At end-of-file the child's "continue" reads again, for ever.
ChildTakes ==
  /\ pipePc["child"] = "read" /\ pipe["child"] # <<>>
  /\ letter' = [letter EXCEPT !["child"] = Head(pipe["child"])]
  /\ pipe' = [pipe EXCEPT !["child"] = Tail(@)]
  /\ pipePc' = [pipePc EXCEPT !["child"] = "write"]
  /\ UNCHANGED answers

\* Fault: the child waits for 'f', which the parent never sends.
ChildAnswersPastEnd ==
  /\ pipePc["child"] = "write"
  /\ \/ BrokenPipe("child")
     \/ /\ ~Over("parent")
        /\ pipe' = [pipe EXCEPT !["parent"] = Append(@, letter["child"])]
        /\ pipePc' = [pipePc EXCEPT !["child"] = IF letter["child"] = 5 THEN "ended" ELSE "read"]
  /\ UNCHANGED <<letter, answers>>

\* The capital of the letter; the child ends after that of 'e'.
ChildAnswers ==
  /\ pipePc["child"] = "write"
  /\ \/ BrokenPipe("child")
     \/ /\ ~Over("parent")
        /\ pipe' = [pipe EXCEPT !["parent"] = Append(@, letter["child"])]
        /\ pipePc' = [pipePc EXCEPT !["child"] = IF letter["child"] = 4 THEN "ended" ELSE "read"]
  /\ UNCHANGED <<letter, answers>>

PipeKill(p) ==
  /\ p \in MayBeKilled /\ pipePc[p] \in {"write", "read"}
  /\ pipePc' = [pipePc EXCEPT ![p] = "killed"]
  /\ UNCHANGED <<letter, pipe, answers>>

PipeParent == ParentWrites \/ ParentReads \/ ParentReadsEnd
PipeChild == ChildTakes \/ ChildAnswers
PipeNext == PipeForks \/ PipeParent \/ PipeChild \/ \E p \in Ends : PipeKill(p)

-----------------------------------------------------------------------------
(* practice/26.4                                                           *)

SyncInit == syncPc = "off" /\ syncChild = "none" /\ usr1 = FALSE

\* SIGUSR1 is blocked and its handler installed, then fork().
SyncForks ==
  /\ syncPc = "off"
  /\ syncPc' = "suspend" /\ syncChild' = "exits"
  /\ UNCHANGED usr1

\* exit() of the child: childReturnCallbaack, and then the process is a zombie.
SyncChildSignals ==
  /\ syncChild = "exits"
  /\ syncChild' = "signalled" /\ usr1' = TRUE
  /\ UNCHANGED syncPc

SyncChildEnds ==
  /\ syncChild = "signalled"
  /\ syncChild' = "zombie"
  /\ UNCHANGED <<syncPc, usr1>>

\* sigsuspend() unblocks SIGUSR1 and waits in one step; then ps runs.
SyncResumes ==
  /\ syncPc = "suspend" /\ usr1
  /\ usr1' = FALSE /\ syncPc' = "kill"
  /\ UNCHANGED syncChild

\* SIGKILL: nothing to a zombie, the end of a child not quite there yet.
SyncKills ==
  /\ syncPc = "kill"
  /\ syncPc' = "sleep" /\ syncChild' = "zombie"
  /\ UNCHANGED usr1

\* ps again, exit().
SyncExits ==
  /\ syncPc = "sleep"
  /\ syncPc' = "ended"
  /\ UNCHANGED <<syncChild, usr1>>

SyncParent == SyncResumes \/ SyncKills \/ SyncExits
SyncChildStep == SyncChildSignals \/ SyncChildEnds
SyncNext == SyncForks \/ SyncParent \/ SyncChildStep

-----------------------------------------------------------------------------
PairFairness ==
  /\ WF_pipeVars(PipeParent) /\ WF_pipeVars(PipeChild)
  /\ WF_syncVars(SyncParent) /\ WF_syncVars(SyncChildStep)

\* Nobody waits for ever for the other.  The parent of 44.1 comes to its end,
\* by itself with the five answers in their order, or with SIGPIPE after its
\* child was killed; so does the child, unless the parent was killed: then
\* read() returns 0 for ever and "continue" spins (lines 70-72).  In 26.4 the
\* signal sent before the parent waits is not lost, and the child is a zombie
\* when "After sending SIGKILL to zombie" is printed (line 73).
PairsEnd ==
  /\ pipePc["parent"] = "write" ~>
       /\ pipePc["parent"] = "ended" => answers = <<0, 1, 2, 3, 4>>
       /\ Over("parent") /\ (Over("child") \/ pipePc["parent"] = "killed")
  /\ syncPc = "suspend" ~> syncPc = "ended" /\ syncChild = "zombie"
=============================================================================
