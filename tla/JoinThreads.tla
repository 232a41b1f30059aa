----------------------------- MODULE JoinThreads -----------------------------
(***************************************************************************)
(* routines/30.4: main creates a thread for each argument, hands it the     *)
(* address of the loop variable as its number, and waits on a condition     *)
(* variable for threads that have finished.  The block that joins them      *)
(* stands behind the loop "while (numLive > 0)" instead of in it.           *)
(***************************************************************************)
EXTENDS Integers, FiniteSets

CONSTANT MaxThreads   \* bound: the number of arguments

ASSUME ThreadsAssumption == MaxThreads \in Nat

VARIABLES
  numThreads,   \* argc - 1
  joinPc,       \* main: "off" "create" "next" "lock" "test" "wait" "sleep" "woken"
                \* "ended"
  loopVar,      \* i, of which every thread has the address
  threadPc,     \* threadPc[t]: "none" "start" "finish" "signal" "ended"
  threadId,     \* threadId[t]: the number t has read, -1 before
  threadStatus, \* threads[id].status: "alive" "terminated"
  numNoJoined,
  mutex         \* its owner: "free", "main"; a thread locks and unlocks in one step

joinVars == <<numThreads, joinPc, loopVar, threadPc, threadId, threadStatus,
              numNoJoined, mutex>>
Threads == 0..MaxThreads-1

JoinInit ==
  /\ numThreads = 0 /\ joinPc = "off" /\ loopVar = 0
  /\ threadPc = [t \in Threads |-> "none"]
  /\ threadId = [t \in Threads |-> -1]
  /\ threadStatus = [t \in Threads |-> "alive"]
  /\ numNoJoined = 0 /\ mutex = "free"

-----------------------------------------------------------------------------
MainTo(from, to) == joinPc = from /\ joinPc' = to

JoinStarts ==
  /\ MainTo("off", "create")
  /\ numThreads' \in 0..MaxThreads
  /\ UNCHANGED <<loopVar, threadPc, threadId, threadStatus, numNoJoined, mutex>>

\* pthread_create() of thread i; i++ is a step of its own.
JoinCreates ==
  /\ MainTo("create", "next") /\ loopVar < numThreads
  /\ threadStatus' = [threadStatus EXCEPT ![loopVar] = "alive"]
  /\ threadPc' = [threadPc EXCEPT ![loopVar] = "start"]
  /\ UNCHANGED <<numThreads, loopVar, threadId, numNoJoined, mutex>>

JoinCounts ==
  /\ MainTo("next", "create")
  /\ loopVar' = loopVar + 1
  /\ UNCHANGED <<numThreads, threadPc, threadId, threadStatus, numNoJoined, mutex>>

\* numLive is argc - 1 for good: without arguments there is nothing to do.
JoinCreated ==
  /\ MainTo("create", IF numThreads = 0 THEN "ended" ELSE "lock")
  /\ loopVar = numThreads
  /\ UNCHANGED <<numThreads, loopVar, threadPc, threadId, threadStatus, numNoJoined,
                 mutex>>

\* A mutex main has locked itself is not free to it either.
JoinLocks ==
  /\ MainTo("lock", "test") /\ mutex = "free"
  /\ mutex' = "main"
  /\ UNCHANGED <<numThreads, loopVar, threadPc, threadId, threadStatus, numNoJoined>>

\* "while (numNoJoined == 0)"; then, numLive unchanged, back to the lock.
JoinTests ==
  /\ MainTo("test", IF numNoJoined = 0 THEN "wait" ELSE "lock")
  /\ UNCHANGED <<numThreads, loopVar, threadPc, threadId, threadStatus, numNoJoined,
                 mutex>>

\* pthread_cond_wait(): unlocks and sleeps in one step.
JoinWaits ==
  /\ MainTo("wait", "sleep")
  /\ mutex' = "free"
  /\ UNCHANGED <<numThreads, loopVar, threadPc, threadId, threadStatus, numNoJoined>>

JoinMain ==
  JoinCreates \/ JoinCounts \/ JoinCreated \/ JoinLocks \/ JoinTests \/ JoinWaits

-----------------------------------------------------------------------------
ThreadTo(t, from, to) == threadPc[t] = from /\ threadPc' = [threadPc EXCEPT ![t] = to]

\* id = *((int *)param): the value i has by now; then the thread sleeps.
ThreadStarts(t) ==
  /\ ThreadTo(t, "start", "finish")
  /\ threadId' = [threadId EXCEPT ![t] = loopVar]
  /\ UNCHANGED <<numThreads, joinPc, loopVar, threadStatus, numNoJoined, mutex>>

\* Fault: what the mutex is for is done without it.
ThreadFinishesUnlocked(t) ==
  /\ ThreadTo(t, "finish", "signal")
  /\ numNoJoined' = numNoJoined + 1
  /\ threadStatus' = [u \in Threads |->
       IF u = threadId[t] /\ u < numThreads THEN "terminated" ELSE threadStatus[u]]
  /\ UNCHANGED <<numThreads, joinPc, loopVar, threadId, mutex>>

\* Under the mutex.  Number argc - 1 is behind the array: the outcome taken is
\* that nothing used later is overwritten there.
ThreadFinishes(t) ==
  /\ ThreadTo(t, "finish", "signal") /\ mutex = "free"
  /\ numNoJoined' = numNoJoined + 1
  /\ threadStatus' = [u \in Threads |->
       IF u = threadId[t] /\ u < numThreads THEN "terminated" ELSE threadStatus[u]]
  /\ UNCHANGED <<numThreads, joinPc, loopVar, threadId, mutex>>

\* pthread_cond_signal(), after the unlock: main locks again when it wakes up.
ThreadSignals(t) ==
  /\ ThreadTo(t, "signal", "ended")
  /\ joinPc' = IF joinPc = "sleep" THEN "woken" ELSE joinPc
  /\ UNCHANGED <<numThreads, loopVar, threadId, threadStatus, numNoJoined, mutex>>

\* pthread_cond_wait() may wake up without a signal.
JoinWakesEarly ==
  /\ MainTo("sleep", "woken")
  /\ UNCHANGED <<numThreads, loopVar, threadPc, threadId, threadStatus, numNoJoined,
                 mutex>>

\* The end of pthread_cond_wait().
JoinWakes ==
  /\ MainTo("woken", "test") /\ mutex = "free"
  /\ mutex' = "main"
  /\ UNCHANGED <<numThreads, loopVar, threadPc, threadId, threadStatus, numNoJoined>>

ThreadStep(t) == ThreadStarts(t) \/ ThreadFinishes(t) \/ ThreadSignals(t)
JoinNext ==
  JoinStarts \/ JoinMain \/ JoinWakesEarly \/ JoinWakes \/ \E t \in Threads : ThreadStep(t)

\* Strong for the threads: wake-ups without a signal do not keep them from a
\* mutex that main gives back again and again.
JoinFairness ==
  /\ WF_joinVars(JoinMain \/ JoinWakes)
  /\ \A t \in Threads : SF_joinVars(ThreadStep(t))

-----------------------------------------------------------------------------
\* With threads to wait for, main is woken up by the first that finishes, at
\* whatever moment that is, and then locks the mutex it holds (line 89): it
\* joins nobody (lines 104-119), and the threads that have not finished by then
\* never do.  Without threads it ends.  Those that have finished are counted
\* right, but marked under numbers read from a moving i (line 30), so that of
\* the marks there can be fewer, never more.
WakesUpAndHangs ==
  joinPc = "create" ~>
    \/ numThreads = 0 /\ joinPc = "ended"
    \/ /\ joinPc = "lock" /\ mutex = "main"
       /\ LET over == {t \in Threads : threadPc[t] = "ended"} IN
            /\ numNoJoined = Cardinality(over) /\ over # {}
            /\ Cardinality({t \in Threads : threadStatus[t] = "terminated"})
                 <= numNoJoined
            /\ \A t \in Threads \ over : t < numThreads => threadPc[t] = "finish"
=============================================================================
