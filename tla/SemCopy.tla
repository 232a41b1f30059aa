------------------------------ MODULE SemCopy ------------------------------
(***************************************************************************)
(* practice/53.1: a file is copied by two threads.  main reads it into     *)
(* Gbuf, thread_write writes Gbuf to the destination; two POSIX semaphores *)
(* hand Gbuf over.  main also sets everything up and takes it down again   *)
(* through a ladder of labels.                                             *)
(***************************************************************************)
EXTENDS TwoSemBuffer

CONSTANT
  MaxOld        \* bound: the blocks a destination that exists already holds

ASSUME CopyAssumption == MaxOld \in Nat

VARIABLES
  cons,         \* where thread_write is
  held,         \* the semaphores and descriptors main has and has not released
  dest,         \* the destination, block by block; Old is what was there before
  destOffset,   \* the file offset of fdWrite
  lost,         \* whether a write() has failed: "yes" or "no"
  ret           \* the exit status main will give

threadVars == <<cons, dest, destOffset, lost>>
copyVars == <<bufferVars, threadVars, held, ret>>

Old == 0
Resources == {"semWrite", "semRead", "fdRead", "fdWrite"}

\* main's set-up, in order: what is acquired, what comes next, and the label
\* a failure jumps to.
SetUp == Resources \cup {"thread"}
Then == [semWrite |-> "semRead", semRead |-> "fdRead", fdRead |-> "fdWrite",
         fdWrite |-> "thread", thread |-> "get"]
OnFailure == [semWrite |-> "err_semWrite", semRead |-> "err_semRead",
              fdRead |-> "err_openRead", fdWrite |-> "err_createWrite",
              thread |-> "err_thread"]

\* The labels: what each releases and the label it falls through to.
ErrLabels == {"err_thread", "err_createWrite", "err_openRead", "err_semRead"}
Releases == [err_thread |-> "fdWrite", err_createWrite |-> "fdRead",
             err_openRead |-> "semRead", err_semRead |-> "semWrite"]
FallsTo == [err_thread |-> "err_createWrite", err_createWrite |-> "err_openRead",
            err_openRead |-> "err_semRead", err_semRead |-> "err_semWrite"]

CopyInit ==
  /\ semWrite = 0 /\ semRead = 0
  /\ buf = End /\ pos = 0
  /\ prod = "semWrite" /\ cons = "none"
  /\ out = <<>>
  /\ held = {}
  /\ dest = <<>>
  /\ destOffset = 0 /\ lost = "no" /\ ret = "failure"

-----------------------------------------------------------------------------
\* What open() finds in the destination: nothing, or an older file.
OldContents == {[b \in 1..n |-> Old] : n \in 0..MaxOld}

\* main, before the loop: sem_init with the value of semWrite, open without
\* O_TRUNC, pthread_create.
AcquireWith(value) ==
  /\ prod \in SetUp
  /\ prod' = Then[prod]
  /\ held' = IF prod = "thread" THEN held ELSE held \cup {prod}
  /\ semWrite' = IF prod = "semWrite" THEN value ELSE semWrite
  /\ cons' = IF prod = "thread" THEN "get" ELSE cons
  /\ IF prod = "fdWrite" THEN dest' \in OldContents ELSE UNCHANGED dest
  /\ UNCHANGED <<semRead, buf, pos, out, destOffset, lost, ret>>

\* Fault: semWrite starts at 2.
AcquireTwo == AcquireWith(2)

Acquire == AcquireWith(1)

AcquireFails ==
  /\ prod \in SetUp
  /\ prod' = OnFailure[prod]
  /\ UNCHANGED <<semWrite, semRead, buf, pos, out, threadVars, held, ret>>

MainReads ==
  /\ ProducerStep("join")
  /\ UNCHANGED <<threadVars, held, ret>>

\* Fault: main does not wait for the thread.
NoJoin ==
  /\ prod = "join"
  /\ prod' = "err_thread"
  /\ ret' = "success"
  /\ UNCHANGED <<semWrite, semRead, buf, pos, out, threadVars, held>>

\* pthread_join() waits for thread_write; then main falls into the labels.
MainJoins ==
  /\ prod = "join" /\ cons = "done"
  /\ prod' = "err_thread"
  /\ ret' = "success"
  /\ UNCHANGED <<semWrite, semRead, buf, pos, out, threadVars, held>>

MainReleases ==
  /\ prod \in ErrLabels
  /\ held' = held \ {Releases[prod]}
  /\ prod' = FallsTo[prod]
  /\ UNCHANGED <<semWrite, semRead, buf, pos, out, threadVars, ret>>

\* exit(ret), which ends every thread.
MainExits ==
  /\ prod = "err_semWrite"
  /\ prod' = "exited"
  /\ UNCHANGED <<semWrite, semRead, buf, pos, out, threadVars, held, ret>>

-----------------------------------------------------------------------------
Copying == prod # "exited"

\* The thread has the token.
ConsumerHolds == cons \in {"take", "post"}

ConsumerGets == cons = "get" /\ cons' = "take" /\ TakesToken
ConsumerPosts == cons = "post" /\ cons' = "get" /\ GivesBack

\* A length of 0 ends the loop.
ConsumerTakes ==
  /\ cons = "take"
  /\ cons' = IF buf = End THEN "done" ELSE "post"
  /\ Prints(buf)

ConsumerStep == ConsumerGets \/ ConsumerTakes \/ ConsumerPosts

\* The block a successful write() puts at the offset of fdWrite.
WriteAt(d, at, b) ==
  IF at < Len(d) THEN [d EXCEPT ![at + 1] = b] ELSE Append(d, b)

\* Fault: every block is written at the start of the destination.
WriteAtStart ==
  /\ Copying /\ ConsumerStep
  /\ IF cons = "take" /\ buf \notin {End, Error}
       THEN \/ dest' = WriteAt(dest, 0, buf) /\ UNCHANGED <<destOffset, lost>>
            \/ lost' = "yes" /\ UNCHANGED <<dest, destOffset>>
       ELSE UNCHANGED <<dest, destOffset, lost>>
  /\ UNCHANGED <<held, ret>>

\* thread_write: nothing looks at what write() returns.
ThreadWrites ==
  /\ Copying /\ ConsumerStep
  /\ IF cons = "take" /\ buf \notin {End, Error}
       THEN \/ /\ dest' = WriteAt(dest, destOffset, buf)
               /\ destOffset' = destOffset + 1
               /\ UNCHANGED lost
            \/ lost' = "yes" /\ UNCHANGED <<dest, destOffset>>
       ELSE UNCHANGED <<dest, destOffset, lost>>
  /\ UNCHANGED <<held, ret>>

MainStep == Acquire \/ AcquireFails \/ MainReads \/ MainJoins \/ MainReleases \/ MainExits

CopyNext == MainStep \/ ThreadWrites

CopySpec == CopyInit /\ [][CopyNext]_copyVars

\* Two threads the kernel schedules; once the program has begun, neither is
\* starved.
Begun == prod # "semWrite"
CopyFairness == WF_copyVars(Begun /\ MainStep) /\ WF_copyVars(ThreadWrites)

-----------------------------------------------------------------------------
\* The values of the variables; a semaphore never exceeds 1 (main 75-83).
CopyTypes ==
  /\ BufferType /\ semWrite \in 0..1 /\ semRead \in 0..1
  /\ prod \in SetUp \cup ErrLabels
       \cup {"get", "read", "post", "postEnd", "join", "err_semWrite", "exited"}
  /\ cons \in {"none", "get", "take", "post", "done"}
  /\ held \subseteq Resources
  /\ dest \in Seq(0..Size)
  /\ destOffset \in 0..Len(dest)
  /\ lost \in {"yes", "no"}
  /\ ret \in {"failure", "success"}

\* Neither thread uses a semaphore or a descriptor that main has released or
\* never acquired, on any path through the labels, and none is left at exit
\* (main 85-135, thread_write 43-57).
NoUseAfterRelease ==
  /\ cons \in {"get", "take", "post"} =>
       {"semWrite", "semRead", "fdWrite"} \subseteq held
  /\ prod \in {"get", "read", "post", "postEnd", "join"} => held = Resources
  /\ prod = "exited" => held = {}

\* When main reports success and no write() failed, the destination is the
\* source laid over what was there: old blocks past the end stay, since
\* open() does not truncate (main 91, thread_write 55).
CopyIsFaithful ==
  ret = "success" /\ lost = "no" =>
    /\ Len(dest) >= Size
    /\ \A b \in 1..Len(dest) : dest[b] = IF b <= Size THEN b ELSE Old

\* The blocks handed on are a prefix of the source, in order and each once,
\* and an end is taken only after all of them.
Promise == INSTANCE BlockStream WITH
             stream <- out,
             state <- IF cons = "done" THEN "closed" ELSE "open"

\* The blocks pass through Gbuf in order, each once, and thread_write stops
\* only after the last, although read() may fail on the way (main 102-119).
HandsOverInOrder == Promise!StreamSpec

\* The program ends if read() fails only finitely often: neither thread waits
\* for a post the other will not make.  A read() that keeps failing is posted
\* and tried again for ever (main 102-121, thread_write 43-57).
CopyEnds == []<><<ReadFails>>_copyVars \/ (Begun ~> prod = "exited")
=============================================================================
