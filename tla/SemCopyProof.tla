---------------------------- MODULE SemCopyProof ----------------------------
(***************************************************************************)
(* What practice/53.1 guarantees for files of any length and any number of *)
(* failing reads: one thread at a time has Gbuf, the blocks pass in order, *)
(* and nothing is used after main has released it.                         *)
(***************************************************************************)
EXTENDS SemCopy, TLAPS

Loop == {"get", "read", "post", "postEnd", "join"}

\* How far main has come on the way up, or down, decides what it holds.
Holding ==
  /\ "semWrite" \in held <=> prod \notin {"semWrite", "err_semWrite", "exited"}
  /\ "semRead" \in held <=>
       prod \notin {"semWrite", "semRead", "err_semRead", "err_semWrite", "exited"}
  /\ "fdRead" \in held <=> prod \in Loop \cup {"fdWrite", "thread", "err_thread", "err_createWrite"}
  /\ "fdWrite" \in held <=> prod \in Loop \cup {"thread", "err_thread"}

\* One token: a semaphore has it, or one of the two threads.
OneToken ==
  /\ prod \in SetUp => cons = "none" /\ semRead = 0
  /\ prod = "semWrite" => semWrite = 0
  /\ prod \in SetUp \ {"semWrite"} => semWrite = 1
  /\ prod = "get" =>
       \/ semWrite = 1 /\ semRead = 0 /\ cons = "get"
       \/ semWrite = 0 /\ semRead = 1 /\ cons = "get"
       \/ semWrite = 0 /\ semRead = 0 /\ cons \in {"take", "post"}
  /\ prod \in {"read", "post", "postEnd"} =>
       semWrite = 0 /\ semRead = 0 /\ cons = "get"
  /\ prod = "join" =>
       \/ semWrite = 0 /\ semRead = 1 /\ cons = "get"
       \/ semWrite = 0 /\ semRead = 0 /\ cons \in {"take", "done"}
  /\ prod \notin SetUp \cup Loop => cons \in {"none", "done"}

\* The buffer holds something thread_write has not yet taken.
Full == prod \in {"post", "postEnd"} \/ semRead = 1 \/ cons = "take"

\* What has passed, and what the buffer holds when it is full.
Contents ==
  /\ \A i \in 1..Len(out) : out[i] = i
  /\ cons = "none" => pos = 0 /\ out = <<>>
  /\ cons = "done" => Len(out) = Size
  /\ ~Full => Len(out) = pos
  /\ Full /\ buf = End => Len(out) = pos /\ pos = Size
  /\ Full /\ buf = Error => Len(out) = pos
  /\ Full /\ buf \notin {End, Error} => buf = pos /\ Len(out) + 1 = pos
  /\ Full /\ prod \in {"get", "post"} => buf # End
  /\ Full /\ prod \in {"postEnd", "join"} => buf = End

\* What thread_write has made of the destination, as long as no write failed.
Destination ==
  /\ lost = "no" =>
       /\ destOffset = Len(out)
       /\ \A b \in 1..Len(dest) : dest[b] = IF b <= destOffset THEN b ELSE Old
  /\ cons = "none" => destOffset = 0
  /\ ret = "success" => cons = "done"

IInv == CopyTypes /\ Holding /\ OneToken /\ Contents /\ Destination

-----------------------------------------------------------------------------
\* The invariant gives the hand-over and release properties.
LEMMA IInvReleased == IInv => NoUseAfterRelease
BY DEF IInv, CopyTypes, BufferType, Holding, OneToken, NoUseAfterRelease, Resources, SetUp, ErrLabels, Loop

\* The invariant says what the destination holds when the program ends well.
LEMMA IInvFaithful == IInv => CopyIsFaithful
<1> SUFFICES ASSUME IInv, ret = "success", lost = "no"
             PROVE  /\ Len(dest) >= Size
                    /\ \A b \in 1..Len(dest) : dest[b] = IF b <= Size THEN b ELSE Old
  BY DEF CopyIsFaithful
<1>1. destOffset = Size
  BY DEF IInv, Contents, Destination
<1>2. destOffset \in 0..Len(dest) /\ Size \in Nat /\ dest \in Seq(0..Size)
  BY BufferAssumption DEF IInv, CopyTypes
<1>3. \A b \in 1..Len(dest) : dest[b] = IF b <= destOffset THEN b ELSE Old
  BY DEF IInv, Destination
<1> QED
  BY <1>1, <1>2, <1>3

\* The initial state.
LEMMA InitIInv == CopyInit => IInv
<1> SUFFICES ASSUME CopyInit PROVE IInv
  OBVIOUS
<1> USE BufferAssumption, CopyAssumption DEF CopyInit, End, Error, Old
<1>1. dest = <<>> /\ dest \in Seq(0..Size) /\ Len(dest) = 0
  OBVIOUS
<1>2. out = <<>> /\ out \in Seq(1..Size) /\ Len(out) = 0
  OBVIOUS
<1>3. CopyTypes
  BY <1>1, <1>2 DEF CopyTypes, BufferType, SetUp, Resources
<1>4. Holding
  BY DEF Holding, Loop
<1>5. OneToken
  BY DEF OneToken, SetUp, Resources, Loop
<1>6. Contents
  BY <1>2 DEF Contents, Full
<1>7. Destination
  BY <1>1, <1>2 DEF Destination
<1> QED
  BY <1>3, <1>4, <1>5, <1>6, <1>7 DEF IInv


-----------------------------------------------------------------------------
(* Every step keeps it.                                                    *)

\* One rung of the ladder is added to what main holds.
LEMMA AcquireKeeps == IInv /\ Acquire => IInv'
<1> SUFFICES ASSUME IInv, Acquire PROVE IInv'
  OBVIOUS
<1> USE BufferAssumption DEF IInv, Acquire, AcquireWith, Resources, SetUp
<1>1. \/ prod = "semWrite" /\ prod' = "semRead"
      \/ prod = "semRead" /\ prod' = "fdRead"
      \/ prod = "fdRead" /\ prod' = "fdWrite"
      \/ prod = "fdWrite" /\ prod' = "thread"
      \/ prod = "thread" /\ prod' = "get"
  BY DEF Then
<1>2. cons = "none" /\ semRead = 0 /\ cons' \in {"none", "get"}
  BY DEF OneToken
<1>a. dest' \in Seq(0..Size) /\ (dest' # dest => \A b \in 1..Len(dest') : dest'[b] = Old)
  <2>1. CASE prod = "fdWrite"
    <3>1. PICK n \in 0..MaxOld : dest' = [b \in 1..n |-> Old]
      BY <2>1 DEF OldContents
    <3>2. n \in Nat /\ Old \in 0..Size
      BY CopyAssumption DEF Old
    <3>3. QED
      BY <3>1, <3>2
  <2>2. CASE prod # "fdWrite"
    BY <2>2 DEF CopyTypes
  <2>3. QED
    BY <2>1, <2>2
<1>b. destOffset = 0 /\ out = <<>>
  BY <1>2 DEF Destination, Contents
<1>3. CopyTypes'
  BY <1>1, <1>2, <1>a, <1>b DEF CopyTypes, BufferType
<1>4. Holding'
  BY <1>1 DEF Holding, Loop
<1>5. OneToken'
  BY <1>1 DEF OneToken, Loop
<1>6. Contents'
  BY <1>1, <1>2 DEF Contents, Full
<1>7. Destination'
  BY <1>1, <1>2, <1>a, <1>b DEF Destination
<1> QED
  BY <1>3, <1>4, <1>5, <1>6, <1>7

\* A failing call of the set-up: main turns to the labels, holding what it held.
LEMMA AcquireFailsKeeps == IInv /\ AcquireFails => IInv'
<1> SUFFICES ASSUME IInv, AcquireFails PROVE IInv'
  OBVIOUS
<1> USE BufferAssumption DEF IInv, AcquireFails, threadVars, Resources, SetUp
<1>1. \/ prod = "semWrite" /\ prod' = "err_semWrite"
      \/ prod = "semRead" /\ prod' = "err_semRead"
      \/ prod = "fdRead" /\ prod' = "err_openRead"
      \/ prod = "fdWrite" /\ prod' = "err_createWrite"
      \/ prod = "thread" /\ prod' = "err_thread"
  BY DEF OnFailure
<1>2. cons = "none" /\ semRead = 0
  BY DEF OneToken
<1>3. CopyTypes'
  BY <1>1 DEF CopyTypes, BufferType, ErrLabels
<1>4. Holding'
  BY <1>1 DEF Holding, Loop
<1>5. OneToken'
  BY <1>1, <1>2 DEF OneToken, Loop
<1>6. Contents'
  BY <1>1, <1>2 DEF Contents, Full
<1>7. Destination'
  BY DEF Destination
<1> QED
  BY <1>3, <1>4, <1>5, <1>6, <1>7

\* A label releases the last thing acquired; no thread needs it any more.
LEMMA ReleaseKeeps == IInv /\ MainReleases => IInv'
<1> SUFFICES ASSUME IInv, MainReleases PROVE IInv'
  OBVIOUS
<1> USE BufferAssumption DEF IInv, MainReleases, threadVars, Resources, SetUp
<1>1. \/ prod = "err_thread" /\ prod' = "err_createWrite" /\ held' = held \ {"fdWrite"}
      \/ prod = "err_createWrite" /\ prod' = "err_openRead" /\ held' = held \ {"fdRead"}
      \/ prod = "err_openRead" /\ prod' = "err_semRead" /\ held' = held \ {"semRead"}
      \/ prod = "err_semRead" /\ prod' = "err_semWrite" /\ held' = held \ {"semWrite"}
  BY DEF ErrLabels, Releases, FallsTo
<1>3. CopyTypes'
  BY <1>1 DEF CopyTypes, BufferType, ErrLabels
<1>4. Holding'
  BY <1>1 DEF Holding, Loop
<1>5. OneToken'
  BY <1>1 DEF OneToken, Loop
<1>6. Contents'
  BY <1>1 DEF Contents, Full
<1>7. Destination'
  BY DEF Destination
<1> QED
  BY <1>3, <1>4, <1>5, <1>6, <1>7

\* The threads are joined, the program ends.
LEMMA EndKeeps == IInv /\ (MainJoins \/ MainExits) => IInv'
<1> SUFFICES ASSUME IInv, MainJoins \/ MainExits PROVE IInv'
  OBVIOUS
<1> USE BufferAssumption DEF IInv, threadVars
<1>1. CASE MainJoins
  <2> USE <1>1 DEF MainJoins
  <2>1. CopyTypes'
    BY DEF CopyTypes, BufferType, ErrLabels
  <2>2. Holding'
    BY DEF Holding, Loop
  <2>3. OneToken'
    BY DEF OneToken, Loop, SetUp, Resources
  <2>4. Contents'
    BY DEF Contents, Full
  <2>5. Destination'
    BY DEF Destination
  <2> QED
    BY <2>1, <2>2, <2>3, <2>4, <2>5
<1>2. CASE MainExits
  <2> USE <1>2 DEF MainExits
  <2>1. CopyTypes'
    BY DEF CopyTypes, BufferType
  <2>2. Holding'
    BY DEF Holding, Loop
  <2>3. OneToken'
    BY DEF OneToken, Loop, SetUp, Resources
  <2>4. Contents'
    BY DEF Contents, Full
  <2>5. Destination'
    BY DEF Destination
  <2> QED
    BY <2>1, <2>2, <2>3, <2>4, <2>5
<1> QED
  BY <1>1, <1>2

\* main goes round its loop: it gets the token, fills the buffer, hands it over.
LEMMA ReadKeeps == IInv /\ MainReads => IInv'
<1> SUFFICES ASSUME IInv, MainReads PROVE IInv'
  OBVIOUS
<1> USE BufferAssumption DEF IInv, MainReads, ProducerStep, threadVars, End, Error
<1>1. Destination'
  BY DEF Destination, ProducerGets, ProducerReads, ProducerPosts
<1>2. CASE ProducerGets
  <2> USE <1>2 DEF ProducerGets
  <2>1. CopyTypes'
    BY DEF CopyTypes, BufferType
  <2>2. Holding'
    BY DEF Holding, Loop
  <2>3. OneToken'
    BY DEF OneToken, Loop, SetUp, Resources, CopyTypes, BufferType
  <2>4. Contents'
    BY DEF Contents, Full, OneToken
  <2> QED
    BY <1>1, <2>1, <2>2, <2>3, <2>4
<1>3. CASE ProducerReads
  <2> USE <1>3 DEF ProducerReads, ReadSucceeds, ReadFails
  <2>1. CopyTypes'
    BY DEF CopyTypes, BufferType
  <2>2. Holding'
    BY DEF Holding, Loop
  <2>3. OneToken'
    BY DEF OneToken, Loop, SetUp, Resources
  <2>4. ~Full /\ Len(out) = pos /\ cons = "get" /\ semRead = 0 /\ pos \in 0..Size
    BY DEF Contents, Full, OneToken, CopyTypes, BufferType
  <2>5. Contents'
    BY <2>4 DEF Contents, Full
  <2> QED
    BY <1>1, <2>1, <2>2, <2>3, <2>5
<1>4. CASE ProducerPosts("join")
  <2> USE <1>4 DEF ProducerPosts
  <2>1. CopyTypes'
    BY DEF CopyTypes, BufferType, OneToken
  <2>2. Holding'
    BY DEF Holding, Loop
  <2>3. OneToken'
    BY DEF OneToken, Loop, SetUp, Resources
  <2>4. Contents'
    BY DEF Contents, Full, OneToken
  <2> QED
    BY <1>1, <2>1, <2>2, <2>3, <2>4
<1> QED
  BY <1>2, <1>3, <1>4

\* A successful write at the offset extends what was written, or replaces one
\* old block.
LEMMA WriteAtFacts ==
  ASSUME NEW d \in Seq(0..Size), NEW at \in 0..Len(d), NEW b \in 1..Size
  PROVE  /\ WriteAt(d, at, b) \in Seq(0..Size)
         /\ Len(WriteAt(d, at, b)) >= at + 1
         /\ Len(WriteAt(d, at, b)) = IF at < Len(d) THEN Len(d) ELSE Len(d) + 1
         /\ \A i \in 1..Len(WriteAt(d, at, b)) :
              WriteAt(d, at, b)[i] = IF i = at + 1 THEN b ELSE d[i]
<1> USE BufferAssumption
<1>1. CASE at < Len(d)
  <2> DEFINE e == [d EXCEPT ![at + 1] = b]
  <2>1. e \in Seq(0..Size) /\ Len(e) = Len(d)
    BY <1>1
  <2>2. \A i \in 1..Len(d) : e[i] = IF i = at + 1 THEN b ELSE d[i]
    BY <1>1
  <2>3. WriteAt(d, at, b) = e
    BY <1>1 DEF WriteAt
  <2> QED
    BY <1>1, <2>1, <2>2, <2>3
<1>2. CASE at = Len(d)
  <2> DEFINE e == Append(d, b)
  <2>1. e \in Seq(0..Size) /\ Len(e) = Len(d) + 1
    OBVIOUS
  <2>2. \A i \in 1..Len(e) : e[i] = IF i = at + 1 THEN b ELSE d[i]
    BY <1>2
  <2>3. WriteAt(d, at, b) = e
    BY <1>2 DEF WriteAt
  <2> QED
    BY <1>2, <2>1, <2>2, <2>3
<1> QED
  BY <1>1, <1>2

\* The thread goes round its loop: it gets the token, writes, hands it back.
LEMMA WriteKeeps == IInv /\ ThreadWrites => IInv'
<1> SUFFICES ASSUME IInv, ThreadWrites PROVE IInv'
  OBVIOUS
<1> USE BufferAssumption DEF IInv, ThreadWrites, ConsumerStep, End, Error
<1>1. CASE ConsumerGets
  <2> USE <1>1 DEF ConsumerGets, TakesToken
  <2>1. CopyTypes'
    BY DEF CopyTypes, BufferType
  <2>2. Holding'
    BY DEF Holding, Loop
  <2>3. OneToken'
    BY DEF OneToken, Loop, SetUp, Resources, CopyTypes, BufferType
  <2>4. Contents'
    <3>1. semRead = 1 /\ Full
      BY DEF CopyTypes, BufferType, Full
    <3>2. Full' /\ buf' = buf /\ pos' = pos /\ out' = out /\ prod' = prod
      BY DEF Full
    <3> QED
      BY <3>1, <3>2 DEF Contents
  <2>5. Destination'
    BY DEF Destination
  <2> QED
    BY <2>1, <2>2, <2>3, <2>4, <2>5
<1>2. CASE ConsumerPosts
  <2> USE <1>2 DEF ConsumerPosts, GivesBack
  <2>0. semWrite = 0 /\ semRead = 0 /\ prod = "get"
    BY DEF OneToken, CopyTypes, SetUp, Loop, ErrLabels
  <2>1. CopyTypes'
    BY <2>0 DEF CopyTypes, BufferType
  <2>2. Holding'
    BY DEF Holding, Loop
  <2>3. OneToken'
    BY <2>0 DEF OneToken, Loop, SetUp, Resources
  <2>4. Contents'
    BY <2>0 DEF Contents, Full
  <2>5. Destination'
    BY DEF Destination
  <2> QED
    BY <2>1, <2>2, <2>3, <2>4, <2>5
<1>3. CASE ConsumerTakes /\ buf \in {End, Error}
  <2> USE <1>3 DEF ConsumerTakes, Prints
  <2>0. Full /\ semWrite = 0 /\ semRead = 0 /\ prod \in {"get", "join"}
    BY DEF OneToken, Full, SetUp, Loop
  <2>1. CopyTypes'
    BY DEF CopyTypes, BufferType
  <2>2. Holding'
    BY DEF Holding, Loop
  <2>3. OneToken'
    BY <2>0 DEF OneToken, Loop, SetUp, Resources, Contents
  <2>4. Contents'
    BY <2>0 DEF Contents, Full
  <2>5. Destination'
    BY DEF Destination
  <2> QED
    BY <2>1, <2>2, <2>3, <2>4, <2>5
<1>4. CASE ConsumerTakes /\ buf \notin {End, Error}
  <2> USE <1>4 DEF ConsumerTakes, Prints
  <2>0. Full /\ semWrite = 0 /\ semRead = 0 /\ prod = "get"
    BY DEF OneToken, Full, SetUp, Loop, Contents
  <2>1. buf \in 1..Size /\ Len(out) + 1 = buf /\ out \in Seq(1..Size) /\ pos = buf
    BY <2>0 DEF Contents, CopyTypes, BufferType
  <2>2. /\ out' \in Seq(1..Size) /\ Len(out') = Len(out) + 1
        /\ \A i \in 1..Len(out') : out'[i] = i
    BY <2>0, <2>1 DEF Contents
  <2>3. dest \in Seq(0..Size) /\ destOffset \in 0..Len(dest) /\ lost \in {"yes", "no"}
    BY DEF CopyTypes
  <2>4. \/ dest' = WriteAt(dest, destOffset, buf) /\ destOffset' = destOffset + 1 /\ lost' = lost
        \/ lost' = "yes" /\ dest' = dest /\ destOffset' = destOffset
    OBVIOUS
  <2>5. dest' \in Seq(0..Size) /\ destOffset' \in 0..Len(dest') /\ lost' \in {"yes", "no"}
    <3>1. CASE dest' = WriteAt(dest, destOffset, buf) /\ destOffset' = destOffset + 1 /\ lost' = lost
      BY <2>1, <2>3, <3>1, WriteAtFacts
    <3>2. CASE lost' = "yes" /\ dest' = dest /\ destOffset' = destOffset
      BY <2>3, <3>2
    <3> QED
      BY <2>4, <3>1, <3>2
  <2>6. CopyTypes'
    BY <2>0, <2>2, <2>5 DEF CopyTypes, BufferType
  <2>7. Holding'
    BY DEF Holding, Loop
  <2>8. OneToken'
    BY <2>0 DEF OneToken, Loop, SetUp, Resources
  <2>9. Contents'
    BY <2>0, <2>1, <2>2 DEF Contents, Full
  <2>10. Destination'
    <3>1. ret = "failure"
      BY DEF Destination, CopyTypes
    <3>2. SUFFICES ASSUME lost' = "no"
                   PROVE  /\ destOffset' = Len(out')
                          /\ \A b \in 1..Len(dest') :
                               dest'[b] = IF b <= destOffset' THEN b ELSE Old
      BY <3>1 DEF Destination
    <3>3. lost = "no" /\ dest' = WriteAt(dest, destOffset, buf) /\ destOffset' = destOffset + 1
      BY <2>4, <3>2
    <3>4. destOffset = Len(out) /\ \A b \in 1..Len(dest) : dest[b] = IF b <= destOffset THEN b ELSE Old
      BY <3>3 DEF Destination
    <3>5. /\ Len(dest') = IF destOffset < Len(dest) THEN Len(dest) ELSE Len(dest) + 1
          /\ \A b \in 1..Len(dest') : dest'[b] = IF b = destOffset + 1 THEN buf ELSE dest[b]
      BY <2>1, <2>3, <3>3, WriteAtFacts
    <3>6. ASSUME NEW b \in 1..Len(dest')
          PROVE  dest'[b] = IF b <= destOffset' THEN b ELSE Old
      <4>1. b = destOffset + 1 \/ b \in 1..Len(dest)
        BY <2>3, <3>5
      <4> QED
        BY <2>1, <2>3, <3>3, <3>4, <3>5, <4>1
    <3> QED
      BY <2>2, <3>3, <3>4, <3>6
  <2> QED
    BY <2>6, <2>7, <2>8, <2>9, <2>10
<1> QED
  BY <1>1, <1>2, <1>3, <1>4

\* Every reachable state satisfies the invariant.
THEOREM Inductive == CopySpec => []IInv
<1>1. CopyInit => IInv
  BY InitIInv
<1>2. IInv /\ [CopyNext]_copyVars => IInv'
  <2> SUFFICES ASSUME IInv, [CopyNext]_copyVars PROVE IInv'
    OBVIOUS
  <2>1. CASE MainStep
    BY <2>1, AcquireKeeps, AcquireFailsKeeps, ReadKeeps, EndKeeps, ReleaseKeeps DEF MainStep
  <2>2. CASE ThreadWrites
    BY <2>2, WriteKeeps
  <2>3. CASE UNCHANGED copyVars
    <3> USE <2>3 DEF IInv, copyVars, bufferVars, threadVars
    <3>1. CopyTypes'
      BY DEF CopyTypes, BufferType
    <3>2. Holding'
      BY DEF Holding
    <3>3. OneToken'
      BY DEF OneToken
    <3>4. Contents'
      BY DEF Contents, Full
    <3>5. Destination'
      BY DEF Destination
    <3> QED
      BY <3>1, <3>2, <3>3, <3>4, <3>5
  <2> QED
    BY <2>1, <2>2, <2>3 DEF CopyNext
<1> QED
  BY <1>1, <1>2, PTL DEF CopySpec

\* Type correctness: whatever fails, a semaphore of 53.1 never exceeds 1 and
\* the buffer never holds a block outside the source.
THEOREM TypeCorrect == CopySpec => []CopyTypes
<1>1. IInv => CopyTypes
  BY DEF IInv
<1> QED
  BY <1>1, Inductive, PTL

\* Neither thread uses what main has released, on any path through the labels.
THEOREM ReleasedLast == CopySpec => []NoUseAfterRelease
BY Inductive, IInvReleased, PTL

\* A copy reported as successful, none of whose writes failed, holds the source.
THEOREM Faithful == CopySpec => []CopyIsFaithful
BY Inductive, IInvFaithful, PTL

\* The hand-over through Gbuf implements the abstract block stream: each step
\* delivers the next block, closes the stream after the last, or is invisible.
THEOREM ImplementsBlockStream == CopySpec => HandsOverInOrder
<1>1. CopyInit => Promise!StreamInit
  BY DEF CopyInit, Promise!StreamInit
<1>2. IInv /\ [CopyNext]_copyVars => [Promise!StreamNext]_(Promise!streamVars)
  <2> SUFFICES ASSUME IInv, [CopyNext]_copyVars
               PROVE  Promise!StreamNext \/ UNCHANGED Promise!streamVars
    OBVIOUS
  <2> USE DEF Promise!StreamNext, Promise!streamVars
  <2>1. CASE MainStep
    <3>1. out' = out
      BY <2>1 DEF MainStep, Acquire, AcquireWith, AcquireFails, MainReads, ProducerStep, ProducerGets,
                  ProducerReads, ProducerPosts, threadVars, MainJoins, MainReleases, MainExits
    <3>2. cons = "done" <=> cons' = "done"
      BY <2>1 DEF MainStep, Acquire, AcquireWith, AcquireFails, MainReads, ProducerStep, ProducerGets,
                  ProducerReads, ProducerPosts, threadVars, MainJoins, MainReleases, MainExits, IInv, OneToken
    <3> QED
      BY <3>1, <3>2
  <2>2. CASE ThreadWrites /\ ~ConsumerTakes
    BY <2>2 DEF ThreadWrites, ConsumerStep, ConsumerGets, ConsumerPosts, TakesToken, GivesBack
  <2>3. CASE ConsumerTakes
    <3> USE <2>3 DEF ConsumerTakes, Prints
    <3>1. Full
      BY DEF Full
    <3>2. CASE buf = End
      BY <3>1, <3>2 DEF IInv, Contents, Promise!Close, End, Error
    <3>3. CASE buf = Error
      BY <3>3 DEF End, Error
    <3>4. CASE buf \notin {End, Error}
      <4>1. buf = Len(out) + 1 /\ Len(out) < Size
        BY <3>1, <3>4, BufferAssumption DEF IInv, Contents, CopyTypes, BufferType, End, Error
      <4>2. out' = Append(out, Len(out) + 1) /\ cons' = "post"
        BY <3>4, <4>1
      <4> QED
        BY <4>1, <4>2 DEF Promise!Deliver
    <3> QED
      BY <3>2, <3>3, <3>4
  <2>4. CASE UNCHANGED copyVars
    BY <2>4 DEF copyVars, bufferVars, threadVars
  <2> QED
    BY <2>1, <2>2, <2>3, <2>4 DEF CopyNext, ThreadWrites
<1> QED
  BY <1>1, <1>2, Inductive, PTL DEF CopySpec, HandsOverInOrder, Promise!StreamSpec
=============================================================================
