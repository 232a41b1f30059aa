--------------------------- MODULE ShmTransferProof ---------------------------
(***************************************************************************)
(* Proofs about routines/48.4, for files of any length, any number of runs *)
(* and readers, and every fault:                                           *)
(*   - the values stay in their ranges, and there is one token as long as  *)
(*     no process is killed;                                               *)
(*   - a writer that exits leaves no segment;                              *)
(*   - as long as no process is killed, the readers have the file between  *)
(*     them when one of them ends, and all they print on the way is the    *)
(*     stream of BlockStream.                                              *)
(***************************************************************************)
EXTENDS ShmTransfer, TLAPS

-----------------------------------------------------------------------------
(* The invariant.                                                          *)

\* A reader has taken a token and not given it back.
Holds(r) == cons[r] \in {"take", "post"}

\* How many tokens there are, in a semaphore, with the writer or with a reader,
\* as long as at most one reader has one.
Writing == IF ProducerHolds THEN 1 ELSE 0
Reading == IF \E r \in Readers : Holds(r) THEN 1 ELSE 0
AtMost(n) == semWrite + semRead + Writing + Reading <= n

\* The values, and what is so even if processes are killed.
ShmTypes ==
  /\ semWrite \in Nat /\ semRead \in Nat
  /\ buf \in Error..Size /\ old \in [1..MaxRuns -> Error..Size]
  /\ pos \in 0..Size /\ out \in Seq(1..Size)
  /\ prod \in {"start", "semget", "setRead", "setWrite", "open", "get", "read", "post",
               "postEnd", "rmShm", "rmSem", "failed", "exited", "killed"}
  /\ run \in 1..MaxRuns /\ segment \in 0..run
  /\ set0 \in {"unused", "key", "foreign", "removed"}
  /\ keySet \in {"none", "zero", "other"}
  /\ killed \in {"yes", "no"}

ReaderTypes ==
  /\ cons \in [Readers -> {"none", "shmget", "shmat", "semget", "get", "take", "post",
                           "done", "failed", "killed"}]
  /\ attached \in [Readers -> 0..run]
  /\ readSet \in [Readers -> {"none", "zero", "other"}]

Always ==
  /\ prod \in {"rmSem", "exited"} => segment = 0
  /\ keySet = "zero" <=> set0 = "key"
  /\ \A r \in Readers :
       /\ readSet[r] = "zero" => set0 \in {"key", "removed"}
       /\ cons[r] \in {"shmat", "semget", "get", "take", "post"} => attached[r] > 0
       /\ cons[r] \in {"none", "shmget", "shmat", "semget"} => readSet[r] = "none"
       /\ Holds(r) => readSet[r] = "zero"

Starting == {"start", "semget"}
Copies == {"get", "read", "post", "postEnd"}
Ending == {"rmShm", "rmSem"}
BeforeCopies == {"setRead", "setWrite", "open", "failed"}

\* Of all the runs only the first ever copies: it takes the set with it.
OneRun ==
  /\ run > 1 => set0 = "removed" /\ prod \in Starting \cup {"setRead", "failed", "exited"}
  /\ run = 1 /\ prod \in Starting => set0 \in {"unused", "foreign"} /\ keySet = "none" /\ pos = 0
  /\ run = 1 /\ prod \notin Starting \cup {"exited"} => set0 \in {"key", "foreign"}
  /\ prod = "exited" => set0 = "removed"
  /\ prod # "killed"
  /\ \A r \in Readers : readSet[r] = "zero" => attached[r] = 1

\* One token, from the SETVAL that makes it to the end that a reader takes.
OneToken ==
  /\ AtMost(1)
  /\ \A q, r \in Readers : Holds(q) /\ Holds(r) => q = r
  /\ set0 \in {"unused", "removed"} \/ prod \in Starting \cup {"setRead", "setWrite"} =>
       semWrite = 0 /\ semRead = 0
  /\ set0 = "key" /\ prod \in BeforeCopies =>
       pos = 0 /\ semRead = 0 /\ \A r \in Readers : ~Holds(r) /\ cons[r] # "done"
  /\ set0 = "key" /\ (\E r \in Readers : cons[r] = "done") => prod \in Ending /\ AtMost(0)
  /\ set0 = "key" /\ prod \in Ending =>
       semWrite = 0 /\ \A r \in Readers : cons[r] # "post"

\* The buffer holds something no reader has taken yet.
Full == prod \in {"post", "postEnd"} \/ semRead = 1 \/ \E r \in Readers : cons[r] = "take"

\* What has passed through the set of SEM_KEY, and what the buffer holds.
Contents ==
  /\ \A i \in 1..Len(out) : out[i] = i
  /\ set0 \in {"unused", "foreign"} => out = <<>>
  /\ set0 = "key" =>
       /\ prod \in BeforeCopies => out = <<>>
       /\ semWrite = 1 \/ prod = "read" \/ (\E r \in Readers : cons[r] = "post") =>
            Len(out) = pos
       /\ Full /\ prod \in {"get", "post"} => buf # End
       /\ Full /\ prod \notin {"get", "post"} => buf = End
       /\ Full /\ buf = End => Len(out) = pos /\ pos = Size
       /\ Full /\ buf = Error => Len(out) = pos
       /\ Full /\ buf \notin {End, Error} => buf = pos /\ Len(out) + 1 = pos
  /\ set0 = "removed" =>
       \A r \in Readers : /\ cons[r] # "post"
                          /\ cons[r] = "take" => Seen(r) = End /\ Len(out) = Size
  /\ \A r \in Readers : cons[r] = "done" => Len(out) = Size /\ set0 \in {"key", "removed"}

Calm == OneRun /\ OneToken /\ Contents
ShmInv == ShmTypes /\ ReaderTypes /\ Always /\ (killed = "no" => Calm)

-----------------------------------------------------------------------------
(* What is so whatever happens.                                            *)

\* Before the first run there is no token, no set and nothing to read.
LEMMA InitShm == Init => ShmInv
<1> SUFFICES ASSUME Init
             PROVE  ShmInv
  OBVIOUS
<1> USE BufferAssumption, ShmAssumption DEF Init
<1>1. ShmTypes
  BY DEF ShmTypes, End, Error
<1>2. ReaderTypes
  BY DEF ReaderTypes
<1>3. Always
  BY DEF Always, Holds
<1>4. \A r \in Readers : ~Holds(r) /\ cons[r] = "none" /\ readSet[r] = "none"
  BY DEF Holds
<1>5. OneRun
  BY <1>4 DEF OneRun, Starting
<1>6. OneToken
  BY <1>4 DEF OneToken, Starting, BeforeCopies, AtMost, Writing, Reading, ProducerHolds
<1>7. Contents
  BY <1>4 DEF Contents, Full
<1>8. QED
  BY <1>1, <1>2, <1>3, <1>5, <1>6, <1>7 DEF ShmInv, Calm

\* The writer keeps types and order, killed or not.
LEMMA WriterKeepsTypes ==
  ASSUME ShmTypes, ReaderTypes, Always, Writer
  PROVE  ShmTypes' /\ ReaderTypes' /\ Always'
<1> USE BufferAssumption, ShmAssumption DEF End, Error
<1>1. /\ UNCHANGED <<cons, attached, readSet, out>> /\ run <= run' /\ run' \in 1..MaxRuns
      /\ old' \in [1..MaxRuns -> Error..Size]
  <2> USE DEF ShmTypes, readerVars, writerVars
  <2>1. CASE WriterStarts
    BY <2>1 DEF WriterStarts
  <2>2. CASE ~WriterStarts
    BY <2>2 DEF Writer, WriterCreates, WriterSemget, WriterSets, WriterSetsTo, WriterOpens,
                WriterCopies, ProducerStep, ProducerGets, ProducerReads, ProducerPosts,
                WriterRemovesShm, WriterRemovesSem, WriterFails, WriterKilled
  <2>3. QED
    BY <2>1, <2>2
<1>2. ReaderTypes'
  BY <1>1 DEF ReaderTypes, ShmTypes
<1> USE DEF ShmTypes, Always, Holds, writerVars
<1>3. CASE WriterStarts
  BY <1>1, <1>2, <1>3 DEF WriterStarts
<1>4. CASE WriterCreates
  BY <1>1, <1>2, <1>4 DEF WriterCreates
<1>5. CASE WriterSemget
  BY <1>1, <1>2, <1>5 DEF WriterSemget
<1>6. CASE WriterSets
  BY <1>1, <1>2, <1>6 DEF WriterSets, WriterSetsTo
<1>7. CASE WriterOpens
  BY <1>1, <1>2, <1>7 DEF WriterOpens
<1>8. CASE WriterCopies
  <2>1. CASE ProducerGets
    BY <1>1, <1>2, <1>8, <2>1 DEF WriterCopies, ProducerGets
  <2>2. CASE ProducerReads
    BY <1>1, <1>2, <1>8, <2>2 DEF WriterCopies, ProducerReads, ReadSucceeds, ReadFails
  <2>3. CASE ProducerPosts("rmShm")
    BY <1>1, <1>2, <1>8, <2>3 DEF WriterCopies, ProducerPosts
  <2>4. QED
    BY <1>8, <2>1, <2>2, <2>3 DEF WriterCopies, ProducerStep
<1>9. CASE WriterRemovesShm
  BY <1>1, <1>2, <1>9 DEF WriterRemovesShm
<1>10. CASE WriterRemovesSem
  BY <1>1, <1>2, <1>10 DEF WriterRemovesSem, RemoveSet0, Exists
<1>11. CASE WriterFails
  BY <1>1, <1>2, <1>11 DEF WriterFails, RemoveSet0, Exists
<1>12. CASE WriterKilled
  BY <1>1, <1>2, <1>12 DEF WriterKilled
<1>13. QED
  BY <1>3, <1>4, <1>5, <1>6, <1>7, <1>8, <1>9, <1>10, <1>11, <1>12 DEF Writer

\* What a reader sees is a block, the end or an error.
LEMMA SeenType ==
  ASSUME ShmTypes, ReaderTypes, Always, NEW r \in Readers, Holds(r)
  PROVE  Seen(r) \in Error..Size
<1>1. attached[r] \in 1..MaxRuns
  BY ShmAssumption DEF ShmTypes, ReaderTypes, Always, Holds
<1>2. QED
  BY <1>1 DEF ShmTypes, Seen

\* What a reader hands to write() is a block.
LEMMA PrintsType ==
  ASSUME ShmTypes, NEW b \in Error..Size, Prints(b)
  PROVE  out' \in Seq(1..Size)
<1> USE BufferAssumption DEF End, Error
<1>1. CASE b \in {End, Error}
  BY <1>1 DEF ShmTypes, Prints
<1>2. CASE b \notin {End, Error}
  <2>1. out' = Append(out, b) /\ out \in Seq(1..Size) /\ b \in 1..Size
    BY <1>2 DEF ShmTypes, Prints
  <2>2. QED
    BY <2>1
<1>3. QED
  BY <1>1, <1>2

\* A reader touches none of the writer's variables.
LEMMA ReaderLeavesWriter ==
  ASSUME NEW r \in Readers, Reader(r)
  PROVE  UNCHANGED <<run, segment, old, set0, keySet, buf, pos, prod>>
BY DEF Reader, ReaderStarts, ReaderShmget, ReaderShmat, ReaderSemget, ReaderGets, ReaderTakes,
       ReaderPosts, ReaderFails, ReaderKilled, TakesToken, Prints, GivesBack, bufferVars, writerVars

\* A reader touches no other reader's.
LEMMA ReaderLeavesOthers ==
  ASSUME ReaderTypes, NEW r \in Readers, Reader(r), NEW q \in Readers, q # r
  PROVE  cons'[q] = cons[q] /\ attached'[q] = attached[q] /\ readSet'[q] = readSet[q]
BY DEF Reader, ReaderStarts, ReaderShmget, ReaderShmat, ReaderSemget, ReaderGets,
       ReaderTakes, ReaderPosts, ReaderFails, ReaderKilled, Goes, Leaves, ReaderTypes

\* Where a reader can go, and what it has there.
LEMMA ReaderGoes ==
  ASSUME ShmTypes, ReaderTypes, Always, NEW r \in Readers, Reader(r)
  PROVE  /\ cons' \in [Readers -> {"none", "shmget", "shmat", "semget", "get", "take", "post",
                                  "done", "failed", "killed"}]
         /\ attached' \in [Readers -> 0..run]
         /\ readSet' \in [Readers -> {"none", "zero", "other"}]
         /\ readSet'[r] = "zero" => readSet[r] = "zero" \/ keySet = "zero"
         /\ cons'[r] \in {"shmat", "semget", "get", "take", "post"} => attached'[r] > 0
         /\ cons'[r] \in {"none", "shmget", "shmat", "semget"} => readSet'[r] = "none"
         /\ cons'[r] \in {"take", "post"} => readSet'[r] = "zero"
<1> USE DEF Goes, Leaves, Holds, ReaderTypes, ShmTypes, Always
<1>1. CASE ReaderStarts(r)
  BY <1>1 DEF ReaderStarts
<1>2. CASE ReaderShmget(r)
  <2>1. CASE Leaves(r, "shmget", "failed")
    BY <2>1
  <2>2. CASE /\ segment # 0 /\ Goes(r, "shmget", "shmat")
             /\ attached' = [attached EXCEPT ![r] = segment] /\ UNCHANGED readSet
    <3>1. segment \in 1..run /\ readSet[r] = "none"
      BY <2>2
    <3>2. attached' \in [Readers -> 0..run] /\ attached'[r] = segment
      BY <2>2, <3>1
    <3>3. QED
      BY <2>2, <3>1, <3>2
  <2>3. QED
    BY <1>2, <2>1, <2>2 DEF ReaderShmget
<1>3. CASE ReaderShmat(r)
  <2>1. CASE Goes(r, "shmat", "semget") /\ UNCHANGED <<attached, readSet>>
    BY <2>1
  <2>2. CASE Leaves(r, "shmat", "failed")
    BY <2>2
  <2>3. QED
    BY <1>3, <2>1, <2>2 DEF ReaderShmat
<1>4. CASE ReaderSemget(r)
  <2>1. CASE /\ Goes(r, "semget", "get")
             /\ readSet' = [readSet EXCEPT ![r] = keySet] /\ UNCHANGED attached
    BY <2>1
  <2>2. CASE Leaves(r, "semget", "failed")
    BY <2>2
  <2>3. QED
    BY <1>4, <2>1, <2>2 DEF ReaderSemget
<1>5. CASE ReaderGets(r)
  BY <1>5 DEF ReaderGets
<1>6. CASE ReaderTakes(r)
  <2>1. CASE Goes(r, "take", "post") /\ UNCHANGED <<attached, readSet>>
    BY <2>1
  <2>2. CASE Leaves(r, "take", "done")
    BY <2>2
  <2>3. QED
    BY <1>6, <2>1, <2>2 DEF ReaderTakes
<1>7. CASE ReaderPosts(r)
  BY <1>7 DEF ReaderPosts
<1>8. CASE ReaderFails(r) \/ ReaderKilled(r)
  <2>1. PICK from, to : Leaves(r, from, to) /\ to \in {"failed", "killed"}
    BY <1>8 DEF ReaderFails, ReaderKilled
  <2>2. QED
    BY <2>1
<1>9. QED
  BY <1>1, <1>2, <1>3, <1>4, <1>5, <1>6, <1>7, <1>8 DEF Reader

\* A reader keeps types and order too, whichever others there are.
LEMMA ReaderKeepsTypes ==
  ASSUME ShmTypes, ReaderTypes, Always, NEW r \in Readers, Reader(r)
  PROVE  ShmTypes' /\ ReaderTypes' /\ Always'
<1>1. UNCHANGED <<run, segment, old, set0, keySet, buf, pos, prod>>
  BY ReaderLeavesWriter
<1>2. semWrite' \in Nat /\ semRead' \in Nat /\ killed' \in {"yes", "no"}
  BY DEF Reader, ReaderStarts, ReaderShmget, ReaderShmat, ReaderSemget, ReaderGets, ReaderTakes,
         ReaderPosts, ReaderFails, ReaderKilled, TakesToken, Prints, GivesBack, bufferVars, ShmTypes
<1>3. out' \in Seq(1..Size)
  <2>1. CASE ReaderTakes(r) /\ killed = "no"
    BY <2>1, SeenType, PrintsType DEF ReaderTakes, Holds
  <2>2. CASE ~(ReaderTakes(r) /\ killed = "no")
    BY <2>2 DEF Reader, ReaderStarts, ReaderShmget, ReaderShmat, ReaderSemget, ReaderGets,
         ReaderTakes, ReaderPosts, ReaderFails, ReaderKilled, TakesToken, GivesBack, bufferVars,
         ShmTypes
  <2>3. QED
    BY <2>1, <2>2
<1>4. ShmTypes'
  BY <1>1, <1>2, <1>3 DEF ShmTypes
<1>5. ReaderTypes'
  BY <1>1, ReaderGoes DEF ReaderTypes
<1>6. ASSUME NEW q \in Readers
      PROVE  /\ readSet'[q] = "zero" => set0 \in {"key", "removed"}
             /\ cons'[q] \in {"shmat", "semget", "get", "take", "post"} => attached'[q] > 0
             /\ cons'[q] \in {"none", "shmget", "shmat", "semget"} => readSet'[q] = "none"
             /\ cons'[q] \in {"take", "post"} => readSet'[q] = "zero"
  <2>1. CASE q = r
    BY <2>1, ReaderGoes DEF Always
  <2>2. CASE q # r
    BY <2>2, ReaderLeavesOthers DEF Always, Holds
  <2>3. QED
    BY <2>1, <2>2
<1>7. QED
  BY <1>1, <1>4, <1>5, <1>6 DEF Always, Holds

-----------------------------------------------------------------------------
(* As long as no process is killed.                                        *)

\* The writer touches no reader's variables and prints nothing.
LEMMA WriterLeavesReaders ==
  ASSUME Writer
  PROVE  UNCHANGED <<cons, attached, readSet, out>>
BY DEF Writer, WriterStarts, WriterCreates, WriterSemget, WriterSets, WriterSetsTo, WriterOpens,
       WriterCopies, ProducerStep, ProducerGets, ProducerReads, ProducerPosts,
       WriterRemovesShm, WriterRemovesSem, WriterFails, WriterKilled, readerVars

\* Only the first run gets past the semaphores.
LEMMA RunsKeep ==
  ASSUME ShmTypes, ReaderTypes, Always, OneRun, Next, killed' = "no"
  PROVE  OneRun'
<1> USE DEF ShmTypes, Starting
<1>1. CASE \E r \in Readers : Reader(r)
  <2> PICK r \in Readers : Reader(r)
    BY <1>1
  <2>1. UNCHANGED <<run, set0, keySet, prod, pos>>
    BY ReaderLeavesWriter
  <2>2. ASSUME NEW q \in Readers, readSet'[q] = "zero"
        PROVE  attached'[q] = 1
    <3>1. CASE q # r
      BY <2>2, <3>1 DEF Reader, ReaderStarts, ReaderShmget, ReaderShmat, ReaderSemget, ReaderGets,
           ReaderTakes, ReaderPosts, ReaderFails, ReaderKilled, Goes, Leaves, ReaderTypes, OneRun
    <3>2. CASE q = r /\ ReaderSemget(r)
      <4>1. keySet = "zero" /\ cons[r] = "semget" /\ attached' = attached
        BY <2>2, <3>2 DEF ReaderSemget, Leaves, Goes, ReaderTypes
      <4>2. run = 1 /\ attached[r] \in 1..1
        BY <4>1 DEF Always, OneRun, ReaderTypes
      <4>3. QED
        BY <3>2, <4>1, <4>2
    <3>3. CASE q = r /\ ReaderShmget(r)
      BY <2>2, <3>3 DEF ReaderShmget, Leaves, Goes, ReaderTypes, Always
    <3>4. CASE q = r /\ ~ReaderSemget(r) /\ ~ReaderShmget(r)
      BY <2>2, <3>4 DEF Reader, ReaderStarts, ReaderShmat, ReaderGets,
           ReaderTakes, ReaderPosts, ReaderFails, ReaderKilled, Goes, Leaves, ReaderTypes, OneRun
    <3>5. QED
      BY <3>1, <3>2, <3>3, <3>4
  <2>3. QED
    BY <2>1, <2>2 DEF OneRun
<1>2. CASE Writer
  <2>0. UNCHANGED <<attached, readSet>>
    BY <1>2, WriterLeavesReaders
  <2>1. CASE WriterStarts
    BY <2>0, <2>1 DEF WriterStarts, OneRun
  <2>2. CASE WriterCreates
    BY <2>0, <2>2 DEF WriterCreates, OneRun
  <2>3. CASE WriterSemget
    BY <2>0, <2>3 DEF WriterSemget, OneRun, Always
  <2>4. CASE WriterSets
    BY <2>0, <2>4 DEF WriterSets, WriterSetsTo, Exists, OneRun, writerVars
  <2>5. CASE WriterOpens
    BY <2>0, <2>5 DEF WriterOpens, OneRun, writerVars
  <2>6. CASE WriterCopies
    BY <2>0, <2>6 DEF WriterCopies, ProducerStep, ProducerGets, ProducerReads, ReadSucceeds,
                      ReadFails, ProducerPosts, OneRun, writerVars
  <2>7. CASE WriterRemovesShm
    BY <2>0, <2>7 DEF WriterRemovesShm, OneRun
  <2>8. CASE WriterRemovesSem \/ WriterFails
    BY <2>0, <2>8 DEF WriterRemovesSem, WriterFails, RemoveSet0, Exists, OneRun
  <2>9. CASE WriterKilled
    BY <2>9 DEF WriterKilled
  <2>10. QED
    BY <1>2, <2>1, <2>2, <2>3, <2>4, <2>5, <2>6, <2>7, <2>8, <2>9 DEF Writer
<1>3. QED
  BY <1>1, <1>2 DEF Next

\* Writer steps keep the token and the contents while things are set up: no
\* reader has a token yet.
LEMMA SetUpKeeps ==
  ASSUME ShmTypes, ReaderTypes, Always, Calm,
         WriterCreates \/ WriterSemget \/ WriterSets \/ WriterOpens
  PROVE  OneToken' /\ Contents'
<1> USE BufferAssumption
    DEF ShmTypes, Calm, Copies, Ending, Starting, BeforeCopies, readerVars, writerVars
<1>1. UNCHANGED <<cons, attached, readSet, out, run, old, buf, pos>>
  BY DEF WriterCreates, WriterSemget, WriterSets, WriterSetsTo, WriterOpens
<1>2. (\A r \in Readers : Holds(r)' = Holds(r) /\ Seen(r)' = Seen(r)) /\ Reading' = Reading
  BY <1>1 DEF Holds, Seen, Reading
<1>3. Reading \in 0..1 /\ (Reading = 0 <=> \A r \in Readers : ~Holds(r))
  BY DEF Reading
<1>4. CASE WriterCreates
  BY <1>1, <1>2, <1>3, <1>4 DEF WriterCreates, OneToken, Contents, Full,
     OneRun, AtMost, Writing, ProducerHolds
<1>5. CASE WriterSemget
  <2>1. \A r \in Readers : ~Holds(r) \/ set0 = "removed"
    BY <1>5 DEF WriterSemget, Always, OneRun
  <2>2. OneToken'
    BY <1>1, <1>2, <1>3, <1>5, <2>1 DEF WriterSemget, OneToken, Contents, OneRun,
       AtMost, Writing, ProducerHolds, Always
  <2>3. Contents'
    BY <1>1, <1>2, <1>5, <2>1 DEF WriterSemget, OneToken, Contents, Full, OneRun, Always, Holds
  <2>4. QED
    BY <2>2, <2>3
<1>6. CASE WriterSets
  <2>1. OneToken'
    BY <1>1, <1>2, <1>3, <1>6 DEF WriterSets, WriterSetsTo, Exists, OneToken, Contents, OneRun,
       AtMost, Writing, ProducerHolds, Always
  <2>2. Contents'
    BY <1>1, <1>2, <1>6 DEF WriterSets, WriterSetsTo, Exists, OneToken, Contents, Full, OneRun,
       Always, Holds
  <2>3. QED
    BY <2>1, <2>2
<1>7. CASE WriterOpens
  <2>1. OneToken'
    BY <1>1, <1>2, <1>3, <1>7 DEF WriterOpens, OneToken, Contents, OneRun, AtMost, Writing,
       ProducerHolds, Always
  <2>2. Contents'
    BY <1>1, <1>2, <1>7 DEF WriterOpens, OneToken, Contents, Full, OneRun, Always, Holds
  <2>3. QED
    BY <2>1, <2>2
<1>8. QED
  BY <1>4, <1>5, <1>6, <1>7

\* While it copies.
LEMMA WriterCopiesKeeps ==
  ASSUME ShmTypes, ReaderTypes, Always, Calm, WriterCopies
  PROVE  OneToken' /\ Contents'
<1> USE BufferAssumption
    DEF ShmTypes, Calm, Copies, Ending, Starting, BeforeCopies, readerVars, writerVars,
        WriterCopies, ProducerStep
<1>1. UNCHANGED <<cons, attached, readSet, out, run, old, set0, keySet, segment>>
  BY DEF ProducerGets, ProducerReads, ProducerPosts
<1>2. (\A r \in Readers : Holds(r)' = Holds(r)) /\ Reading' = Reading
  BY <1>1 DEF Holds, Reading
<1>3. Reading \in 0..1 /\ (Reading = 0 <=> \A r \in Readers : ~Holds(r))
  BY DEF Reading
<1>4. run = 1 /\ set0 \in {"key", "foreign"}
  BY DEF ProducerGets, ProducerReads, ReadSucceeds, ReadFails, ProducerPosts, OneRun
<1>5. CASE ProducerGets
  <2>1. OneToken'
    BY <1>1, <1>2, <1>3, <1>4, <1>5 DEF ProducerGets, OneToken, AtMost, Writing, ProducerHolds
  <2>2. Contents'
    BY <1>1, <1>2, <1>3, <1>4, <1>5 DEF ProducerGets, OneToken, AtMost, Writing, ProducerHolds,
       Contents, Full, Holds
  <2>3. QED
    BY <2>1, <2>2
<1>6. CASE ProducerReads
  <2>1. Reading = 0 /\ semWrite = 0 /\ semRead = 0 /\ prod' \in {"post", "postEnd"}
    BY <1>3, <1>6 DEF ProducerReads, ReadSucceeds, ReadFails, OneToken, AtMost, Writing, ProducerHolds
  <2>2. OneToken'
    BY <1>1, <1>2, <1>3, <1>4, <1>6, <2>1 DEF ProducerReads, ReadSucceeds, ReadFails, OneToken,
       AtMost, Writing, ProducerHolds
  <2>3. Contents'
    BY <1>1, <1>2, <1>3, <1>4, <1>6, <2>1 DEF ProducerReads, ReadSucceeds, ReadFails, OneToken,
       Contents, Full, Holds, End, Error
  <2>4. QED
    BY <2>2, <2>3
<1>7. CASE ProducerPosts("rmShm")
  <2>1. Reading = 0 /\ semWrite = 0 /\ semRead = 0
    BY <1>3, <1>7 DEF ProducerPosts, OneToken, AtMost, Writing, ProducerHolds
  <2>2. OneToken'
    BY <1>1, <1>2, <1>3, <1>4, <1>7, <2>1 DEF ProducerPosts, OneToken, AtMost, Writing,
       ProducerHolds, Holds
  <2>3. Contents'
    BY <1>1, <1>2, <1>3, <1>4, <1>7, <2>1 DEF ProducerPosts, OneToken, Contents, Full, Holds
  <2>4. QED
    BY <2>2, <2>3
<1>8. QED
  BY <1>5, <1>6, <1>7

\* And when it ends, or another run starts.
LEMMA WriterEndsKeeps ==
  ASSUME ShmTypes, ReaderTypes, Always, Calm,
         WriterStarts \/ WriterRemovesShm \/ WriterRemovesSem \/ WriterFails
  PROVE  OneToken' /\ Contents'
<1> USE BufferAssumption
    DEF ShmTypes, Calm, Copies, Ending, Starting, BeforeCopies, readerVars
<1>1. UNCHANGED <<cons, attached, readSet, out>>
  BY DEF WriterStarts, WriterRemovesShm, WriterRemovesSem, WriterFails
<1>2. (\A r \in Readers : Holds(r)' = Holds(r)) /\ Reading' = Reading
  BY <1>1 DEF Holds, Reading
<1>3. Reading \in 0..1 /\ (Reading = 0 <=> \A r \in Readers : ~Holds(r))
  BY DEF Reading
<1>4. CASE WriterStarts
  <2>1. set0 = "removed" /\ set0' = set0
    BY <1>4 DEF WriterStarts, OneRun
  <2>2. ASSUME NEW r \in Readers, cons[r] = "take"
        PROVE  Seen(r)' = Seen(r)
    <3>1. attached[r] = 1 /\ Maps(r, 1)
      BY <2>2 DEF Always, Holds, OneRun, Maps
    <3>2. old' = [old EXCEPT ![run] =
                    IF segment = run \/ \E q \in Readers : Maps(q, run) THEN buf ELSE End]
          /\ run' = run + 1 /\ attached' = attached /\ 1 \in 1..MaxRuns
      BY <1>4, ShmAssumption DEF WriterStarts
    <3>3. CASE run = 1
      BY <3>1, <3>2, <3>3 DEF Seen
    <3>4. CASE run # 1
      BY <3>1, <3>2, <3>4 DEF Seen
    <3>5. QED
      BY <3>3, <3>4
  <2>3. OneToken'
    BY <1>1, <1>2, <1>3, <1>4, <2>1 DEF WriterStarts, OneToken, AtMost, Writing, ProducerHolds
  <2>4. Contents'
    BY <1>1, <1>4, <2>1, <2>2 DEF WriterStarts, Contents
  <2>5. QED
    BY <2>3, <2>4
<1>5. CASE WriterRemovesShm
  <2>1. OneToken'
    BY <1>1, <1>2, <1>3, <1>5 DEF WriterRemovesShm, OneToken, OneRun, AtMost, Writing, ProducerHolds
  <2>2. Contents'
    BY <1>1, <1>2, <1>5 DEF WriterRemovesShm, Contents, Full, OneRun, Seen
  <2>3. QED
    BY <2>1, <2>2
<1>6. CASE WriterRemovesSem \/ WriterFails
  <2>1. set0 \in {"key", "foreign", "removed"} /\ set0' = "removed" /\ semWrite' = 0 /\ semRead' = 0
        /\ prod' = "exited"
    BY <1>6 DEF WriterRemovesSem, WriterFails, RemoveSet0, Exists, OneRun
  <2>2. UNCHANGED <<buf, pos, run, old>>
    BY <1>6 DEF WriterRemovesSem, WriterFails
  <2>3. \A r \in Readers : Seen(r)' = Seen(r)
    BY <1>1, <2>2 DEF Seen
  <2>4. OneToken'
    BY <1>1, <1>2, <1>3, <2>1 DEF OneToken, AtMost, Writing, ProducerHolds
  <2>5. ASSUME NEW r \in Readers
        PROVE  /\ cons[r] # "post"
               /\ cons[r] = "take" => Seen(r) = End /\ Len(out) = Size
    <3>1. CASE set0 = "key" /\ prod = "rmSem"
      <4>1. cons[r] = "take" => attached[r] = 1 /\ run = 1 /\ Full
        BY <3>1 DEF Always, OneRun, Holds, Full
      <4>2. QED
        BY <3>1, <4>1 DEF OneToken, Contents, Seen
    <3>2. CASE set0 = "key" /\ prod = "failed"
      BY <3>2 DEF OneToken, Holds
    <3>3. CASE set0 = "foreign"
      BY <3>3 DEF Always, Holds
    <3>4. CASE set0 = "removed"
      BY <3>4 DEF Contents
    <3>5. QED
      BY <1>6, <2>1, <3>1, <3>2, <3>3, <3>4 DEF WriterRemovesSem, WriterFails
  <2>6. Contents'
    BY <1>1, <2>1, <2>3, <2>5 DEF Contents
  <2>7. QED
    BY <2>4, <2>6
<1>7. QED
  BY <1>4, <1>5, <1>6

\* What passes from the buffer to a reader: the next block of the file, its end
\* after the last block, or a failed read().
LEMMA TakesTheNext ==
  ASSUME ShmTypes, ReaderTypes, Always, Calm, NEW r \in Readers, cons[r] = "take"
  PROVE  \/ Seen(r) = End /\ Len(out) = Size
         \/ set0 = "key" /\ prod = "get" /\ Seen(r) = Error /\ Len(out) = pos
         \/ set0 = "key" /\ prod = "get" /\ Seen(r) = Len(out) + 1 /\ Len(out) < Size
              /\ pos = Len(out) + 1
<1>1. readSet[r] = "zero" /\ set0 \in {"key", "removed"} /\ out \in Seq(1..Size) /\ Holds(r)
  BY DEF ShmTypes, Always, Holds
<1>2. CASE set0 = "removed"
  BY <1>2 DEF Calm, Contents
<1>3. CASE set0 = "key"
  <2>1. attached[r] = 1 /\ run = 1
    BY <1>1, <1>3 DEF Calm, OneRun, ShmTypes
  <2>2. Seen(r) = buf /\ Full
    BY <2>1 DEF Seen, Full
  <2>3. Size \in Nat /\ pos \in 0..Size /\ Len(out) \in Nat
    BY <1>1, BufferAssumption DEF ShmTypes
  <2>4. CASE buf = End
    BY <1>3, <2>2, <2>4 DEF Calm, Contents
  <2>5. CASE buf # End
    <3>1. Reading = 1 /\ semWrite \in Nat /\ semRead \in Nat
      BY <1>1 DEF Reading, ShmTypes
    <3>2. prod \notin {"read", "post", "postEnd"}
      BY <3>1 DEF Calm, OneToken, AtMost, Writing, ProducerHolds
    <3>3. prod = "get"
      BY <1>3, <2>2, <2>5, <3>2 DEF Calm, Contents
    <3>4. QED
      BY <1>3, <2>2, <2>3, <2>5, <3>3 DEF Calm, Contents
  <2>6. QED
    BY <2>4, <2>5
<1>4. QED
  BY <1>1, <1>2, <1>3

\* A reader that neither takes, prints nor gives back leaves token and contents
\* as they are.
LEMMA ReaderWaitsKeeps ==
  ASSUME ShmTypes, ReaderTypes, Always, Calm, NEW r \in Readers,
         ReaderStarts(r) \/ ReaderShmget(r) \/ ReaderShmat(r) \/ ReaderSemget(r)
  PROVE  OneToken' /\ Contents'
<1>1. UNCHANGED <<bufferVars, writerVars>>
  BY DEF ReaderStarts, ReaderShmget, ReaderShmat, ReaderSemget
<1>2. Reader(r)
  BY DEF Reader
<1>3. /\ cons[r] \notin {"take", "post", "done"} /\ cons'[r] \notin {"take", "post", "done"}
      /\ cons' \in [Readers -> {"none", "shmget", "shmat", "semget", "get", "take", "post",
                               "done", "failed", "killed"}]
  <2>1. PICK from, to : Goes(r, from, to) /\ from \notin {"take", "post", "done"}
                                         /\ to \notin {"take", "post", "done"}
    BY DEF ReaderStarts, ReaderShmget, ReaderShmat, ReaderSemget, Leaves
  <2>2. QED
    BY <1>2, <2>1, ReaderGoes DEF Goes, ReaderTypes
<1>4. ASSUME NEW q \in Readers
      PROVE  /\ cons'[q] = "take" <=> cons[q] = "take"
             /\ cons'[q] = "post" <=> cons[q] = "post"
             /\ cons'[q] = "done" <=> cons[q] = "done"
             /\ cons[q] = "take" => Seen(q)' = Seen(q)
  <2>1. CASE q = r
    BY <1>3, <2>1
  <2>2. CASE q # r
    BY <1>1, <1>2, <2>2, ReaderLeavesOthers DEF Seen, bufferVars, writerVars
  <2>3. QED
    BY <2>1, <2>2
<1>5. (\A q \in Readers : Holds(q)' <=> Holds(q)) /\ Reading' = Reading
  BY <1>4 DEF Holds, Reading
<1>6. OneToken'
  BY <1>1, <1>4, <1>5 DEF Calm, OneToken, AtMost, Writing, ProducerHolds, bufferVars, writerVars
<1>7. Full' <=> Full
  BY <1>1, <1>4 DEF Full, bufferVars
<1>8. Contents'
  BY <1>1, <1>4, <1>7 DEF Calm, Contents, bufferVars, writerVars
<1>9. QED
  BY <1>6, <1>8

\* semop() on the set that was removed: no reader had a token to give back.
LEMMA ReaderFailsKeeps ==
  ASSUME ShmTypes, ReaderTypes, Always, Calm, NEW r \in Readers, ReaderFails(r)
  PROVE  OneToken' /\ Contents'
<1>1. UNCHANGED <<bufferVars, writerVars>> /\ set0 = "removed" /\ readSet[r] = "zero"
  BY DEF ReaderFails, Always
<1>2. Reader(r)
  BY DEF Reader
<1>3. cons[r] = "get" /\ cons'[r] = "failed"
  BY <1>1 DEF ReaderFails, Leaves, Goes, ReaderTypes, Calm, Contents
<1>4. ASSUME NEW q \in Readers
      PROVE  /\ cons'[q] = "take" <=> cons[q] = "take"
             /\ cons'[q] = "post" <=> cons[q] = "post"
             /\ cons'[q] = "done" <=> cons[q] = "done"
             /\ cons[q] = "take" => Seen(q)' = Seen(q)
  <2>1. CASE q = r
    BY <1>3, <2>1
  <2>2. CASE q # r
    BY <1>1, <1>2, <2>2, ReaderLeavesOthers DEF Seen, bufferVars, writerVars
  <2>3. QED
    BY <2>1, <2>2
<1>5. (\A q \in Readers : Holds(q)' <=> Holds(q)) /\ Reading' = Reading
  BY <1>4 DEF Holds, Reading
<1>6. OneToken'
  BY <1>1, <1>4, <1>5 DEF Calm, OneToken, AtMost, Writing, ProducerHolds, bufferVars, writerVars
<1>7. Full' <=> Full
  BY <1>1, <1>4 DEF Full, bufferVars
<1>8. Contents'
  BY <1>1, <1>4, <1>7 DEF Calm, Contents, bufferVars, writerVars
<1>9. QED
  BY <1>6, <1>8

\* A reader takes the token, prints what it finds and gives the token back, and
\* no other reader has it meanwhile.
LEMMA ReaderCopiesKeeps ==
  ASSUME ShmTypes, ReaderTypes, Always, Calm, killed = "no", NEW r \in Readers,
         ReaderGets(r) \/ ReaderTakes(r) \/ ReaderPosts(r)
  PROVE  OneToken' /\ Contents'
<1> USE BufferAssumption
<1>1. Reader(r) /\ UNCHANGED <<run, segment, old, set0, keySet, buf, pos, prod>>
  BY ReaderLeavesWriter DEF Reader
<1>2. semWrite \in Nat /\ semRead \in Nat /\ Writing \in 0..1 /\ Writing' = Writing
      /\ (Writing = 0 <=> prod \notin {"read", "post", "postEnd"})
  BY <1>1 DEF ShmTypes, Writing, ProducerHolds
<1>3. \A q \in Readers : q # r => cons'[q] = cons[q] /\ attached'[q] = attached[q]
  BY <1>1, ReaderLeavesOthers
<1>4. \A q \in Readers : q # r /\ cons[q] = "take" => Seen(q)' = Seen(q)
  BY <1>1, <1>3 DEF Seen
<1>5. AtMost(1) /\ \A q, p \in Readers : Holds(q) /\ Holds(p) => q = p
  BY DEF Calm, OneToken
<1>6. CASE ReaderGets(r)
  <2>1. /\ cons[r] = "get" /\ cons'[r] = "take" /\ semRead > 0 /\ semRead' = semRead - 1
        /\ UNCHANGED <<semWrite, out, attached>> /\ set0 = "key"
    BY <1>6 DEF ReaderGets, Goes, TakesToken, ReaderTypes
  <2>2. Reading = 0 /\ Writing = 0 /\ semWrite = 0 /\ semRead = 1
    BY <1>2, <1>5, <2>1 DEF AtMost, Reading
  <2>3. \A q \in Readers : ~Holds(q) /\ (Holds(q)' <=> q = r)
    BY <1>3, <2>1, <2>2 DEF Reading, Holds
  <2>4. Reading' = 1 /\ AtMost(1)'
    BY <1>2, <2>1, <2>2, <2>3 DEF Reading, AtMost
  <2>5. \A q \in Readers : /\ cons'[q] # "post" /\ (cons'[q] = "done" <=> cons[q] = "done")
                            /\ cons[q] # "post"
    BY <1>3, <2>1, <2>3 DEF Holds
  <2>6. prod \notin BeforeCopies /\ \A q \in Readers : cons[q] # "done"
    BY <1>2, <2>1, <2>2 DEF Calm, OneToken, AtMost, Reading
  <2>7. OneToken'
    BY <1>1, <2>1, <2>2, <2>3, <2>4, <2>5, <2>6 DEF Calm, OneToken
  <2>8. Full /\ Full'
    BY <2>1, <2>2 DEF Full
  <2>9. Contents'
    BY <1>1, <2>1, <2>2, <2>5, <2>6, <2>8 DEF Calm, Contents
  <2>10. QED
    BY <2>7, <2>9
<1>7. CASE ReaderPosts(r)
  <2>1. /\ cons[r] = "post" /\ cons'[r] = "get" /\ semWrite' = semWrite + 1
        /\ UNCHANGED <<semRead, out, attached>> /\ set0 = "key"
    BY <1>7 DEF ReaderPosts, Goes, GivesBack, ReaderTypes
  <2>2. Reading = 1 /\ Writing = 0 /\ semWrite = 0 /\ semRead = 0
    BY <1>2, <1>5, <2>1 DEF AtMost, Reading, Holds
  <2>3. \A q \in Readers : (Holds(q) <=> q = r) /\ ~Holds(q)'
    BY <1>3, <1>5, <2>1 DEF Holds
  <2>4. Reading' = 0 /\ AtMost(1)'
    BY <1>2, <2>1, <2>2, <2>3 DEF Reading, AtMost
  <2>5. \A q \in Readers : /\ cons'[q] # "post" /\ cons'[q] # "take"
                            /\ (cons'[q] = "done" <=> cons[q] = "done")
    BY <1>3, <2>1, <2>3 DEF Holds
  <2>6. prod \notin BeforeCopies /\ prod \notin Ending /\ \A q \in Readers : cons[q] # "done"
    BY <1>2, <2>1, <2>2 DEF Calm, OneToken, Holds
  <2>7. prod \notin Starting
    BY <1>2, <2>1 DEF Calm, OneRun, ShmTypes
  <2>8. OneToken'
    BY <1>1, <2>1, <2>2, <2>3, <2>4, <2>5, <2>6, <2>7 DEF Calm, OneToken, BeforeCopies
  <2>9. ~Full' /\ Len(out) = pos
    BY <1>1, <1>2, <2>1, <2>2, <2>5 DEF Full, Calm, Contents
  <2>10. Contents'
    BY <1>1, <2>1, <2>2, <2>5, <2>6, <2>9 DEF Calm, Contents
  <2>11. QED
    BY <2>8, <2>10
<1>8. CASE ReaderTakes(r)
  <2>1. /\ cons[r] = "take" /\ cons'[r] = (IF Seen(r) = End THEN "done" ELSE "post")
        /\ Prints(Seen(r)) /\ UNCHANGED <<semWrite, semRead>>
    BY <1>8 DEF ReaderTakes, Leaves, Goes, Prints, ReaderTypes
  <2>2. Reading = 1 /\ Writing = 0 /\ semWrite = 0 /\ semRead = 0 /\ Holds(r)
    BY <1>2, <1>5, <2>1 DEF AtMost, Reading, Holds
  <2>3. \A q \in Readers : q # r => ~Holds(q) /\ cons'[q] \notin {"take", "post"}
                                     /\ (cons'[q] = "done" <=> cons[q] = "done")
    BY <1>3, <1>5, <2>2 DEF Holds
  <2>4. set0 \in {"key", "removed"}
    BY <2>2 DEF Always
  <2>5. ~Full'
    BY <1>1, <1>2, <2>1, <2>2, <2>3 DEF Full
  <2>6. CASE Seen(r) = End
    <3>1. out' = out /\ cons'[r] = "done" /\ Len(out) = Size
      BY <2>1, <2>6, TakesTheNext DEF Prints, End, Error
    <3>2. Reading' = 0 /\ AtMost(0)' /\ AtMost(1)' /\ \A q \in Readers : ~Holds(q)'
      BY <1>2, <2>1, <2>2, <2>3, <3>1 DEF Reading, AtMost, Holds
    <3>3. set0 = "key" => prod \in Ending
      <4>1. SUFFICES ASSUME set0 = "key"
                     PROVE  prod \in Ending
        OBVIOUS
      <4>2. attached[r] = 1 /\ run = 1 /\ Full
        BY <2>1, <2>2 , <4>1 DEF Calm, OneRun, ShmTypes, Always, Full
      <4>3. buf = End
        BY <2>6, <4>2 DEF Seen
      <4>4. prod \notin {"get", "post"} /\ prod \notin BeforeCopies
        BY <2>2, <4>1, <4>2, <4>3 DEF Calm, Contents, OneToken
      <4>5. prod \notin Starting \cup {"killed", "exited"}
        BY <4>1, <4>2 DEF Calm, OneRun
      <4>6. QED
        BY <1>2, <2>2, <4>4, <4>5 DEF ShmTypes, BeforeCopies, Starting, Ending
    <3>4. OneToken'
      BY <1>1, <2>1, <2>2, <2>3, <2>4, <3>1, <3>2, <3>3 DEF Calm, OneToken, BeforeCopies, Ending
    <3>5. Contents'
      BY <1>1, <2>1, <2>2, <2>3, <2>4, <2>5, <3>1, <3>3 DEF Calm, Contents, BeforeCopies, Ending
    <3>6. QED
      BY <3>4, <3>5
  <2>7. CASE Seen(r) # End
    <3>1. /\ set0 = "key" /\ prod = "get" /\ cons'[r] = "post"
          /\ \/ Seen(r) = Error /\ Len(out) = pos
             \/ Seen(r) = Len(out) + 1 /\ Len(out) < Size /\ pos = Len(out) + 1
      BY <2>1, <2>7, TakesTheNext
    <3>2. /\ Len(out') = pos /\ \A i \in 1..Len(out') : out'[i] = i
      <4>1. out \in Seq(1..Size) /\ \A i \in 1..Len(out) : out[i] = i
        BY DEF ShmTypes, Calm, Contents
      <4>2. CASE Seen(r) = Error
        BY <2>1, <3>1, <4>1, <4>2 DEF Prints, Error
      <4>3. CASE Seen(r) # Error
        <5>1. out' = Append(out, Len(out) + 1) /\ pos = Len(out) + 1
          BY <2>1, <2>7, <3>1, <4>3 DEF Prints
        <5>2. QED
          BY <4>1, <5>1
      <4>4. QED
        BY <4>2, <4>3
    <3>3. Reading' = 1 /\ AtMost(1)' /\ \A q \in Readers : Holds(q)' <=> q = r
      BY <1>2, <2>1, <2>2, <2>3, <3>1 DEF Reading, AtMost, Holds
    <3>4. \A q \in Readers : cons[q] # "done" /\ cons'[q] # "done" /\ cons'[q] # "take"
      BY <2>1, <2>3, <3>1 DEF Calm, OneToken, Ending
    <3>5. OneToken'
      BY <1>1, <2>1, <2>2, <3>1, <3>3, <3>4 DEF Calm, OneToken, BeforeCopies, Ending, Starting
    <3>6. Contents'
      BY <1>1, <2>5, <3>1, <3>2, <3>4 DEF Calm, Contents, BeforeCopies
    <3>7. QED
      BY <3>5, <3>6
  <2>8. QED
    BY <2>6, <2>7
<1>9. QED
  BY <1>6, <1>7, <1>8

-----------------------------------------------------------------------------
(* The theorems.                                                           *)

\* Who is killed is never forgotten, and no step but a kill notes one.
LEMMA KilledStays ==
  ASSUME ShmTypes, Next, killed' = "no"
  PROVE  killed = "no" /\ ~WriterKilled /\ \A r \in Readers : ~ReaderKilled(r)
<1>1. ~WriterKilled /\ \A r \in Readers : ~ReaderKilled(r)
  BY DEF WriterKilled, ReaderKilled
<1>2. killed' = killed
  BY <1>1 DEF Next, Writer, Reader, WriterStarts, WriterCreates, WriterSemget, WriterSets,
       WriterSetsTo, WriterOpens, WriterCopies, WriterRemovesShm, WriterRemovesSem, WriterFails,
       ReaderStarts, ReaderShmget, ReaderShmat, ReaderSemget, ReaderGets, ReaderTakes,
       ReaderPosts, ReaderFails
<1>3. QED
  BY <1>1, <1>2

\* Every step of the programs keeps the invariant.
LEMMA NextShm == ShmInv /\ [Next]_vars => ShmInv'
<1> SUFFICES ASSUME ShmInv, [Next]_vars
             PROVE  ShmInv'
  OBVIOUS
<1>1. CASE Next
  <2>1. ShmTypes' /\ ReaderTypes' /\ Always'
    BY <1>1, WriterKeepsTypes, ReaderKeepsTypes DEF ShmInv, Next
  <2>2. ASSUME killed' = "no"
        PROVE  Calm'
    <3>1. killed = "no" /\ ~WriterKilled /\ \A r \in Readers : ~ReaderKilled(r)
      BY <1>1, <2>2, KilledStays DEF ShmInv
    <3>2. ShmTypes /\ ReaderTypes /\ Always /\ Calm
      BY <3>1 DEF ShmInv
    <3>3. OneRun'
      BY <1>1, <2>2, <3>2, RunsKeep DEF Calm
    <3>4. CASE Writer
      BY <3>1, <3>2, <3>3, <3>4, SetUpKeeps, WriterCopiesKeeps, WriterEndsKeeps DEF Writer, Calm
    <3>5. CASE \E r \in Readers : Reader(r)
      <4>1. PICK r \in Readers : Reader(r)
        BY <3>5
      <4>2. OneToken' /\ Contents'
        BY <3>1, <3>2, <4>1, ReaderWaitsKeeps, ReaderFailsKeeps, ReaderCopiesKeeps DEF Reader
      <4>3. QED
        BY <3>3, <4>2 DEF Calm
    <3>6. QED
      BY <1>1, <3>4, <3>5 DEF Next
  <2>3. QED
    BY <2>1, <2>2 DEF ShmInv
<1>2. CASE UNCHANGED vars
  <2> USE <1>2 DEF vars, bufferVars, writerVars, readerVars
  <2>1. ShmTypes' /\ ReaderTypes' /\ Always'
    BY DEF ShmInv, ShmTypes, ReaderTypes, Always, Holds
  <2>2. Calm => Calm'
    BY DEF Calm, OneRun, OneToken, Contents, Full, Seen, AtMost, Writing, Reading, ProducerHolds,
           Holds
  <2>3. QED
    BY <2>1, <2>2 DEF ShmInv
<1>3. QED
  BY <1>1, <1>2

\* The invariant holds, under every fault.
LEMMA ShmInvHolds == Spec => []ShmInv
BY InitShm, NextShm, PTL DEF Spec

\* Every variable keeps its values; in particular, however many readers share
\* the two semaphores, they are 1 together at most as long as no process is
\* killed (writer 17-36, 77-112).
THEOREM SegmentTypes == Spec => []TypeOK
<1>1. ShmInv => TypeOK
  <2>1. SUFFICES ASSUME ShmInv
                 PROVE  TypeOK
    OBVIOUS
  <2>2. Writing \in 0..1 /\ Reading \in 0..1
    BY DEF Writing, Reading
  <2>3. killed = "no" => semWrite + semRead <= 1
    BY <2>1, <2>2 DEF ShmInv, ShmTypes, Calm, OneToken, AtMost
  <2>4. QED
    BY <2>1, <2>3 DEF ShmInv, ShmTypes, ReaderTypes, TypeOK, BufferType
<1>2. QED
  BY <1>1, ShmInvHolds, PTL

\* A writer that exits leaves no segment, whether it ends, fails on the way, or
\* takes over from one that was killed (writer 38-42, 56-65, 125).
THEOREM NoSegmentLeft == Spec => []SegmentIsRemoved
<1>1. ShmInv => SegmentIsRemoved
  BY DEF ShmInv, Always, SegmentIsRemoved
<1>2. QED
  BY <1>1, ShmInvHolds, PTL

\* As long as no process is killed, when a reader ends well the readers have
\* printed the whole file between them, in order and each block once, whenever
\* they came and however many they are, whatever read() failed and whichever
\* set the programs worked on (reader 38-56, writer 95-126).
THEOREM ReadersHaveTheFile == Spec => []ReaderEndsWithTheFile
<1>1. ShmInv => ReaderEndsWithTheFile
  <2>1. SUFFICES ASSUME ShmInv, killed = "no", NEW r \in Readers, cons[r] = "done"
                 PROVE  out = [b \in 1..Size |-> b]
    BY DEF ReaderEndsWithTheFile
  <2>2. out \in Seq(1..Size) /\ Len(out) = Size /\ \A i \in 1..Len(out) : out[i] = i
    BY <2>1 DEF ShmInv, ShmTypes, Calm, Contents
  <2>3. QED
    BY <2>2
<1>2. QED
  BY <1>1, ShmInvHolds, PTL

-----------------------------------------------------------------------------
(* The refinement.                                                         *)

\* No step but a reader's taking touches the stream.
LEMMA OnlyTakingShows ==
  ASSUME ShmInv, Next, \A r \in Readers : ~ReaderTakes(r)
  PROVE  out' = out /\ \A r \in Readers : cons'[r] = "done" <=> cons[r] = "done"
<1>1. CASE Writer
  BY <1>1, WriterLeavesReaders
<1>2. CASE \E r \in Readers : Reader(r)
  <2>1. PICK r \in Readers : Reader(r)
    BY <1>2
  <2>2. out' = out
    BY <2>1 DEF Reader, ReaderStarts, ReaderShmget, ReaderShmat, ReaderSemget, ReaderGets,
                ReaderPosts, ReaderFails, ReaderKilled, TakesToken, GivesBack, bufferVars
  <2>3. cons[r] # "done" /\ cons'[r] # "done"
    <3>1. PICK from, to : Goes(r, from, to) /\ from # "done" /\ to # "done"
      BY <2>1 DEF Reader, ReaderStarts, ReaderShmget, ReaderShmat, ReaderSemget, ReaderGets,
                  ReaderPosts, ReaderFails, ReaderKilled, Leaves
    <3>2. QED
      BY <3>1 DEF Goes, ShmInv, ReaderTypes
  <2>4. QED
    BY <2>1, <2>2, <2>3, ReaderLeavesOthers DEF ShmInv
<1>3. QED
  BY <1>1, <1>2 DEF Next

\* 48.4 implements the stream of BlockStream for its readers together, whenever
\* they came and whatever run of the writer they found, unless a process was
\* killed.
THEOREM ReadersGetTheStream == Spec => ReadersShareAStream
<1>1. Init => Promise!StreamInit
  BY DEF Init, Promise!StreamInit
<1>2. ASSUME ShmInv, [Next]_vars
      PROVE  [killed' = "no" => [Promise!StreamNext]_(Promise!streamVars)]_vars
  <2>1. SUFFICES ASSUME Next, killed' = "no"
                 PROVE  Promise!StreamNext \/ UNCHANGED Promise!streamVars
    BY <1>2
  <2>2. ShmTypes /\ ReaderTypes /\ Always /\ Calm /\ killed = "no"
    BY <1>2, <2>1, KilledStays DEF ShmInv
  <2>3. CASE \E r \in Readers : ReaderTakes(r)
    <3>1. PICK r \in Readers : ReaderTakes(r)
      BY <2>3
    <3>2. /\ cons[r] = "take" /\ cons'[r] = (IF Seen(r) = End THEN "done" ELSE "post")
          /\ Prints(Seen(r)) /\ out \in Seq(1..Size) /\ Reader(r)
      BY <2>2, <3>1 DEF ReaderTakes, Leaves, Goes, ReaderTypes, ShmTypes, Reader
    <3>3. \/ Seen(r) = End /\ Len(out) = Size
          \/ set0 = "key" /\ prod = "get" /\ Seen(r) = Error
          \/ set0 = "key" /\ prod = "get" /\ Seen(r) = Len(out) + 1 /\ Len(out) < Size
      BY <2>2, <3>2, TakesTheNext
    <3>4. Reading = 1 /\ semWrite \in Nat /\ semRead \in Nat /\ Writing \in 0..1
      BY <2>2, <3>2 DEF Reading, Holds, ShmTypes, Writing
    <3>5. set0 = "key" => \A q \in Readers : cons[q] # "done"
      BY <2>2, <3>4 DEF Calm, OneToken, AtMost
    <3>6. \A q \in Readers : q # r => cons'[q] = cons[q]
      BY <2>2, <3>2, ReaderLeavesOthers
    <3>7. CASE Seen(r) = End /\ Len(out) = Size
      <4>1. out' = out /\ cons'[r] = "done"
        BY <3>2, <3>7 DEF Prints
      <4>2. CASE \E q \in Readers : cons[q] = "done"
        BY <3>2, <3>6, <4>1, <4>2 DEF Promise!streamVars
      <4>3. CASE \A q \in Readers : cons[q] # "done"
        BY <3>7, <4>1, <4>3 DEF Promise!StreamNext, Promise!Close
      <4>4. QED
        BY <4>2, <4>3
    <3>8. CASE set0 = "key" /\ Seen(r) = Error
      <4>1. out' = out /\ cons'[r] = "post"
        BY <3>2, <3>8 DEF Prints, End, Error
      <4>2. QED
        BY <3>5, <3>6, <3>8, <4>1 DEF Promise!streamVars
    <3>9. CASE set0 = "key" /\ Seen(r) = Len(out) + 1 /\ Len(out) < Size
      <4>1. Seen(r) \notin {End, Error}
        BY <3>2, <3>9 DEF End, Error
      <4>2. out' = Append(out, Len(out) + 1) /\ cons'[r] = "post"
        BY <3>2, <3>9, <4>1 DEF Prints
      <4>3. QED
        BY <3>5, <3>6, <3>9, <4>2 DEF Promise!StreamNext, Promise!Deliver
    <3>10. QED
      BY <3>3, <3>7, <3>8, <3>9
  <2>4. CASE \A r \in Readers : ~ReaderTakes(r)
    BY <1>2, <2>1, <2>4, OnlyTakingShows DEF Promise!streamVars
  <2>5. QED
    BY <2>3, <2>4
<1>3. QED
  BY <1>1, <1>2, ShmInvHolds, PTL DEF Spec, ReadersShareAStream
=============================================================================
