----------------------------- MODULE ShmTransfer -----------------------------
(***************************************************************************)
(* routines/48.4.svshm_xfr: svshm_write sends a file through a shared      *)
(* memory segment, svshm_read prints it.  The hand-over is that of         *)
(* TwoSemBuffer; added here are the segment and the semaphore sets, which  *)
(* outlive a process that is killed, runs of the writer one after the      *)
(* other, and readers that may start at any time, several at once.  The    *)
(* writer never assigns semId (line 77 compares): it always works on the   *)
(* set whose identifier is 0, the readers on the set that has SEM_KEY.     *)
(***************************************************************************)
EXTENDS TwoSemBuffer

CONSTANTS
  Readers,      \* the processes that run svshm_read, each once
  MaxRuns,      \* bound: how often the writer is started
  Faults        \* the misfortunes of this run

ASSUME ShmAssumption ==
  /\ MaxRuns \in Nat \ {0}
  /\ Faults \subseteq {"kill", "fail", "foreign"}

VARIABLES
  run,          \* the number of the writer's run
  segment,      \* the run whose segment has SHM_KEY, 0 if there is none
  old,          \* what the segments of earlier runs hold
  set0,         \* the set with identifier 0: never used, the one of SEM_KEY,
                \* another program's, or removed
  keySet,       \* the set of SEM_KEY: none, identifier 0, or another
  cons,         \* where each reader is
  attached,     \* the run whose segment a reader has found or attached
  readSet,      \* a reader's semId
  killed        \* whether a process has been killed: "yes" or "no"

writerVars == <<run, segment, old, set0, keySet>>
readerVars == <<cons, attached, readSet>>
vars == <<bufferVars, writerVars, readerVars, killed>>

Init ==
  /\ semWrite = 0 /\ semRead = 0
  /\ buf = End /\ pos = 0
  /\ prod = "start"
  /\ out = <<>>
  /\ run = 1 /\ segment = 0 /\ old = [n \in 1..MaxRuns |-> End]
  /\ set0 \in {"unused"} \cup (IF "foreign" \in Faults THEN {"foreign"} ELSE {})
  /\ keySet = "none"
  /\ cons = [r \in Readers |-> "none"]
  /\ attached = [r \in Readers |-> 0]
  /\ readSet = [r \in Readers |-> "none"]
  /\ killed = "no"

Exists == set0 \in {"key", "foreign"}

\* A reader has attached the segment of run n, and has not ended.
Maps(r, n) == attached[r] = n /\ cons[r] \in {"semget", "get", "take", "post"}

-----------------------------------------------------------------------------
(* The writer.                                                             *)

\* Another run of svshm_write; the segment of the last one keeps its contents
\* as long as it has its key or a reader.
WriterStarts ==
  /\ prod \in {"exited", "killed"} /\ run < MaxRuns
  /\ run' = run + 1
  /\ prod' = "start"
  /\ pos' = 0 /\ buf' = End
  /\ old' = [old EXCEPT ![run] =
       IF segment = run \/ \E r \in Readers : Maps(r, run) THEN buf ELSE End]
  /\ UNCHANGED <<semWrite, semRead, out, segment, set0, keySet, readerVars, killed>>

\* shmget(IPC_EXCL); a segment that is there is removed and the loop goes round.
WriterCreates ==
  /\ prod = "start"
  /\ IF segment = 0
       THEN segment' = run /\ prod' = "semget"
       ELSE segment' = 0 /\ prod' = "start"
  /\ UNCHANGED <<semWrite, semRead, buf, pos, out, run, old, set0, keySet, readerVars, killed>>

\* semget(IPC_EXCL): the result, and so an EEXIST, is thrown away.
WriterSemget ==
  /\ prod = "semget"
  /\ prod' = "setRead"
  /\ IF keySet # "none" THEN UNCHANGED <<set0, keySet>>
     ELSE IF set0 = "unused" THEN set0' = "key" /\ keySet' = "zero"
     ELSE keySet' = "other" /\ UNCHANGED set0
  /\ UNCHANGED <<semWrite, semRead, buf, pos, out, run, segment, old, readerVars, killed>>

\* mutexInit(): SETVAL on the set with identifier 0, READ first.
WriterSetsTo(readValue, writeValue) ==
  /\ \/ /\ prod = "setRead" /\ Exists
        /\ semRead' = readValue /\ prod' = "setWrite" /\ UNCHANGED semWrite
     \/ /\ prod = "setWrite"
        /\ semWrite' = writeValue /\ prod' = "open" /\ UNCHANGED semRead
     \/ /\ prod = "setRead" /\ ~Exists
        /\ prod' = "failed" /\ UNCHANGED <<semWrite, semRead>>
  /\ UNCHANGED <<buf, pos, out, writerVars, readerVars, killed>>

\* Fault: the two semaphores start with each other's value.
WriterSetsSwapped == WriterSetsTo(1, 0)

\* Fault: the buffer is given out twice.
WriterSetsTwo == WriterSetsTo(0, 2)

WriterSets == WriterSetsTo(0, 1)

\* open() of the file, which may fail.
WriterOpens ==
  /\ prod = "open"
  /\ \/ prod' = "get"
     \/ "fail" \in Faults /\ prod' = "failed"
  /\ UNCHANGED <<semWrite, semRead, buf, pos, out, writerVars, readerVars, killed>>

WriterCopies ==
  /\ ProducerStep("rmShm")
  /\ UNCHANGED <<writerVars, readerVars, killed>>

\* shmctl(IPC_RMID): the segment loses its key; whoever is attached keeps it.
WriterRemovesShm ==
  /\ prod = "rmShm"
  /\ segment' = 0
  /\ prod' = "rmSem"
  /\ UNCHANGED <<semWrite, semRead, buf, pos, out, run, old, set0, keySet, readerVars, killed>>

\* semctl(0, IPC_RMID): the set with identifier 0 goes, whosever it is, and the
\* identifier is not given out again.
RemoveSet0 ==
  /\ set0' = IF Exists THEN "removed" ELSE set0
  /\ keySet' = IF keySet = "zero" THEN "none" ELSE keySet
  /\ semWrite' = 0 /\ semRead' = 0

\* Then exit(), whose onExit() finds nothing left to remove.
WriterRemovesSem ==
  /\ prod = "rmSem"
  /\ RemoveSet0
  /\ prod' = "exited"
  /\ UNCHANGED <<buf, pos, out, run, segment, old, readerVars, killed>>

\* Fault: exit() without the handler.
FailsWithoutHandler ==
  /\ prod = "failed"
  /\ prod' = "exited"
  /\ UNCHANGED <<semWrite, semRead, buf, pos, out, writerVars, readerVars, killed>>

\* ERROUT ends in exit(); onExit() removes the segment, then the set, in one
\* step: a reader that comes between them fails on the set instead.
WriterFails ==
  /\ prod = "failed"
  /\ segment' = 0
  /\ RemoveSet0
  /\ prod' = "exited"
  /\ UNCHANGED <<buf, pos, out, run, old, readerVars, killed>>

\* A signal, none of which is handled: no exit handler runs.
WriterKilled ==
  /\ "kill" \in Faults
  /\ prod \notin {"exited", "killed"}
  /\ prod' = "killed"
  /\ killed' = "yes"
  /\ UNCHANGED <<semWrite, semRead, buf, pos, out, writerVars, readerVars>>

Writer ==
  \/ WriterStarts \/ WriterCreates \/ WriterSemget \/ WriterSets \/ WriterOpens
  \/ WriterCopies \/ WriterRemovesShm \/ WriterRemovesSem \/ WriterFails \/ WriterKilled

-----------------------------------------------------------------------------
(* The readers.                                                            *)

Goes(r, from, to) == cons[r] = from /\ cons' = [cons EXCEPT ![r] = to]

\* A process that ends gives up what it had.
Leaves(r, from, to) ==
  /\ Goes(r, from, to)
  /\ attached' = [attached EXCEPT ![r] = 0]
  /\ readSet' = [readSet EXCEPT ![r] = "none"]

ReaderStarts(r) ==
  /\ Goes(r, "none", "shmget")
  /\ UNCHANGED <<bufferVars, writerVars, attached, readSet, killed>>

\* shmget() by key.
ReaderShmget(r) ==
  /\ \/ /\ segment # 0 /\ Goes(r, "shmget", "shmat")
        /\ attached' = [attached EXCEPT ![r] = segment] /\ UNCHANGED readSet
     \/ segment = 0 /\ Leaves(r, "shmget", "failed")
  /\ UNCHANGED <<bufferVars, writerVars, killed>>

\* shmat() by the identifier just found: a removed segment can be attached as
\* long as another process has it.
ReaderShmat(r) ==
  /\ IF segment = attached[r] \/ \E q \in Readers : Maps(q, attached[r])
       THEN Goes(r, "shmat", "semget") /\ UNCHANGED <<attached, readSet>>
       ELSE Leaves(r, "shmat", "failed")
  /\ UNCHANGED <<bufferVars, writerVars, killed>>

ReaderSemget(r) ==
  /\ \/ /\ keySet # "none" /\ Goes(r, "semget", "get")
        /\ readSet' = [readSet EXCEPT ![r] = keySet] /\ UNCHANGED attached
     \/ keySet = "none" /\ Leaves(r, "semget", "failed")
  /\ UNCHANGED <<bufferVars, writerVars, killed>>

\* What a reader sees at shmp: its segment may be that of an earlier run.
Seen(r) == IF attached[r] = run THEN buf ELSE old[attached[r]]

\* semop() on the set of identifier 0; nobody ever posts to another set.
ReaderGets(r) ==
  /\ readSet[r] = "zero" /\ set0 = "key"
  /\ Goes(r, "get", "take") /\ TakesToken
  /\ UNCHANGED <<writerVars, attached, readSet, killed>>

\* A length of 0 ends the loop, and the program.  What is printed after a kill
\* is not recorded.
ReaderTakes(r) ==
  /\ cons[r] = "take"
  /\ IF Seen(r) = End
       THEN Leaves(r, "take", "done")
       ELSE Goes(r, "take", "post") /\ UNCHANGED <<attached, readSet>>
  /\ IF killed = "no" THEN Prints(Seen(r)) ELSE UNCHANGED bufferVars
  /\ UNCHANGED <<writerVars, killed>>

ReaderPosts(r) ==
  /\ readSet[r] = "zero" /\ set0 = "key"
  /\ Goes(r, "post", "get") /\ GivesBack
  /\ UNCHANGED <<writerVars, attached, readSet, killed>>

\* semop() on a removed set: ERROUT.
ReaderFails(r) ==
  /\ readSet[r] = "zero" /\ set0 # "key"
  /\ Leaves(r, "get", "failed") \/ Leaves(r, "post", "failed")
  /\ UNCHANGED <<bufferVars, writerVars, killed>>

\* A signal, none of which is handled: a token the reader had is gone.
ReaderKilled(r) ==
  /\ "kill" \in Faults
  /\ \E at \in {"shmget", "shmat", "semget", "get", "take", "post"} : Leaves(r, at, "killed")
  /\ killed' = "yes"
  /\ UNCHANGED <<bufferVars, writerVars>>

Reader(r) ==
  \/ ReaderStarts(r) \/ ReaderShmget(r) \/ ReaderShmat(r) \/ ReaderSemget(r)
  \/ ReaderGets(r) \/ ReaderTakes(r) \/ ReaderPosts(r) \/ ReaderFails(r) \/ ReaderKilled(r)

Next == Writer \/ \E r \in Readers : Reader(r)

Spec == Init /\ [][Next]_vars

-----------------------------------------------------------------------------
\* The values of the variables; as long as no process is killed there is one
\* token, whatever sets and segments the programs find (writer 17-36).
TypeOK ==
  /\ BufferType
  /\ killed = "no" => semWrite + semRead <= 1
  /\ prod \in {"start", "semget", "setRead", "setWrite", "open", "get", "read", "post",
               "postEnd", "rmShm", "rmSem", "failed", "exited", "killed"}
  /\ run \in 1..MaxRuns /\ segment \in 0..run
  /\ old \in [1..MaxRuns -> Error..Size]
  /\ set0 \in {"unused", "key", "foreign", "removed"}
  /\ keySet \in {"none", "zero", "other"}
  /\ cons \in [Readers -> {"none", "shmget", "shmat", "semget", "get", "take", "post",
                           "done", "failed", "killed"}]
  /\ attached \in [Readers -> 0..run]
  /\ readSet \in [Readers -> {"none", "zero", "other"}]
  /\ killed \in {"yes", "no"}

\* As long as no process is killed, when a reader ends well the readers have
\* printed the whole file between them, in order and each block once, whenever
\* they started and however many there are: the semaphores hand every block to
\* one of them (reader 38-56, writer 95-126).
ReaderEndsWithTheFile ==
  killed = "no" =>
    \A r \in Readers : cons[r] = "done" => out = [b \in 1..Size |-> b]

\* What the readers print, whichever of them prints it; closed when one of them
\* has found the end.
Promise == INSTANCE BlockStream WITH
             stream <- out,
             state <- IF \E r \in Readers : cons[r] = "done" THEN "closed" ELSE "open"

\* As long as no process is killed, the output of all the readers together is
\* the abstract block stream: a step of the programs delivers the next block of
\* the file, closes the stream after the last, or leaves it alone, and a failing
\* read() is invisible (reader 38-56, writer 95-126).
ReadersShareAStream ==
  /\ Promise!StreamInit
  /\ [][killed' = "no" => [Promise!StreamNext]_(Promise!streamVars)]_vars

\* A writer that exits leaves no segment, not even the one a killed predecessor
\* left (writer 38-42, 56-65, 125).
SegmentIsRemoved == prod = "exited" => segment = 0
=============================================================================
