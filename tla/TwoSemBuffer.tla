---------------------------- MODULE TwoSemBuffer ----------------------------
(***************************************************************************)
(* The hand-over shared by practice/53.1 (two threads, POSIX semaphores)   *)
(* and routines/48.4 (two processes, System V semaphores and shared        *)
(* memory): one buffer of one block, a semaphore that says it may be       *)
(* written and one that says it may be read.  There is one side that reads *)
(* the file; those that write the output keep their own place and use the  *)
(* three steps at the end.                                                 *)
(***************************************************************************)
EXTENDS Integers, Sequences

CONSTANT
  Size          \* the blocks of the source file are 1..Size

ASSUME BufferAssumption == Size \in Nat

VARIABLES
  semWrite,     \* value of the semaphore of the empty buffer
  semRead,      \* value of the semaphore of the full buffer
  buf,          \* what the buffer holds: a block, End or Error
  pos,          \* the blocks read() has returned
  prod,         \* where the side that reads the file is
  out           \* the blocks handed to write(), in order

bufferVars == <<semWrite, semRead, buf, pos, prod, out>>

End == 0        \* a length of 0
Error == -1     \* the -1 of a failing read(), stored as a length

-----------------------------------------------------------------------------
(* The side that reads the file.                                           *)

\* sem_wait() / semop(-1)
ProducerGets ==
  /\ prod = "get" /\ semWrite > 0
  /\ semWrite' = semWrite - 1
  /\ prod' = "read"
  /\ UNCHANGED <<semRead, buf, pos, out>>

\* read() returns the next block, or 0 at the end of the file.
ReadSucceeds ==
  /\ prod = "read"
  /\ IF pos < Size
       THEN buf' = pos + 1 /\ pos' = pos + 1 /\ prod' = "post"
       ELSE buf' = End /\ prod' = "postEnd" /\ UNCHANGED pos

\* The -1 of read() goes into the buffer unseen: it is passed on as a block of
\* length -1, and the loop goes on.
ReadFails ==
  /\ prod = "read"
  /\ buf' = Error /\ prod' = "post"
  /\ UNCHANGED pos

\* Fault: a failing read() leaves the loop as end-of-file does.
ErrorIsEnd ==
  /\ \/ ReadSucceeds
     \/ prod = "read" /\ buf' = End /\ prod' = "postEnd" /\ UNCHANGED pos
  /\ UNCHANGED <<semWrite, semRead, out>>

ProducerReads ==
  /\ ReadSucceeds \/ ReadFails
  /\ UNCHANGED <<semWrite, semRead, out>>

\* Fault: the end is not posted.
EndIsSilent(next) ==
  /\ prod \in {"post", "postEnd"}
  /\ semRead' = IF prod = "post" THEN semRead + 1 ELSE semRead
  /\ prod' = IF prod = "post" THEN "get" ELSE next
  /\ UNCHANGED <<semWrite, buf, pos, out>>

\* sem_post() / semop(+1): a block, or the end, after which the loop is left.
ProducerPosts(next) ==
  /\ prod \in {"post", "postEnd"}
  /\ semRead' = semRead + 1
  /\ prod' = IF prod = "post" THEN "get" ELSE next
  /\ UNCHANGED <<semWrite, buf, pos, out>>

ProducerStep(next) == ProducerGets \/ ProducerReads \/ ProducerPosts(next)

-----------------------------------------------------------------------------
(* A side that writes the output.                                          *)

\* sem_wait() / semop(-1)
TakesToken ==
  /\ semRead > 0
  /\ semRead' = semRead - 1
  /\ UNCHANGED <<semWrite, buf, pos, prod, out>>

\* write() with length -1 fails and writes nothing.
Prints(block) ==
  /\ out' = IF block \in {End, Error} THEN out ELSE Append(out, block)
  /\ UNCHANGED <<semWrite, semRead, buf, pos, prod>>

\* sem_post() / semop(+1)
GivesBack ==
  /\ semWrite' = semWrite + 1
  /\ UNCHANGED <<semRead, buf, pos, prod, out>>

-----------------------------------------------------------------------------
\* The side that reads the file has the buffer.
ProducerHolds == prod \in {"read", "post", "postEnd"}

\* The values of the hand-over.
BufferType ==
  /\ semWrite \in Nat /\ semRead \in Nat
  /\ buf \in Error..Size
  /\ pos \in 0..Size
  /\ out \in Seq(1..Size)
=============================================================================
