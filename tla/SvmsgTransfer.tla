---------------------------- MODULE SvmsgTransfer ----------------------------
(***************************************************************************)
(* The transfer half of practice/46.4: what the forked child of the file   *)
(* server (serverRequest) sends to a client's private message queue, and   *)
(* what the client does with it.  A file is a number of blocks of          *)
(* RESP_MSG_SIZE bytes; the length of a message is counted in blocks.      *)
(***************************************************************************)
EXTENDS Integers, Sequences, FiniteSets

CONSTANTS
  Clients,       \* the client processes, one request each
  MaxBlocks,     \* bound: the longest file, in blocks
  QueueBlocks,   \* msgmnb / RESP_MSG_SIZE, what a queue holds before msgsnd blocks
  Missing,       \* the file size standing for "open() fails"
  Files,         \* the sizes, Missing included, of the files asked for
  Faults         \* the misfortunes of this run

ASSUME TransferAssumption ==
  /\ IsFiniteSet(Clients) /\ Clients # {}
  /\ MaxBlocks \in Nat
  /\ QueueBlocks \in Nat \ {0}
  /\ Missing \notin 0..MaxBlocks
  /\ Files \subseteq 0..MaxBlocks \cup {Missing}
  /\ Faults \subseteq {"readError", "longEnd", "interrupt", "kill", "childKill", "fork",
                 "start"}

VARIABLES
  file,       \* file[c]: the size of the file c asks for, or Missing
  cpc,        \* cpc[c]: where client c is
  cliQ,       \* cliQ[c]: the messages in c's private queue
  cliAlive,   \* the clients whose private queue exists
  total,      \* total[c]: the client's variable "total"
  child,      \* child[c]: where the server's child for c is
  left,       \* left[c]: the blocks the child has not read yet
  cut         \* the clients whose file gave a read error

transferVars == <<file, cpc, cliQ, cliAlive, total, child, left, cut>>

Data == [mtype |-> "DATA", len |-> 1]
Failure == [mtype |-> "FAILURE", len |-> 0]
End(len) == [mtype |-> "END", len |-> len]
Messages == {Data, Failure, End(0), End(1)}

\* The bytes, in blocks, that the queue q holds.
Blocks(q) == Len(SelectSeq(q, LAMBDA m : m.len = 1))

\* msgsnd() does not block: the queue has room for the bytes of m.
HasRoom(q, m) == Blocks(q) + m.len <= QueueBlocks

-----------------------------------------------------------------------------
TransferInit ==
  /\ file \in [Clients -> Files]
  /\ cpc = [c \in Clients |-> "open"]
  /\ cliQ = [c \in Clients |-> <<>>]
  /\ cliAlive = {}
  /\ total = [c \in Clients |-> 0]
  /\ child = [c \in Clients |-> "none"]
  /\ left = [c \in Clients |-> 0]
  /\ cut = {}

-----------------------------------------------------------------------------
(* The child.                                                              *)

\* open() fails: one FAILURE message, then exit(), which the server composes.
ChildOpenFails(c) ==
  /\ child[c] = "open" /\ file[c] = Missing
  /\ child' = [child EXCEPT ![c] = "exit"]
  /\ cliQ' = IF c \in cliAlive THEN [cliQ EXCEPT ![c] = Append(@, Failure)] ELSE cliQ
  /\ UNCHANGED <<file, cpc, cliAlive, total, left, cut>>

ChildOpens(c) ==
  /\ child[c] = "open" /\ file[c] # Missing
  /\ child' = [child EXCEPT ![c] = "read"]
  /\ left' = [left EXCEPT ![c] = file[c]]
  /\ UNCHANGED <<file, cpc, cliQ, cliAlive, total, cut>>

\* Fault: the file is read once, "if" for "while".
ChildReadsOnce(c) ==
  /\ child[c] = "read"
  /\ child' = [child EXCEPT ![c] = IF left[c] = file[c] /\ left[c] > 0
                                     THEN "send" ELSE "end"]
  /\ left' = [left EXCEPT ![c] = IF left[c] = file[c] /\ left[c] > 0 THEN @ - 1 ELSE @]
  /\ UNCHANGED <<file, cpc, cliQ, cliAlive, total, cut>>

\* read(): a block, end-of-file, or an error; the last two leave the loop.
ChildReads(c) ==
  /\ child[c] = "read"
  /\ \/ /\ left[c] > 0
        /\ left' = [left EXCEPT ![c] = @ - 1]
        /\ child' = [child EXCEPT ![c] = "send"]
        /\ UNCHANGED cut
     \/ /\ left[c] = 0
        /\ child' = [child EXCEPT ![c] = "end"]
        /\ UNCHANGED <<left, cut>>
     \/ /\ "readError" \in Faults
        /\ cut' = cut \cup {c}
        /\ child' = [child EXCEPT ![c] = "end"]
        /\ UNCHANGED left
  /\ UNCHANGED <<file, cpc, cliQ, cliAlive, total>>

\* Fault: IPC_NOWAIT, a block that finds the queue full is lost.
ChildSendsNowait(c) ==
  /\ child[c] = "send"
  /\ child' = [child EXCEPT ![c] = "read"]
  /\ cliQ' = IF c \in cliAlive /\ HasRoom(cliQ[c], Data)
               THEN [cliQ EXCEPT ![c] = Append(@, Data)] ELSE cliQ
  /\ UNCHANGED <<file, cpc, cliAlive, total, left, cut>>

\* msgsnd() of a block: it waits for room; it fails when the queue is removed.
ChildSends(c) ==
  /\ child[c] = "send"
  /\ \/ /\ c \in cliAlive /\ HasRoom(cliQ[c], Data)
        /\ cliQ' = [cliQ EXCEPT ![c] = Append(@, Data)]
        /\ child' = [child EXCEPT ![c] = "read"]
     \/ /\ c \notin cliAlive
        /\ child' = [child EXCEPT ![c] = "end"]
        /\ UNCHANGED cliQ
  /\ UNCHANGED <<file, cpc, cliAlive, total, left, cut>>

\* Fault: end-of-file is not announced.
ChildEndsSilently(c) ==
  /\ child[c] = "end"
  /\ child' = [child EXCEPT ![c] = "_exit"]
  /\ UNCHANGED <<file, cpc, cliQ, cliAlive, total, left, cut>>

\* msgsnd() of END with strlen(resp.data) bytes, whatever is in the buffer: any
\* length up to a block.  Once read() has filled the buffer there need be no NUL
\* in it, and a length above MSGMAX is refused with EINVAL.
ChildEnds(c) ==
  /\ child[c] = "end"
  /\ \/ /\ c \in cliAlive
        /\ \E len \in {0, 1} :
             /\ HasRoom(cliQ[c], End(len))
             /\ cliQ' = [cliQ EXCEPT ![c] = Append(@, End(len))]
     \/ /\ c \notin cliAlive \/ ("longEnd" \in Faults /\ left[c] < file[c])
        /\ UNCHANGED cliQ
  /\ child' = [child EXCEPT ![c] = "_exit"]
  /\ UNCHANGED <<file, cpc, cliAlive, total, left, cut>>

ChildStep(c) ==
  ChildOpenFails(c) \/ ChildOpens(c) \/ ChildReads(c) \/ ChildSends(c) \/ ChildEnds(c)

-----------------------------------------------------------------------------
(* The client, once its request is in the server's queue.                  *)

\* exit(): the atexit handler removes the private queue.
ClientExit(c, how) ==
  /\ cpc' = [cpc EXCEPT ![c] = how]
  /\ cliAlive' = cliAlive \ {c}
  /\ cliQ' = [cliQ EXCEPT ![c] = <<>>]

\* The first answer: FAILURE ends the client; total starts at its length.
ClientFirst(c) ==
  /\ cpc[c] = "first" /\ cliQ[c] # <<>>
  /\ LET m == Head(cliQ[c]) IN
       IF m.mtype = "FAILURE"
         THEN ClientExit(c, "failed") /\ UNCHANGED total
         ELSE /\ total' = [total EXCEPT ![c] = m.len]
              /\ IF m.mtype = "DATA"
                   THEN /\ cpc' = [cpc EXCEPT ![c] = "more"]
                        /\ cliQ' = [cliQ EXCEPT ![c] = Tail(@)]
                        /\ UNCHANGED cliAlive
                   ELSE ClientExit(c, "done")
  /\ UNCHANGED <<file, child, left, cut>>

\* One turn of the loop: DATA is added up, anything else ends the client.
ClientMore(c) ==
  /\ cpc[c] = "more" /\ cliQ[c] # <<>>
  /\ LET m == Head(cliQ[c]) IN
       IF m.mtype = "DATA"
         THEN /\ total' = [total EXCEPT ![c] = @ + m.len]
              /\ cliQ' = [cliQ EXCEPT ![c] = Tail(@)]
              /\ UNCHANGED <<cpc, cliAlive>>
         ELSE ClientExit(c, "done") /\ UNCHANGED total
  /\ UNCHANGED <<file, child, left, cut>>

\* The client is killed by a signal: no atexit handler, the queue stays.
ClientKilled(c) ==
  /\ "kill" \in Faults
  /\ cpc[c] \in {"send", "first", "more"}
  /\ cpc' = [cpc EXCEPT ![c] = "killed"]
  /\ UNCHANGED <<file, cliQ, cliAlive, total, child, left, cut>>

ClientStep(c) == ClientFirst(c) \/ ClientMore(c)

-----------------------------------------------------------------------------
TransferTypeOK ==
  /\ file \in [Clients -> Files]
  /\ cpc \in [Clients -> {"open", "send", "first", "more", "done", "failed", "killed"}]
  /\ cliQ \in [Clients -> Seq(Messages)]
  /\ cliAlive \subseteq Clients
  /\ total \in [Clients -> Nat]
  /\ child \in [Clients -> {"none", "open", "read", "send", "end", "_exit", "exit",
                            "zombie", "reaped"}]
  /\ left \in [Clients -> 0..MaxBlocks]
  /\ cut \subseteq Clients

\* The number of messages of a type in a queue.
CountOf(q, mtype) == Cardinality({k \in 1..Len(q) : q[k].mtype = mtype})

\* No block is lost, duplicated or counted twice on its way from the file to
\* the client's total, however the child and the client interleave: what has
\* been added up, what is queued, what is in the child's buffer and what is
\* still in the file make up the file (serverRequest against client lines 84-105).
BlocksConserved ==
  \A c \in Clients :
    (file[c] \in 1..MaxBlocks /\ child[c] \in {"read", "send", "end", "_exit"}
       /\ c \in cliAlive)
      => total[c] + CountOf(cliQ[c], "DATA")
           + (IF child[c] = "send" THEN 1 ELSE 0) + left[c] = file[c]

\* "Receive %d bytes": a client that prints its total has the whole file, except
\* for the empty file and for a file whose reading failed part-way.
DoneIsComplete ==
  \A c \in Clients :
    (cpc[c] = "done" /\ c \notin cut /\ file[c] # 0) => total[c] = file[c]
=============================================================================
