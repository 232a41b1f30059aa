------------------------------- MODULE MqFile -------------------------------
(***************************************************************************)
(* The two file servers on POSIX message queues.  practice/52.2 receives a *)
(* request in a loop and forks a child for it; practice/52.2.b registers   *)
(* with mq_notify and serves a request in the thread the notification      *)
(* starts.  Their clients, and what a child or thread sends to one, are    *)
(* the same code, so one module models both; "kind" says which server      *)
(* runs.  A file is a sequence of blocks of sizeof(resp.data) bytes.       *)
(***************************************************************************)
EXTENDS Integers, Sequences, FiniteSets

CONSTANTS
  Clients,      \* the client processes, one request each
  MaxBlocks,    \* bound: the longest file, in blocks
  Missing,      \* the file size standing for "open() fails"
  Files,        \* the sizes, Missing included, of the files asked for
  QueueCap,     \* mq_maxmsg of every queue
  Kinds,        \* the servers of this run
  Mishaps,      \* the misfortunes of this run, of which a behaviour has one
  MaxErrors     \* bound: how often read() fails in one behaviour

ASSUME MqAssumption ==
  /\ IsFiniteSet(Clients)
  /\ MaxBlocks \in Nat /\ MaxErrors \in Nat /\ QueueCap \in Nat \ {0}
  /\ Missing \notin Int
  /\ Files \subseteq 0..MaxBlocks \cup {Missing}
  /\ Kinds \subseteq {"fork", "notify"}
  /\ Mishaps \subseteq {"none", "kill", "fork", "create", "read"}

VARIABLES
  kind,         \* which server runs: "fork" is 52.2, "notify" is 52.2.b
  mishap,       \* what goes wrong in this behaviour
  file,         \* file[c]: the size of the file c asks for, or Missing
  srv,          \* where the server is
  srvName,      \* whether SERVER_MQ names a queue: "yes" or "no"
  srvQ,         \* the requests in that queue
  reg,          \* whether a notification is registered: "set" or "unset"
  entered,      \* the threads notified that have not called mq_notify
  receiving,    \* the threads that have, and not yet received
  worker,       \* worker[c]: the child or thread that serves c
  pos,          \* pos[c]: the blocks it has read
  errors,       \* how often read() has failed
  sigchld,      \* whether SIGCHLD is pending: "yes" or "no"
  cpc,          \* cpc[c]: where client c is
  cliQ,         \* cliQ[c]: the messages in c's own queue
  cliNamed,     \* the clients whose own queue exists
  got           \* got[c]: the blocks c has written to its file

srvVars == <<srv, srvName, srvQ, reg, entered, receiving>>
workVars == <<worker, pos, errors, sigchld>>
cliVars == <<cpc, cliNamed, got>>
given == <<kind, mishap, file>>
vars == <<given, srvVars, workVars, cliVars, cliQ>>

\* A message to a client: a block 1..MaxBlocks with RESP_DATA, or one of these.
END == 0        \* RESP_END
Bad == -1       \* RESP_DATA with the -1 of a failing read() as dataLen
FAILE == -2     \* RESP_FAILE

Working == {"open", "read", "send", "sendBad", "end"}

Init ==
  /\ kind \in Kinds /\ mishap \in Mishaps
  /\ file \in [Clients -> Files]
  /\ srv = "none" /\ srvName = "no" /\ srvQ = <<>>
  /\ reg = "unset" /\ entered = 0 /\ receiving = 0
  /\ worker = [c \in Clients |-> "none"]
  /\ pos = [c \in Clients |-> 0] /\ errors = 0 /\ sigchld = "no"
  /\ cpc = [c \in Clients |-> "open"]
  /\ cliQ = [c \in Clients |-> <<>>] /\ cliNamed = {}
  /\ got = [c \in Clients |-> <<>>]

-----------------------------------------------------------------------------
(* The server.                                                             *)

\* mq_open(O_EXCL).  Nothing ever unlinks SERVER_MQ, so this succeeds once.
ServerStarts ==
  /\ srv = "none"
  /\ srvName' = "yes"
  /\ srv' = IF kind = "notify" THEN "notify" ELSE "run"
  /\ UNCHANGED <<given, srvQ, reg, entered, receiving, workVars, cliVars, cliQ>>

\* The process ends: threads end with it, children do not.
Ends ==
  /\ srv' = "down"
  /\ reg' = "unset" /\ entered' = 0 /\ receiving' = 0
  /\ UNCHANGED <<srvName, sigchld>>

\* notifySetup() in main; messages that are already there notify nobody.
ServerRegisters ==
  /\ srv = "notify"
  /\ srv' = "run" /\ reg' = "set"
  /\ UNCHANGED <<given, srvName, srvQ, entered, receiving, workVars, cliVars, cliQ>>

\* 52.2: mq_receive() and fork(), whose failure ends the server.
ServerForks ==
  /\ kind = "fork" /\ srv = "run" /\ srvQ # <<>>
  /\ srvQ' = Tail(srvQ)
  /\ \/ /\ worker' = [worker EXCEPT ![Head(srvQ)] = "open"]
        /\ UNCHANGED <<srv, srvName, reg, entered, receiving, sigchld>>
     \/ mishap = "fork" /\ Ends /\ UNCHANGED worker
  /\ UNCHANGED <<given, pos, errors, cliVars, cliQ>>

\* Fault: the handler is written with "if" for "while".
ReapsOne ==
  /\ sigchld = "yes" /\ srv = "run"
  /\ sigchld' = "no"
  /\ \E c \in Clients :
       /\ worker[c] = "zombie"
       /\ worker' = [worker EXCEPT ![c] = "gone"]
  /\ UNCHANGED <<given, srvVars, pos, errors, cliVars, cliQ>>

\* SIGHILD_Handler reaps every zombie there is, then mq_receive() restarts.
ServerReaps ==
  /\ sigchld = "yes" /\ srv = "run"
  /\ sigchld' = "no"
  /\ worker' = [c \in Clients |-> IF worker[c] = "zombie" THEN "gone" ELSE worker[c]]
  /\ UNCHANGED <<given, srvVars, pos, errors, cliVars, cliQ>>

\* 52.2.b, notifySetup() in a notified thread: EBUSY would end the server.
ThreadRegisters ==
  /\ entered > 0
  /\ IF reg = "set"
       THEN Ends
       ELSE /\ reg' = "set" /\ entered' = entered - 1 /\ receiving' = receiving + 1
            /\ UNCHANGED <<srv, srvName, sigchld>>
  /\ UNCHANGED <<given, srvQ, worker, pos, errors, cliVars, cliQ>>

\* Fault: the thread goes round and receives again.
ThreadLoops ==
  /\ receiving > 0 /\ srvQ # <<>>
  /\ srvQ' = Tail(srvQ)
  /\ worker' = [worker EXCEPT ![Head(srvQ)] = "open"]
  /\ UNCHANGED <<given, srv, srvName, reg, entered, receiving, pos, errors, sigchld, cliVars, cliQ>>

\* 52.2.b, one mq_receive() for each notification.
ThreadReceives ==
  /\ receiving > 0 /\ srvQ # <<>>
  /\ receiving' = receiving - 1
  /\ srvQ' = Tail(srvQ)
  /\ worker' = [worker EXCEPT ![Head(srvQ)] = "open"]
  /\ UNCHANGED <<given, srv, srvName, reg, entered, pos, errors, sigchld, cliVars, cliQ>>

\* The threads of a server that ends are gone, the children are orphans.
Orphans ==
  [c \in Clients |-> IF kind = "notify" /\ worker[c] \in Working THEN "gone" ELSE worker[c]]

ServerKilled ==
  /\ mishap = "kill" /\ srv \in {"notify", "run"}
  /\ Ends
  /\ worker' = Orphans
  /\ UNCHANGED <<given, srvQ, pos, errors, cliVars, cliQ>>

Server ==
  \/ ServerStarts \/ ServerRegisters \/ ServerForks \/ ServerReaps
  \/ ThreadRegisters \/ ThreadReceives

-----------------------------------------------------------------------------
(* The child or thread that serves client c: msgHandler().                 *)

HasRoom(c) == Len(cliQ[c]) < QueueCap

\* exit() of a child, of which init takes care if the server is down, or
\* pthread_exit().
Exits(c) ==
  IF kind = "fork" /\ srv = "run"
    THEN worker' = [worker EXCEPT ![c] = "zombie"] /\ sigchld' = "yes"
    ELSE worker' = [worker EXCEPT ![c] = "gone"] /\ UNCHANGED sigchld

\* mq_open() of the client's queue, then open() of the file.
WorkerOpens(c) ==
  /\ worker[c] = "open" /\ file[c] # Missing
  /\ worker' = [worker EXCEPT ![c] = "read"]
  /\ UNCHANGED <<given, srvVars, pos, errors, sigchld, cliVars, cliQ>>

\* A missing file: RESP_FAILE and ERROUT, which ends the child, or the whole
\* server with its threads.
WorkerFails(c) ==
  /\ worker[c] = "open" /\ file[c] = Missing
  /\ HasRoom(c)
  /\ cliQ' = [cliQ EXCEPT ![c] = Append(@, FAILE)]
  /\ IF kind = "fork"
       THEN Exits(c) /\ UNCHANGED srvVars
       ELSE Ends /\ worker' = Orphans /\ UNCHANGED srvQ
  /\ UNCHANGED <<given, pos, errors, cliVars>>

\* Fault: read() is called once more than needed and a block is lost.
WorkerSkips(c) ==
  /\ worker[c] = "read"
  /\ \/ /\ pos[c] < file[c]
        /\ pos' = [pos EXCEPT ![c] = IF @ + 2 <= file[c] THEN @ + 2 ELSE @ + 1]
        /\ worker' = [worker EXCEPT ![c] = "send"]
     \/ /\ pos[c] = file[c]
        /\ worker' = [worker EXCEPT ![c] = "end"]
        /\ UNCHANGED pos
  /\ UNCHANGED <<given, srvVars, errors, sigchld, cliVars, cliQ>>

\* read(): only 0 ends the loop, an error is sent as a block of length -1.
WorkerReads(c) ==
  /\ worker[c] = "read"
  /\ \/ /\ pos[c] < file[c]
        /\ pos' = [pos EXCEPT ![c] = @ + 1]
        /\ worker' = [worker EXCEPT ![c] = "send"]
        /\ UNCHANGED errors
     \/ /\ pos[c] = file[c]
        /\ worker' = [worker EXCEPT ![c] = "end"]
        /\ UNCHANGED <<pos, errors>>
     \/ /\ mishap = "read" /\ errors < MaxErrors
        /\ errors' = errors + 1
        /\ worker' = [worker EXCEPT ![c] = "sendBad"]
        /\ UNCHANGED pos
  /\ UNCHANGED <<given, srvVars, sigchld, cliVars, cliQ>>

\* mq_send() waits while the client's queue is full.
WorkerSends(c) ==
  /\ worker[c] \in {"send", "sendBad"} /\ HasRoom(c)
  /\ cliQ' = [cliQ EXCEPT ![c] = Append(@, IF worker[c] = "send" THEN pos[c] ELSE Bad)]
  /\ worker' = [worker EXCEPT ![c] = "read"]
  /\ UNCHANGED <<given, srvVars, pos, errors, sigchld, cliVars>>

WorkerEnds(c) ==
  /\ worker[c] = "end" /\ HasRoom(c)
  /\ cliQ' = [cliQ EXCEPT ![c] = Append(@, END)]
  /\ Exits(c)
  /\ UNCHANGED <<given, srvVars, pos, errors, cliVars>>

Worker(c) ==
  WorkerOpens(c) \/ WorkerFails(c) \/ WorkerReads(c) \/ WorkerSends(c) \/ WorkerEnds(c)

-----------------------------------------------------------------------------
(* Client c.                                                               *)

\* Its own queue, then the server's: without a server it ends and leaves the
\* queue behind.
ClientOpens(c) ==
  /\ cpc[c] = "open"
  /\ cliNamed' = cliNamed \cup {c}
  /\ cpc' = [cpc EXCEPT ![c] = IF srvName = "yes" THEN "send" ELSE "failed"]
  /\ UNCHANGED <<given, srvVars, workVars, got, cliQ>>

\* mq_send() of the request: a message that arrives at an empty queue uses up
\* the registration and starts a thread.
ClientSends(c) ==
  /\ cpc[c] = "send" /\ Len(srvQ) < QueueCap
  /\ srvQ' = Append(srvQ, c)
  /\ IF srvQ = <<>> /\ reg = "set"
       THEN reg' = "unset" /\ entered' = entered + 1
       ELSE UNCHANGED <<reg, entered>>
  /\ cpc' = [cpc EXCEPT ![c] = "create"]
  /\ UNCHANGED <<given, srv, srvName, receiving, workVars, cliNamed, got, cliQ>>

\* open() of the file to write; if it fails the client ends, its request sent.
ClientCreates(c) ==
  /\ cpc[c] = "create"
  /\ \/ cpc' = [cpc EXCEPT ![c] = "receive"]
     \/ mishap = "create" /\ cpc' = [cpc EXCEPT ![c] = "failed"]
  /\ UNCHANGED <<given, srvVars, workVars, cliNamed, got, cliQ>>

\* mq_receive(): whatever is not RESP_DATA ends the loop, and with it the queue.
ClientReceives(c) ==
  /\ cpc[c] = "receive" /\ cliQ[c] # <<>>
  /\ LET m == Head(cliQ[c]) IN
       IF m \in {END, FAILE}
         THEN /\ cpc' = [cpc EXCEPT ![c] = "done"]
              /\ cliNamed' = cliNamed \ {c}
              /\ UNCHANGED got
         ELSE /\ got' = [got EXCEPT ![c] = IF m = Bad THEN @ ELSE Append(@, m)]
              /\ UNCHANGED <<cpc, cliNamed>>
  /\ cliQ' = [cliQ EXCEPT ![c] = Tail(@)]
  /\ UNCHANGED <<given, srvVars, workVars>>

ClientKilled(c) ==
  /\ mishap = "kill" /\ cpc[c] \in {"send", "create", "receive"}
  /\ cpc' = [cpc EXCEPT ![c] = "failed"]
  /\ UNCHANGED <<given, srvVars, workVars, cliNamed, got, cliQ>>

Client(c) == ClientSends(c) \/ ClientCreates(c) \/ ClientReceives(c)

Next ==
  \/ Server \/ ServerKilled
  \/ \E c \in Clients : Worker(c) \/ Client(c) \/ ClientOpens(c) \/ ClientKilled(c)

Spec == Init /\ [][Next]_vars

\* Processes and threads the kernel schedules; a client need not be started.
FairSpec ==
  /\ Spec
  /\ WF_vars(Server)
  /\ \A c \in Clients : WF_vars(Worker(c)) /\ WF_vars(Client(c))

-----------------------------------------------------------------------------
\* The values of the variables; no queue holds more than mq_maxmsg messages.
TypeOK ==
  /\ kind \in Kinds /\ mishap \in Mishaps
  /\ file \in [Clients -> Files]
  /\ srv \in {"none", "notify", "run", "down"}
  /\ srvName \in {"yes", "no"}
  /\ srvQ \in Seq(Clients) /\ Len(srvQ) <= QueueCap
  /\ reg \in {"set", "unset"}
  /\ entered \in Nat /\ receiving \in Nat
  /\ worker \in [Clients -> Working \cup {"none", "zombie", "gone"}]
  /\ pos \in [Clients -> 0..MaxBlocks]
  /\ errors \in 0..MaxErrors
  /\ sigchld \in {"yes", "no"}
  /\ cpc \in [Clients -> {"open", "send", "create", "receive", "done", "failed"}]
  /\ cliQ \in [Clients -> Seq(FAILE..MaxBlocks)]
  /\ \A c \in Clients : Len(cliQ[c]) <= QueueCap
  /\ cliNamed \subseteq Clients
  /\ got \in [Clients -> Seq(1..MaxBlocks)]

\* A client that prints "receive end!" has every block of the file in order, or
\* nothing if there is no such file, whatever was killed (client 78-90, server
\* 52.2 64-84).
EndIsTheWholeFile ==
  \A c \in Clients : cpc[c] = "done" =>
    got[c] = [b \in 1..(IF file[c] = Missing THEN 0 ELSE file[c]) |-> b]

\* 52.2.b: a running server has a registration or exactly one thread about to
\* renew it, so mq_notify never gives EBUSY, which would end the server; and a
\* thread that goes to mq_receive finds the request it was notified of
\* (52.2.b/file_server.c 101-115, 126).
NotifyNeverBusy ==
  /\ kind = "notify" /\ srv = "run" =>
       entered = (IF reg = "set" THEN 0 ELSE 1)
  /\ entered + receiving > 0 => entered + receiving = 1 /\ srvQ # <<>>

\* If nothing goes wrong, 52.2 answers every request it has been sent, and 52.2.b
\* every request one of its threads has taken, as long as no file is missing;
\* and no child stays a zombie (52.2 89-98, 127-147; 52.2.b 89-115).
EveryRequestAnswered ==
  \A c \in Clients :
    [](/\ mishap = "none"
       /\ \/ kind = "fork" /\ srv = "run" /\ cpc[c] \in {"send", "create", "receive"}
          \/ kind = "notify" /\ worker[c] # "none" /\ \A d \in Clients : file[d] # Missing
       => <>(cpc[c] = "done" /\ worker[c] = "gone"))
=============================================================================
