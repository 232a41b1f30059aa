------------------------------ MODULE SvmsgFile ------------------------------
(***************************************************************************)
(* practice/46.4: a file server on a System V message queue.  The server   *)
(* publishes the identifier of its private queue in a file, forks a child  *)
(* for every request (SvmsgTransfer) and reaps in its SIGCHLD handler.     *)
(* A child is a fork of the server, so it inherits the atexit handler.     *)
(***************************************************************************)
EXTENDS SvmsgTransfer

CONSTANTS
  Servers,   \* the server processes that may be started
  None       \* no server

ASSUME ServerAssumption == IsFiniteSet(Servers) /\ None \notin Servers

VARIABLES
  srv,       \* srv[s]: "off" "loop" "handler" "spin" "break" "exit" "exited"
             \* "killed" "killedInExit" (between msgctl() and onExit)
  srvQ,      \* srvQ[s]: the requests (their clients) in s's queue
  srvAlive,  \* the servers whose queue exists
  idFile,    \* the server whose queue the file SERVER_KEY_FILE names, or None
  peer,      \* peer[c]: the server whose identifier client c has read
  owner,     \* owner[c]: the server that forked the child for c
  pending    \* the servers with a pending SIGCHLD

serverVars == <<srv, srvQ, srvAlive, idFile, peer, owner, pending>>
vars == <<transferVars, serverVars>>

Zombies(s) == {c \in Clients : child[c] = "zombie" /\ owner[c] = s}

-----------------------------------------------------------------------------
Init ==
  /\ TransferInit
  /\ srv = [s \in Servers |-> "off"]
  /\ srvQ = [s \in Servers |-> <<>>]
  /\ srvAlive = {}
  /\ idFile = None
  /\ peer = [c \in Clients |-> None]
  /\ owner = [c \in Clients |-> None]
  /\ pending = {}

\* Fault: the file is left behind.
OnExitKeepsFile(s) ==
  /\ UNCHANGED idFile
  /\ srvAlive' = srvAlive \ {s}
  /\ srvQ' = [srvQ EXCEPT ![s] = <<>>]

\* onExit: the id file is removed, whoever wrote it, and the queue of s.
OnExit(s) ==
  /\ idFile' = None
  /\ srvAlive' = srvAlive \ {s}
  /\ srvQ' = [srvQ EXCEPT ![s] = <<>>]

-----------------------------------------------------------------------------
(* The server.                                                             *)

\* A private queue is always new; its identifier overwrites the file.  A file
\* that cannot be written ends the server and leaks the queue.
ServerStart(s) ==
  /\ srv[s] = "off"
  /\ srvAlive' = srvAlive \cup {s}
  /\ \/ /\ idFile' = s
        /\ srv' = [srv EXCEPT ![s] = "loop"]
     \/ /\ "start" \in Faults
        /\ srv' = [srv EXCEPT ![s] = "exited"]
        /\ idFile' \in {idFile, None}
  /\ UNCHANGED <<transferVars, srvQ, peer, owner, pending>>

\* msgrcv() and fork(): a child for the request, or the loop is left.
ServerReceive(s) ==
  /\ srv[s] = "loop" /\ srvQ[s] # <<>>
  /\ srvQ' = [srvQ EXCEPT ![s] = Tail(@)]
  /\ LET c == Head(srvQ[s]) IN
       \/ /\ child' = [child EXCEPT ![c] = "open"]
          /\ owner' = [owner EXCEPT ![c] = s]
          /\ UNCHANGED srv
       \/ /\ "fork" \in Faults
          /\ srv' = [srv EXCEPT ![s] = "break"]
          /\ UNCHANGED <<child, owner>>
  /\ UNCHANGED <<file, cpc, cliQ, cliAlive, total, left, cut,
                 srvAlive, idFile, peer, pending>>

\* msgrcv() fails with EIDRM or EINVAL: the queue has been removed.
ServerLosesQueue(s) ==
  /\ srv[s] = "loop" /\ s \notin srvAlive
  /\ srv' = [srv EXCEPT ![s] = "break"]
  /\ UNCHANGED <<transferVars, srvQ, srvAlive, idFile, peer, owner, pending>>

\* After the loop: the queue is removed, then exit() runs onExit.
ServerDeletesQueue(s) ==
  /\ srv[s] = "break"
  /\ srv' = [srv EXCEPT ![s] = "exit"]
  /\ srvAlive' = srvAlive \ {s}
  /\ srvQ' = [srvQ EXCEPT ![s] = <<>>]
  /\ UNCHANGED <<transferVars, idFile, peer, owner, pending>>

ServerExit(s) ==
  /\ srv[s] = "exit"
  /\ srv' = [srv EXCEPT ![s] = "exited"]
  /\ OnExit(s)
  /\ UNCHANGED <<transferVars, peer, owner, pending>>

\* SIGINT or SIGTERM: the handler calls exit(), whatever it interrupts.
ServerInterrupted(s) ==
  /\ "interrupt" \in Faults
  /\ srv[s] \in {"loop", "handler", "spin", "break", "exit"}
  /\ srv' = [srv EXCEPT ![s] = "exited"]
  /\ OnExit(s)
  /\ UNCHANGED <<transferVars, peer, owner, pending>>

\* SIGKILL, at any point: queue and file stay as they are.
ServerKilled(s) ==
  /\ "kill" \in Faults
  /\ srv[s] \in {"loop", "handler", "spin", "break", "exit"}
  /\ srv' = [srv EXCEPT ![s] = IF srv[s] = "exit" THEN "killedInExit" ELSE "killed"]
  /\ UNCHANGED <<transferVars, srvQ, srvAlive, idFile, peer, owner, pending>>

\* SIGCHLD interrupts msgrcv() and is masked until its handler returns.
SigchldDelivered(s) ==
  /\ srv[s] = "loop" /\ s \in pending
  /\ pending' = pending \ {s}
  /\ srv' = [srv EXCEPT ![s] = "handler"]
  /\ UNCHANGED <<transferVars, srvQ, srvAlive, idFile, peer, owner>>

AllReaped(s) == \A c \in Clients : owner[c] = s => child[c] = "reaped"

\* Fault: "!= 0" for "== -1", the handler goes on until no zombie is left.
ReapsAll(s) ==
  /\ srv[s] = "handler"
  /\ IF Zombies(s) # {}
       THEN /\ \E c \in Zombies(s) : child' = [child EXCEPT ![c] = "reaped"]
            /\ UNCHANGED srv
       ELSE /\ srv' = [srv EXCEPT ![s] = IF AllReaped(s) THEN "spin" ELSE "loop"]
            /\ UNCHANGED child
  /\ UNCHANGED <<file, cpc, cliQ, cliAlive, total, left, cut, srvQ, srvAlive,
                 idFile, peer, owner, pending>>

\* "while (waitpid(-1, NULL, WNOHANG) == -1) continue" reaps one zombie, returns
\* if there is none yet, and spins for ever if no child is left at all.
Reap(s) ==
  /\ srv[s] = "handler"
  /\ IF Zombies(s) # {}
       THEN /\ \E c \in Zombies(s) : child' = [child EXCEPT ![c] = "reaped"]
            /\ srv' = [srv EXCEPT ![s] = "loop"]
       ELSE /\ srv' = [srv EXCEPT ![s] = IF AllReaped(s) THEN "spin" ELSE "loop"]
            /\ UNCHANGED child
  /\ UNCHANGED <<file, cpc, cliQ, cliAlive, total, left, cut, srvQ, srvAlive,
                 idFile, peer, owner, pending>>

-----------------------------------------------------------------------------
(* The end of a child.                                                     *)

Gone == {"exited", "killed", "killedInExit"}

\* The child is gone; a live server gets SIGCHLD, an orphan is reaped by init.
Dead(c) ==
  IF srv[owner[c]] \in Gone
    THEN child' = [child EXCEPT ![c] = "reaped"] /\ UNCHANGED pending
    ELSE child' = [child EXCEPT ![c] = "zombie"] /\ pending' = pending \cup {owner[c]}

\* _exit() after serverRequest() has returned.
ChildExits(c) ==
  /\ child[c] = "_exit"
  /\ Dead(c)
  /\ UNCHANGED <<file, cpc, cliQ, cliAlive, total, left, cut, srv, srvQ, srvAlive,
                 idFile, peer, owner>>

\* exit(EXIT_FAILURE) after open() failed runs the inherited onExit.
ChildFails(c) ==
  /\ child[c] = "exit"
  /\ Dead(c)
  /\ OnExit(owner[c])
  /\ UNCHANGED <<file, cpc, cliQ, cliAlive, total, left, cut, srv, peer, owner>>

\* SIGINT or SIGTERM for a child: the inherited handler calls exit() as well.
ChildInterrupted(c) ==
  /\ "interrupt" \in Faults
  /\ child[c] \in {"open", "read", "send", "end"}
  /\ Dead(c)
  /\ OnExit(owner[c])
  /\ UNCHANGED <<file, cpc, cliQ, cliAlive, total, left, cut, srv, peer, owner>>

\* SIGKILL for a child: nothing is sent or removed.
ChildKilled(c) ==
  /\ "childKill" \in Faults
  /\ child[c] \in {"open", "read", "send", "end", "_exit", "exit"}
  /\ Dead(c)
  /\ UNCHANGED <<file, cpc, cliQ, cliAlive, total, left, cut, srv, srvQ, srvAlive,
                 idFile, peer, owner>>

-----------------------------------------------------------------------------
(* The start of a client.                                                  *)

\* The id file is read and the private queue created.
ClientOpen(c) ==
  /\ cpc[c] = "open"
  /\ IF idFile = None
       THEN cpc' = [cpc EXCEPT ![c] = "failed"] /\ UNCHANGED <<peer, cliAlive>>
       ELSE /\ peer' = [peer EXCEPT ![c] = idFile]
            /\ cliAlive' = cliAlive \cup {c}
            /\ cpc' = [cpc EXCEPT ![c] = "send"]
  /\ UNCHANGED <<file, cliQ, total, child, left, cut, srv, srvQ, srvAlive, idFile,
                 owner, pending>>

\* The request is sent, or the queue it was meant for is gone.
ClientSend(c) ==
  /\ cpc[c] = "send"
  /\ IF peer[c] \in srvAlive
       THEN /\ srvQ' = [srvQ EXCEPT ![peer[c]] = Append(@, c)]
            /\ cpc' = [cpc EXCEPT ![c] = "first"]
            /\ UNCHANGED <<cliQ, cliAlive>>
       ELSE ClientExit(c, "failed") /\ UNCHANGED srvQ
  /\ UNCHANGED <<file, total, child, left, cut, srv, srvAlive, idFile, peer,
                 owner, pending>>

-----------------------------------------------------------------------------
ServerStep(s) ==
  \/ ServerReceive(s) \/ ServerLosesQueue(s) \/ ServerDeletesQueue(s)
  \/ ServerExit(s) \/ SigchldDelivered(s) \/ Reap(s)
ChildProc(c) == (ChildStep(c) /\ UNCHANGED serverVars) \/ ChildExits(c) \/ ChildFails(c)
ClientProc(c) == ClientSend(c) \/ (ClientStep(c) /\ UNCHANGED serverVars)

Next ==
  \/ \E s \in Servers :
       ServerStart(s) \/ ServerStep(s) \/ ServerInterrupted(s) \/ ServerKilled(s)
  \/ \E c \in Clients :
       \/ ChildProc(c) \/ ChildInterrupted(c) \/ ChildKilled(c)
       \/ ClientOpen(c) \/ ClientProc(c)
       \/ ClientKilled(c) /\ UNCHANGED serverVars

\* Every process that can run is scheduled; nobody need start, or be signalled.
Fairness ==
  /\ \A s \in Servers : WF_vars(ServerStep(s))
  /\ \A c \in Clients : WF_vars(ChildProc(c)) /\ WF_vars(ClientProc(c))

Spec == Init /\ [][Next]_vars
FairSpec == Spec /\ Fairness

-----------------------------------------------------------------------------
\* Every variable keeps its range.
TypeOK ==
  /\ TransferTypeOK
  /\ srv \in [Servers -> {"off", "loop", "handler", "spin", "break", "exit", "exited",
                          "killed", "killedInExit"}]
  /\ srvQ \in [Servers -> Seq(Clients)]
  /\ srvAlive \subseteq Servers
  /\ idFile \in Servers \cup {None}
  /\ peer \in [Clients -> Servers \cup {None}]
  /\ owner \in [Clients -> Servers \cup {None}]
  /\ pending \subseteq Servers

\* The handler's "while (waitpid() == -1) continue" never spins: although
\* SIGCHLDs coalesce, every delivery finds a zombie no earlier one has reaped.
HandlerNeverSpins == \A s \in Servers : srv[s] # "spin"

\* The identifier a client can read in SERVER_KEY_FILE is that of an existing
\* queue, except while its server is between msgctl() (line 167) and onExit, and
\* for good when it is killed there: restarts, failing children, half-failed
\* starts and a kill anywhere else never leave a stale one.
IdFileNamesAQueue ==
  \A s \in Servers :
    idFile = s => (s \in srvAlive \/ srv[s] \in {"exit", "killedInExit"})

\* "Send a message of type RESP_MT_END to signify end-of-file" (line 83): a
\* child that is through with a file has announced the end to its client.
EndIsAnnounced ==
  \A c \in Clients :
    (child[c] \in {"_exit", "zombie", "reaped"} /\ file[c] # Missing
       /\ cpc[c] \in {"first", "more"})
      => CountOf(cliQ[c], "END") = 1

\* Every client that has found the server ends, with the file or with FAILURE.
EveryClientFinishes ==
  \A c \in Clients : cpc[c] = "send" ~> cpc[c] \in {"done", "failed"}
=============================================================================
