------------------------------ MODULE KeyServer ------------------------------
(***************************************************************************)
(* routines/46.7.svmsg: the file server of practice/46.4 with a queue under *)
(* a well-known key instead of a file with its identifier.  A server that   *)
(* starts removes the queue it finds under the key and makes its own, so a  *)
(* queue is named here by the server that made it.  Child and client        *)
(* transfer as in SvmsgTransfer; neither they nor the server use atexit()   *)
(* or catch a signal, so a server that is killed leaves its queue behind.   *)
(***************************************************************************)
EXTENDS SvmsgTransfer

CONSTANTS
  KeyServers,   \* the server processes that may be started
  NoServer      \* no queue, no server

ASSUME KeyAssumption == IsFiniteSet(KeyServers) /\ NoServer \notin KeyServers

VARIABLES
  ksrv,      \* ksrv[s]: "off" "create" "exists" "remove" "loop" "break" "exited"
             \* "killed"
  keyed,     \* the server whose queue SERVER_KEY names, or NoServer
  keyQ,      \* the requests (their clients) in that queue
  oldId,     \* oldId[s]: the queue s has found under the key
  keyPeer,   \* keyPeer[c]: the queue client c has found under the key
  parent,    \* parent[c]: the server that forked the child for c
  sigchld    \* the servers with a pending SIGCHLD

keyServerVars == <<ksrv, keyed, keyQ, oldId, keyPeer, parent, sigchld>>
keyVars == <<transferVars, keyServerVars>>

KeyInit ==
  /\ TransferInit /\ file = [c \in Clients |-> Missing]
  /\ ksrv = [s \in KeyServers |-> "off"]
  /\ keyed = NoServer /\ keyQ = <<>>
  /\ oldId = [s \in KeyServers |-> NoServer]
  /\ keyPeer = [c \in Clients |-> NoServer]
  /\ parent = [c \in Clients |-> NoServer]
  /\ sigchld = {}

\* IPC_RMID of the queue under the key: its requests are gone.
RemoveKeyed == keyed' = NoServer /\ keyQ' = <<>>

-----------------------------------------------------------------------------
(* The server.                                                             *)

KeyServerStarts(s) ==
  /\ ksrv[s] = "off"
  /\ ksrv' = [ksrv EXCEPT ![s] = "create"]
  /\ UNCHANGED <<transferVars, keyed, keyQ, oldId, keyPeer, parent, sigchld>>

\* msgget(SERVER_KEY, IPC_CREAT | IPC_EXCL).
KeyServerCreates(s) ==
  /\ ksrv[s] = "create"
  /\ IF keyed = NoServer
       THEN keyed' = s /\ ksrv' = [ksrv EXCEPT ![s] = "loop"]
       ELSE ksrv' = [ksrv EXCEPT ![s] = "exists"] /\ UNCHANGED keyed
  /\ UNCHANGED <<transferVars, keyQ, oldId, keyPeer, parent, sigchld>>

\* EEXIST: msgget(SERVER_KEY, 0), which fails if the queue has gone meanwhile.
KeyServerFindsOld(s) ==
  /\ ksrv[s] = "exists"
  /\ oldId' = [oldId EXCEPT ![s] = keyed]
  /\ ksrv' = [ksrv EXCEPT ![s] = IF keyed = NoServer THEN "exited" ELSE "remove"]
  /\ UNCHANGED <<transferVars, keyed, keyQ, keyPeer, parent, sigchld>>

\* IPC_RMID of what was found, whoever serves it; then the loop tries again.
KeyServerRemovesOld(s) ==
  /\ ksrv[s] = "remove"
  /\ IF keyed = oldId[s]
       THEN RemoveKeyed /\ ksrv' = [ksrv EXCEPT ![s] = "create"]
       ELSE ksrv' = [ksrv EXCEPT ![s] = "exited"] /\ UNCHANGED <<keyed, keyQ>>
  /\ oldId' = [oldId EXCEPT ![s] = NoServer]
  /\ UNCHANGED <<transferVars, keyPeer, parent, sigchld>>

\* Fault: a fork() that fails is skipped, "continue" for "break".
KeyServerSkips(s) ==
  /\ ksrv[s] = "loop" /\ keyed = s /\ keyQ # <<>>
  /\ keyQ' = Tail(keyQ)
  /\ \/ /\ child' = [child EXCEPT ![Head(keyQ)] = "open"]
        /\ parent' = [parent EXCEPT ![Head(keyQ)] = s]
     \/ "fork" \in Faults /\ UNCHANGED <<child, parent>>
  /\ UNCHANGED <<file, cpc, cliQ, cliAlive, total, left, cut, ksrv, keyed, oldId,
                 keyPeer, sigchld>>

\* msgrcv() and fork(); a fork() that fails ends the loop and the request.
KeyServerReceives(s) ==
  /\ ksrv[s] = "loop" /\ keyed = s /\ keyQ # <<>>
  /\ keyQ' = Tail(keyQ)
  /\ \/ /\ child' = [child EXCEPT ![Head(keyQ)] = "open"]
        /\ parent' = [parent EXCEPT ![Head(keyQ)] = s]
        /\ UNCHANGED ksrv
     \/ /\ "fork" \in Faults
        /\ ksrv' = [ksrv EXCEPT ![s] = "break"]
        /\ UNCHANGED <<child, parent>>
  /\ UNCHANGED <<file, cpc, cliQ, cliAlive, total, left, cut, keyed, oldId,
                 keyPeer, sigchld>>

\* msgrcv() fails with EIDRM: another server has removed the queue.
KeyServerLosesQueue(s) ==
  /\ ksrv[s] = "loop" /\ keyed # s
  /\ ksrv' = [ksrv EXCEPT ![s] = "break"]
  /\ UNCHANGED <<transferVars, keyed, keyQ, oldId, keyPeer, parent, sigchld>>

\* After the loop the server removes its own queue, by its identifier.
KeyServerEnds(s) ==
  /\ ksrv[s] = "break"
  /\ ksrv' = [ksrv EXCEPT ![s] = "exited"]
  /\ IF keyed = s THEN RemoveKeyed ELSE UNCHANGED <<keyed, keyQ>>
  /\ UNCHANGED <<transferVars, oldId, keyPeer, parent, sigchld>>

\* SIGCHLD interrupts msgrcv() (EINTR, which continues the loop); the handler
\* reaps one zombie, and waits for one in a busy loop if there were none.
KeyServerReaps(s) ==
  /\ ksrv[s] = "loop" /\ s \in sigchld
  /\ sigchld' = sigchld \ {s}
  /\ \E c \in Clients :
       /\ child[c] = "zombie" /\ parent[c] = s
       /\ child' = [child EXCEPT ![c] = "reaped"]
  /\ UNCHANGED <<file, cpc, cliQ, cliAlive, total, left, cut, ksrv, keyed, keyQ,
                 oldId, keyPeer, parent>>

\* SIGINT, SIGTERM, SIGKILL: none is caught, and a queue stays under the key.  A
\* server that has none there, not yet or no longer, goes without a trace.
KeyServerKilled(s) ==
  /\ "kill" \in Faults
  /\ ksrv[s] \in {"create", "exists", "remove", "loop", "break"}
  /\ ksrv' = [ksrv EXCEPT ![s] = IF keyed = s THEN "killed" ELSE "exited"]
  /\ UNCHANGED <<transferVars, keyed, keyQ, oldId, keyPeer, parent, sigchld>>

KeyServerStep(s) ==
  \/ KeyServerCreates(s) \/ KeyServerFindsOld(s) \/ KeyServerRemovesOld(s)
  \/ KeyServerReceives(s) \/ KeyServerLosesQueue(s) \/ KeyServerEnds(s)
  \/ KeyServerReaps(s)

-----------------------------------------------------------------------------
(* The child and the client.                                               *)

\* The child is gone; a live server gets SIGCHLD, an orphan is reaped by init.
KeyChildDies(c) ==
  /\ IF ksrv[parent[c]] \in {"exited", "killed"}
       THEN child' = [child EXCEPT ![c] = "reaped"] /\ UNCHANGED sigchld
       ELSE child' = [child EXCEPT ![c] = "zombie"] /\ sigchld' = sigchld \cup {parent[c]}
  /\ UNCHANGED <<file, cpc, cliQ, cliAlive, total, left, cut, ksrv, keyed, keyQ,
                 oldId, keyPeer, parent>>

KeyChildExits(c) == child[c] \in {"_exit", "exit"} /\ KeyChildDies(c)

\* A signal that is not caught ends the child before it has answered.
KeyChildKilled(c) ==
  /\ "childKill" \in Faults
  /\ child[c] \in {"open", "read", "send", "end"}
  /\ KeyChildDies(c)

KeyChildStep(c) == (ChildStep(c) /\ UNCHANGED keyServerVars) \/ KeyChildExits(c)

\* The client, for some file, finds the queue and makes its private one.
KeyClientOpens(c) ==
  /\ cpc[c] = "open"
  /\ \E f \in Files : file' = [file EXCEPT ![c] = f]
  /\ keyPeer' = [keyPeer EXCEPT ![c] = keyed]
  /\ IF keyed = NoServer
       THEN cpc' = [cpc EXCEPT ![c] = "failed"] /\ UNCHANGED cliAlive
       ELSE cpc' = [cpc EXCEPT ![c] = "send"] /\ cliAlive' = cliAlive \cup {c}
  /\ UNCHANGED <<cliQ, total, child, left, cut, ksrv, keyed, keyQ, oldId, parent,
                 sigchld>>

\* msgsnd() of the request fails if the queue found is no longer there.
KeyClientSends(c) ==
  /\ cpc[c] = "send"
  /\ IF keyPeer[c] = keyed
       THEN /\ keyQ' = Append(keyQ, c)
            /\ cpc' = [cpc EXCEPT ![c] = "first"]
            /\ UNCHANGED <<cliQ, cliAlive>>
       ELSE ClientExit(c, "failed") /\ UNCHANGED keyQ
  /\ UNCHANGED <<file, total, child, left, cut, ksrv, keyed, oldId, keyPeer,
                 parent, sigchld>>

KeyClientStep(c) ==
  KeyClientSends(c) \/ (ClientStep(c) /\ UNCHANGED keyServerVars)

-----------------------------------------------------------------------------
KeyNext ==
  \/ \E s \in KeyServers : KeyServerStarts(s) \/ KeyServerStep(s) \/ KeyServerKilled(s)
  \/ \E c \in Clients :
       KeyClientOpens(c) \/ KeyClientStep(c) \/ KeyChildStep(c) \/ KeyChildKilled(c)

KeySpec == KeyInit /\ [][KeyNext]_keyVars

\* Processes that run are scheduled; nobody need be started, or killed.
KeyFairness ==
  /\ \A s \in KeyServers : WF_keyVars(KeyServerStep(s))
  /\ \A c \in Clients : WF_keyVars(KeyClientStep(c)) /\ WF_keyVars(KeyChildStep(c))

KeyFairSpec == KeySpec /\ KeyFairness

\* No child will ever be forked for c's request: the queue it was sent to has
\* been removed from under the key, or nobody receives from it any more.
RequestLost(c) ==
  /\ child[c] = "none"
  /\ keyed # keyPeer[c] \/ keyPeer[c] \in {s \in KeyServers : ksrv[s] = "killed"}

\* The child has gone, and not even an END is left of what it has sent.
AnswerLost(c) == child[c] \in {"_exit", "zombie", "reaped"} /\ cliQ[c] = <<>>

\* A client that has sent its request ends, with the file or with FAILURE, but
\* for two cases, in which its msgrcv() never returns.  Its request may be lost
\* before a child is forked: a server that starts removes the queue of the one
\* before with all that waits in it (lines 66-68), a failing fork() removes the
\* server's own, and a server that is killed leaves a queue without a reader.
\* Or the child goes without a word: it is killed, or msgsnd() refuses its END.
KeyClientServedOrOrphaned ==
  \A c \in Clients :
    cpc[c] = "first" ~> \/ cpc[c] \in {"done", "failed"}
                        \/ RequestLost(c) \/ AnswerLost(c)
=============================================================================
