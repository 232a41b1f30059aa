----------------------------- MODULE TalkService -----------------------------
(***************************************************************************)
(* practice/46.6: a talk server on one System V message queue.  A client   *)
(* is two processes: main registers and sends TALK messages, the child it  *)
(* forks waits for TALK messages - on the server's queue, which the server *)
(* reads too.  The server forwards to the clients' own queues, which       *)
(* nobody reads.  Both processes of a client run the atexit handler.       *)
(***************************************************************************)
EXTENDS Integers, Sequences, FiniteSets

CONSTANTS
  Clients,      \* the clients; c also stands for its queue's identifier
  name,         \* name[c]: what c calls itself
  Empty,        \* the empty name, of a free slot and of a message at end of input
  None,         \* clientId 0, a free slot
  ClientNumMax, \* CLIENT_NUM_MAX
  QueueTalks,   \* how many TALK messages fill a queue (the others are small)
  MaxTalks,     \* bound: TALK messages a client sends
  Faults        \* the misfortunes of this run

ASSUME TalkAssumption ==
  /\ IsFiniteSet(Clients) /\ None \notin Clients
  /\ DOMAIN name = Clients
  /\ \A c \in Clients : name[c] # Empty
  /\ ClientNumMax \in Nat \ {0} /\ QueueTalks \in Nat \ {0} /\ MaxTalks \in Nat
  /\ Faults \subseteq {"interrupt", "kill", "fork"}

Slots == 1..ClientNumMax
Procs == Clients \X {"main", "recv"}
Targets == {name[c] : c \in Clients} \cup {Empty}

VARIABLES
  spc,          \* the server: "recv" "send" "exited"
  dest,         \* where msgsnd() of the server sends
  srvQ,         \* the server's queue; removed when the server has exited
  slots,        \* pCi[].clientId
  clientCount,
  pc,           \* pc[p]: "off" "register" "talk" "wait" "delete" "remove" "exited" "killed"
  cliAlive,     \* the clients whose own queue exists
  cliQ,         \* cliQ[c]: how many TALK messages lie in c's own queue
  talks         \* talks[c]: how many TALK messages c has sent

serverVars == <<spc, dest, slots, clientCount>>
vars == <<serverVars, srvQ, pc, cliAlive, cliQ, talks>>

Register(c) == [mtype |-> "REGISTER", who |-> c]
Delete(c) == [mtype |-> "DELETE", who |-> c]
Talk(target) == [mtype |-> "TALK", who |-> target]

Main(c) == <<c, "main">>
Recv(c) == <<c, "recv">>

IsTalk(m) == m.mtype = "TALK"
ServerAlive == spc # "exited"
HasRoom(q) == Len(SelectSeq(q, IsTalk)) < QueueTalks

\* The name stored in slot i; DELETE clears it, a slot never used has none.
SlotName(i) == IF slots[i] = None THEN Empty ELSE name[slots[i]]

\* The index at which "for (i = 0; ...) if (...) break" stops.
First(S) == CHOOSE i \in S : \A j \in S : i <= j

-----------------------------------------------------------------------------
Init ==
  /\ spc = "recv"
  /\ dest = None
  /\ srvQ = <<>>
  /\ slots = [i \in Slots |-> None]
  /\ clientCount = 0
  /\ pc = [p \in Procs |-> "off"]
  /\ cliAlive = {}
  /\ cliQ = [c \in Clients |-> 0]
  /\ talks = [c \in Clients |-> 0]

-----------------------------------------------------------------------------
(* The server.                                                             *)

\* exit(): onExit removes the queue with everything in it.
ServerExits ==
  /\ spc' = "exited"
  /\ srvQ' = <<>>
  /\ UNCHANGED dest

\* Fault: the search does not stop at the first free slot.
ServerRegistersEverywhere ==
  /\ spc = "recv" /\ srvQ # <<>> /\ Head(srvQ).mtype = "REGISTER"
  /\ clientCount' = clientCount + 1
  /\ slots' = [i \in Slots |-> IF slots[i] = None THEN Head(srvQ).who ELSE slots[i]]
  /\ srvQ' = Tail(srvQ)
  /\ UNCHANGED <<spc, dest, pc, cliAlive, cliQ, talks>>

\* REGISTER: the count goes up, then the first free slot is filled; a full
\* table ends the server.
ServerRegisters ==
  /\ spc = "recv" /\ srvQ # <<>> /\ Head(srvQ).mtype = "REGISTER"
  /\ clientCount' = clientCount + 1
  /\ LET free == {i \in Slots : slots[i] = None} IN
       IF free = {}
         THEN ServerExits /\ UNCHANGED slots
         ELSE /\ slots' = [slots EXCEPT ![First(free)] = Head(srvQ).who]
              /\ srvQ' = Tail(srvQ)
              /\ UNCHANGED <<spc, dest>>
  /\ UNCHANGED <<pc, cliAlive, cliQ, talks>>

\* Fault: the first slot in use is freed.
ServerDeletesFirst ==
  /\ spc = "recv" /\ srvQ # <<>> /\ Head(srvQ).mtype = "DELETE"
  /\ clientCount' = clientCount - 1
  /\ LET held == {i \in Slots : slots[i] # None} IN
       slots' = IF held = {} THEN slots ELSE [slots EXCEPT ![First(held)] = None]
  /\ srvQ' = Tail(srvQ)
  /\ UNCHANGED <<spc, dest, pc, cliAlive, cliQ, talks>>

\* Fault: the name is cleared but not the identifier.
ServerDeletesNothing ==
  /\ spc = "recv" /\ srvQ # <<>> /\ Head(srvQ).mtype = "DELETE"
  /\ clientCount' = clientCount - 1
  /\ srvQ' = Tail(srvQ)
  /\ UNCHANGED <<spc, dest, slots, pc, cliAlive, cliQ, talks>>

\* DELETE: the count goes down, then the client's slot, if any, is freed.
ServerDeletes ==
  /\ spc = "recv" /\ srvQ # <<>> /\ Head(srvQ).mtype = "DELETE"
  /\ clientCount' = clientCount - 1
  /\ LET held == {i \in Slots : slots[i] = Head(srvQ).who} IN
       slots' = IF held = {} THEN slots ELSE [slots EXCEPT ![First(held)] = None]
  /\ srvQ' = Tail(srvQ)
  /\ UNCHANGED <<spc, dest, pc, cliAlive, cliQ, talks>>

\* TALK: the first slot with the target's name; the empty name finds a free
\* slot, whose identifier 0 msgsnd() refuses.
ServerLooksUp ==
  /\ spc = "recv" /\ srvQ # <<>> /\ IsTalk(Head(srvQ))
  /\ LET found == {i \in Slots : SlotName(i) = Head(srvQ).who} IN
       IF found = {} \/ Head(srvQ).who = Empty
         THEN UNCHANGED <<spc, dest>>
         ELSE spc' = "send" /\ dest' = slots[First(found)]
  /\ srvQ' = Tail(srvQ)
  /\ UNCHANGED <<slots, clientCount, pc, cliAlive, cliQ, talks>>

\* msgsnd() to the client: it waits for room and fails if the queue is removed.
ServerForwards ==
  /\ spc = "send"
  /\ \/ /\ dest \in cliAlive /\ cliQ[dest] < QueueTalks
        /\ cliQ' = [cliQ EXCEPT ![dest] = @ + 1]
     \/ /\ dest \notin cliAlive
        /\ UNCHANGED cliQ
  /\ spc' = "recv" /\ dest' = None
  /\ UNCHANGED <<srvQ, slots, clientCount, pc, cliAlive, talks>>

\* SIGINT or SIGTERM.
ServerInterrupted ==
  /\ "interrupt" \in Faults
  /\ ServerAlive
  /\ ServerExits
  /\ UNCHANGED <<slots, clientCount, pc, cliAlive, cliQ, talks>>

-----------------------------------------------------------------------------
(* The clients.                                                            *)

\* exit() is called: the atexit handler is next.
Exiting(p) == pc' = [pc EXCEPT ![p] = "delete"]

\* The id file is there, the client's own queue is created.
ClientStarts(c) ==
  /\ pc[Main(c)] = "off" /\ ServerAlive
  /\ pc' = [pc EXCEPT ![Main(c)] = "register"]
  /\ cliAlive' = cliAlive \cup {c}
  /\ UNCHANGED <<serverVars, srvQ, cliQ, talks>>

\* REGISTER is sent and the receiver forked.
ClientRegisters(c) ==
  /\ pc[Main(c)] = "register"
  /\ \/ /\ ServerAlive
        /\ srvQ' = Append(srvQ, Register(c))
        /\ \/ pc' = [pc EXCEPT ![Main(c)] = "talk", ![Recv(c)] = "wait"]
           \/ "fork" \in Faults /\ Exiting(Main(c))
     \/ ~ServerAlive /\ Exiting(Main(c)) /\ UNCHANGED srvQ
  /\ UNCHANGED <<serverVars, cliAlive, cliQ, talks>>

\* One line of input is sent; at end of input the target is empty.
ClientTalks(c) ==
  /\ pc[Main(c)] = "talk"
  /\ \/ /\ ServerAlive /\ HasRoom(srvQ) /\ talks[c] < MaxTalks
        /\ \E target \in Targets : srvQ' = Append(srvQ, Talk(target))
        /\ talks' = [talks EXCEPT ![c] = @ + 1]
        /\ UNCHANGED pc
     \/ ~ServerAlive /\ Exiting(Main(c)) /\ UNCHANGED <<srvQ, talks>>
  /\ UNCHANGED <<serverVars, cliAlive, cliQ>>

\* The receiver takes the first TALK message of the server's queue.
ReceiverReads(c) ==
  /\ pc[Recv(c)] = "wait"
  /\ \/ LET talking == {k \in 1..Len(srvQ) : IsTalk(srvQ[k])} IN
          /\ talking # {}
          /\ LET k == First(talking) IN
               srvQ' = SubSeq(srvQ, 1, k - 1) \o SubSeq(srvQ, k + 1, Len(srvQ))
          /\ UNCHANGED pc
     \/ ~ServerAlive /\ Exiting(Recv(c)) /\ UNCHANGED srvQ
  /\ UNCHANGED <<serverVars, cliAlive, cliQ, talks>>

\* onExit, first half: DELETE; a removed server queue is not noticed.
ExitDeletes(p) ==
  /\ pc[p] = "delete"
  /\ pc' = [pc EXCEPT ![p] = "remove"]
  /\ srvQ' = IF ServerAlive THEN Append(srvQ, Delete(p[1])) ELSE srvQ
  /\ UNCHANGED <<serverVars, cliAlive, cliQ, talks>>

\* Fault: the client's queue is left behind.
ExitLeavesQueue(p) ==
  /\ pc[p] = "remove"
  /\ pc' = [pc EXCEPT ![p] = "exited"]
  /\ UNCHANGED <<serverVars, srvQ, cliAlive, cliQ, talks>>

\* onExit, second half: the client's queue is removed.
ExitRemoves(p) ==
  /\ pc[p] = "remove"
  /\ pc' = [pc EXCEPT ![p] = "exited"]
  /\ cliAlive' = cliAlive \ {p[1]}
  /\ cliQ' = [cliQ EXCEPT ![p[1]] = 0]
  /\ UNCHANGED <<serverVars, srvQ, talks>>

\* SIGINT or SIGTERM for one of the two processes, or SIGKILL.
ClientSignalled(p) ==
  /\ pc[p] \in {"register", "talk", "wait"}
  /\ \/ "interrupt" \in Faults /\ Exiting(p)
     \/ "kill" \in Faults /\ pc' = [pc EXCEPT ![p] = "killed"]
  /\ UNCHANGED <<serverVars, srvQ, cliAlive, cliQ, talks>>

-----------------------------------------------------------------------------
ServerStep == ServerRegisters \/ ServerDeletes \/ ServerLooksUp \/ ServerForwards

Next ==
  \/ ServerStep \/ ServerInterrupted
  \/ \E c \in Clients :
       ClientStarts(c) \/ ClientRegisters(c) \/ ClientTalks(c) \/ ReceiverReads(c)
  \/ \E p \in Procs : ExitDeletes(p) \/ ExitRemoves(p) \/ ClientSignalled(p)

\* The server is scheduled, and so is a process that has called exit().
Fairness ==
  /\ WF_vars(ServerStep)
  /\ \A p \in Procs : WF_vars(ExitDeletes(p)) /\ WF_vars(ExitRemoves(p))

Spec == Init /\ [][Next]_vars
FairSpec == Spec /\ Fairness

-----------------------------------------------------------------------------
Queued(m) == \E k \in 1..Len(srvQ) : srvQ[k] = m
IsMember(c) == \E i \in Slots : slots[i] = c

\* A client is in the table once, however registrations, deletions and the
\* reuse of freed slots interleave (server lines 116-161).
OneSlotPerClient == \A i, j \in Slots : slots[i] = slots[j] => (i = j \/ slots[i] = None)

\* A client one of whose processes has left is out of the table once the server
\* has read its messages: its DELETE can neither overtake its REGISTER nor be
\* undone by it (client lines 35-44 and 108-114 against server lines 116-161).
LeaversAreForgotten ==
  \A c \in Clients :
    (\E p \in {Main(c), Recv(c)} : pc[p] \in {"remove", "exited"})
      /\ ServerAlive /\ ~Queued(Register(c)) /\ ~Queued(Delete(c))
      => ~IsMember(c)

\* A client whose two processes are both at work is in the table as soon as its
\* REGISTER has been read: no other client's DELETE can free its slot.
MembersStayKnown ==
  \A c \in Clients :
    (pc[Main(c)] = "talk" /\ pc[Recv(c)] = "wait" /\ ServerAlive
       /\ ~Queued(Register(c)))
      => IsMember(c)

\* The server waits for room in a queue nobody reads, but not for ever if the
\* client it waits for leaves: onExit removes the queue and msgsnd() fails.
BlockedServerIsReleased ==
  \A c \in Clients :
    (spc = "send" /\ dest = c /\ pc[Main(c)] = "delete") ~> (spc # "send" \/ dest # c)

\* "Current has %d rember" (server lines 134 and 151): clientCount is the
\* number of members.  It is not: a DELETE is counted (144) before the table is
\* searched, and a client sends one without having registered if it is interrupted
\* between atexit() and its REGISTER (client 103-112).
CountIsMembers ==
  spc = "recv" => clientCount = Cardinality({i \in Slots : slots[i] # None})
=============================================================================
