---------------------------- MODULE SvmsgFileProof ----------------------------
(***************************************************************************)
(* Proofs about the file server of practice/46.4, for any number of        *)
(* clients and servers, whatever is interrupted, killed, or fails:         *)
(*   - the SIGCHLD handler, "while (waitpid(-1, NULL, WNOHANG) == -1)      *)
(*     continue", never spins;                                             *)
(*   - the published identifier is that of a removed queue only while its  *)
(*     server is between msgctl() and onExit, or was killed there;         *)
(*   - no block is lost or counted twice, and a printed total is the file. *)
(* At the end the last of these for routines/46.7, whose programs transfer *)
(* in the same way, and what its SIGCHLD handler relies on.                *)
(***************************************************************************)
EXTENDS SvmsgFile, KeyServer, FiniteSetTheorems, SequenceTheorems, TLAPS

\* The types the argument needs.
Types ==
  /\ child \in [Clients -> {"none", "open", "read", "send", "end", "_exit", "exit",
                            "zombie", "reaped"}]
  /\ owner \in [Clients -> Servers \cup {None}]
  /\ srv \in [Servers -> {"off", "loop", "handler", "spin", "break", "exit", "exited",
                          "killed", "killedInExit"}]
  /\ srvQ \in [Servers -> Seq(Clients)]
  /\ cpc \in [Clients -> {"open", "send", "first", "more", "done", "failed", "killed"}]
  /\ peer \in [Clients -> Servers \cup {None}]
  /\ srvAlive \subseteq Servers
  /\ idFile \in Servers \cup {None}

\* A child was forked by some server.
OwnerInv == \A c \in Clients : child[c] # "none" => owner[c] \in Servers

\* A client has at most one request queued, at one server, and no child yet.
QueueInv ==
  /\ \A s \in Servers : \A k \in 1..Len(srvQ[s]) :
       child[srvQ[s][k]] = "none" /\ cpc[srvQ[s][k]] \notin {"open", "send"}
  /\ \A s, t \in Servers : \A k \in 1..Len(srvQ[s]), l \in 1..Len(srvQ[t]) :
       srvQ[s][k] = srvQ[t][l] => s = t /\ k = l
  /\ \A c \in Clients : cpc[c] \in {"open", "send"} => child[c] = "none"

\* A pending SIGCHLD and a running handler are each owed a zombie of their own.
ZombieInv ==
  \A s \in Servers :
    /\ s \in pending \/ srv[s] = "handler" => \E c \in Zombies(s) : TRUE
    /\ s \in pending /\ srv[s] = "handler" => \E c, d \in Zombies(s) : c # d

NeverSpinsInv == Types /\ OwnerInv /\ QueueInv /\ ZombieInv /\ HandlerNeverSpins

-----------------------------------------------------------------------------
\* The initial state satisfies the invariant.
LEMMA InitNeverSpins == Init => NeverSpinsInv
BY DEF Init, TransferInit, NeverSpinsInv, Types, OwnerInv, QueueInv, ZombieInv,
   HandlerNeverSpins, Zombies

\* A step that touches neither the servers nor the requests, and moves a child
\* only between live states, preserves it.
LEMMA LiveChildStep ==
  ASSUME NeverSpinsInv, NEW c \in Clients, UNCHANGED serverVars, cpc' = cpc,
         child[c] \in {"open", "read", "send", "end"},
         NEW to \in {"read", "send", "end", "_exit", "exit"},
         child' = [child EXCEPT ![c] = to]
  PROVE  NeverSpinsInv'
<1> USE DEF NeverSpinsInv, serverVars
<1>1. Types'
  BY DEF Types
<1>2. OwnerInv'
  BY DEF Types, OwnerInv
<1>3. QueueInv'
  BY DEF Types, QueueInv
<1>4. \A s \in Servers : Zombies(s)' = Zombies(s)
  BY DEF Types, Zombies
<1>5. ZombieInv' /\ HandlerNeverSpins'
  BY <1>4 DEF ZombieInv, HandlerNeverSpins
<1>6. QED
  BY <1>1, <1>2, <1>3, <1>5

\* A step of a client after its request was sent preserves it.
LEMMA ClientOnlyStep ==
  ASSUME NeverSpinsInv, NEW c \in Clients, UNCHANGED serverVars, child' = child,
         NEW to \in {"first", "more", "done", "failed", "killed"},
         cpc' = [cpc EXCEPT ![c] = to]
  PROVE  NeverSpinsInv'
<1> USE DEF NeverSpinsInv, serverVars
<1>1. Types' /\ OwnerInv'
  BY DEF Types, OwnerInv
<1>2. QueueInv'
  BY DEF Types, QueueInv
<1>3. ZombieInv' /\ HandlerNeverSpins'
  BY DEF ZombieInv, HandlerNeverSpins, Zombies
<1>4. QED
  BY <1>1, <1>2, <1>3

\* The end of a child: its server is owed nothing it does not get.
LEMMA DeadStep ==
  ASSUME NeverSpinsInv, NEW c \in Clients, Dead(c), UNCHANGED <<srv, owner, cpc, peer>>,
         child[c] \in {"open", "read", "send", "end", "_exit", "exit"},
         srvQ' = srvQ \/ srvQ' = [srvQ EXCEPT ![owner[c]] = <<>>],
         srvAlive' \subseteq srvAlive, idFile' \in Servers \cup {None}
  PROVE  NeverSpinsInv'
<1> USE DEF NeverSpinsInv
<1>0. owner[c] \in Servers
  BY DEF OwnerInv
<1>d. \/ child' = [child EXCEPT ![c] = "reaped"] /\ UNCHANGED pending
      \/ child' = [child EXCEPT ![c] = "zombie"] /\ pending' = pending \cup {owner[c]}
  BY DEF Dead
<1>1. Types'
  <2>1. child' \in [Clients -> {"none", "open", "read", "send", "end", "_exit", "exit",
                               "zombie", "reaped"}]
    BY <1>d DEF Types
  <2>2. srvQ' \in [Servers -> Seq(Clients)]
    <3>1. <<>> \in Seq(Clients)
      OBVIOUS
    <3>2. QED
      BY <1>0, <3>1 DEF Types
  <2>3. QED
    BY <2>1, <2>2 DEF Types
<1>2. OwnerInv' /\ HandlerNeverSpins'
  BY DEF Types, OwnerInv, HandlerNeverSpins, Dead
<1>3. QueueInv'
  <2>1. \A s \in Servers : srvQ'[s] = srvQ[s] \/ srvQ'[s] = <<>>
    BY <1>0 DEF Types
  <2>2. \A d \in Clients : child[d] = "none" => child'[d] = "none"
    BY DEF Types, Dead
  <2>3. \A s \in Servers : \A k \in 1..Len(srvQ'[s]) :
          k \in 1..Len(srvQ[s]) /\ srvQ'[s][k] = srvQ[s][k] /\ srvQ[s][k] \in Clients
    BY <2>1 DEF Types
  <2>4. QED
    BY <2>2, <2>3 DEF QueueInv
<1>4. ZombieInv'
  <2>1. CASE child' = [child EXCEPT ![c] = "reaped"] /\ UNCHANGED pending
    <3>1. \A s \in Servers : Zombies(s)' = Zombies(s)
      BY <2>1 DEF Types, Zombies
    <3>2. QED
      BY <2>1, <3>1 DEF ZombieInv
  <2>2. CASE child' = [child EXCEPT ![c] = "zombie"] /\ pending' = pending \cup {owner[c]}
    <3>1. /\ Zombies(owner[c])' = Zombies(owner[c]) \cup {c}
          /\ c \notin Zombies(owner[c])
          /\ \A s \in Servers \ {owner[c]} : Zombies(s)' = Zombies(s)
      BY <2>2 DEF Types, Zombies
    <3>2. QED
      BY <2>2, <3>1 DEF ZombieInv
  <2>3. QED
    BY <2>1, <2>2 DEF Dead
<1>5. QED
  BY <1>1, <1>2, <1>3, <1>4

\* A step that only moves a server between states outside its handler, perhaps
\* emptying its queue, preserves it.
LEMMA ServerOnlyStep ==
  ASSUME NeverSpinsInv, NEW s \in Servers, UNCHANGED <<transferVars, peer, owner, pending>>,
         NEW to \in {"loop", "break", "exit", "exited", "killed", "killedInExit"},
         srv' = [srv EXCEPT ![s] = to],
         srvQ' = srvQ \/ srvQ' = [srvQ EXCEPT ![s] = <<>>],
         srvAlive' \subseteq Servers, idFile' \in Servers \cup {None}
  PROVE  NeverSpinsInv'
<1> USE DEF NeverSpinsInv, transferVars
<1>1. Types'
  <2>1. srvQ' \in [Servers -> Seq(Clients)]
    <3>1. <<>> \in Seq(Clients)
      OBVIOUS
    <3>2. QED
      BY <3>1 DEF Types
  <2>2. QED
    BY <2>1 DEF Types
<1>2. QueueInv'
  <2>1. \A t \in Servers : srvQ'[t] = srvQ[t] \/ srvQ'[t] = <<>>
    BY DEF Types
  <2>2. \A t \in Servers : \A k \in 1..Len(srvQ'[t]) :
          k \in 1..Len(srvQ[t]) /\ srvQ'[t][k] = srvQ[t][k]
    BY <2>1 DEF Types
  <2>3. QED
    BY <2>2 DEF QueueInv
<1>3. OwnerInv' /\ HandlerNeverSpins' /\ ZombieInv'
  BY DEF Types, OwnerInv, HandlerNeverSpins, ZombieInv, Zombies
<1>4. QED
  BY <1>1, <1>2, <1>3

-----------------------------------------------------------------------------
\* A request is taken and a child forked, or the loop is left.
LEMMA ReceiveStep ==
  ASSUME NeverSpinsInv, NEW s \in Servers, ServerReceive(s)
  PROVE  NeverSpinsInv'
<1> USE DEF NeverSpinsInv, ServerReceive
<1> DEFINE c == Head(srvQ[s])
<1>1. /\ c \in Clients /\ child[c] = "none" /\ c = srvQ[s][1] /\ 1 \in 1..Len(srvQ[s])
      /\ cpc[c] \notin {"open", "send"}
  BY DEF Types, QueueInv
<1>2. /\ srvQ' \in [Servers -> Seq(Clients)]
      /\ \A k \in 1..Len(srvQ'[s]) : srvQ'[s][k] = srvQ[s][k + 1] /\ k + 1 \in 1..Len(srvQ[s])
      /\ \A t \in Servers \ {s} : srvQ'[t] = srvQ[t]
  <2>1. srvQ[s] \in Seq(Clients) /\ srvQ[s] # <<>> /\ srvQ' = [srvQ EXCEPT ![s] = Tail(srvQ[s])]
    BY DEF Types
  <2>2. /\ Tail(srvQ[s]) \in Seq(Clients)
        /\ Len(Tail(srvQ[s])) = Len(srvQ[s]) - 1
        /\ \A k \in 1..Len(Tail(srvQ[s])) : Tail(srvQ[s])[k] = srvQ[s][k + 1]
        /\ Len(srvQ[s]) \in Nat
    BY <2>1
  <2>3. srvQ'[s] = Tail(srvQ[s])
    BY <2>1 DEF Types
  <2>4. QED
    BY <2>1, <2>2, <2>3 DEF Types
<1>3. \A d \in Clients \ {c} : child'[d] = child[d]
  BY <1>1 DEF Types
<1>4. Types'
  <2>1. child' \in [Clients -> {"none", "open", "read", "send", "end", "_exit", "exit",
                               "zombie", "reaped"}]
        /\ owner' \in [Clients -> Servers \cup {None}]
    <3>1. /\ child \in [Clients -> {"none", "open", "read", "send", "end", "_exit", "exit",
                                   "zombie", "reaped"}]
          /\ owner \in [Clients -> Servers \cup {None}]
      BY DEF Types
    <3>2. \/ child' = [child EXCEPT ![c] = "open"] /\ owner' = [owner EXCEPT ![c] = s]
          \/ child' = child /\ owner' = owner
      OBVIOUS
    <3> HIDE DEF c, ServerReceive
    <3>3. QED
      BY ONLY <1>1, <3>1, <3>2
  <2>2. srv' \in [Servers -> {"off", "loop", "handler", "spin", "break", "exit", "exited",
                              "killed", "killedInExit"}]
    BY DEF Types
  <2>3. UNCHANGED <<cpc, peer, srvAlive, idFile>>
    OBVIOUS
  <2>4. QED
    BY <1>2, <2>1, <2>2, <2>3 DEF Types
<1>5. OwnerInv' /\ HandlerNeverSpins'
  BY <1>1 DEF Types, OwnerInv, HandlerNeverSpins
<1>6. \A t \in Servers : \A k \in 1..Len(srvQ'[t]) : srvQ'[t][k] # c
  BY <1>1, <1>2 DEF QueueInv
<1>7. QueueInv'
  <2>1. \A t \in Servers : \A k \in 1..Len(srvQ'[t]) :
          srvQ'[t][k] \in Clients /\ child[srvQ'[t][k]] = "none"
            /\ cpc[srvQ'[t][k]] \notin {"open", "send"}
    BY <1>2 DEF QueueInv, Types
  <2>2. ASSUME NEW t \in Servers, NEW k \in 1..Len(srvQ'[t])
        PROVE  child'[srvQ'[t][k]] = "none" /\ cpc'[srvQ'[t][k]] \notin {"open", "send"}
    <3>1. srvQ'[t][k] \in Clients \ {c} /\ child[srvQ'[t][k]] = "none"
            /\ cpc[srvQ'[t][k]] \notin {"open", "send"} /\ cpc' = cpc
      BY <1>6, <2>1
    <3>2. QED
      BY ONLY <1>3, <3>1
  <2>3. \A t, u \in Servers : \A k \in 1..Len(srvQ'[t]), l \in 1..Len(srvQ'[u]) :
          srvQ'[t][k] = srvQ'[u][l] => t = u /\ k = l
    BY <1>2 DEF QueueInv, Types
  <2>4. \A d \in Clients : cpc'[d] \in {"open", "send"} => child'[d] = "none"
    BY <1>1, <1>3 DEF QueueInv
  <2>5. QED
    BY <2>2, <2>3, <2>4 DEF QueueInv
<1>8. \A t \in Servers : Zombies(t)' = Zombies(t)
  BY <1>1 DEF Types, Zombies
<1>9. ZombieInv'
  BY <1>8 DEF ZombieInv, Types
<1>10. QED
  BY <1>4, <1>5, <1>7, <1>9

\* Delivery takes the pending SIGCHLD, and its zombie, over to the handler.
LEMMA DeliverStep ==
  ASSUME NeverSpinsInv, NEW s \in Servers, SigchldDelivered(s)
  PROVE  NeverSpinsInv'
<1> USE DEF NeverSpinsInv, SigchldDelivered, transferVars
<1>1. Types' /\ OwnerInv' /\ QueueInv' /\ HandlerNeverSpins'
  BY DEF Types, OwnerInv, QueueInv, HandlerNeverSpins
<1>2. \A t \in Servers : Zombies(t)' = Zombies(t)
  BY DEF Zombies
<1>3. ZombieInv'
  BY <1>2 DEF ZombieInv, Types
<1>4. QED
  BY <1>1, <1>3

\* The handler finds the zombie it is owed, so it reaps one and returns.
LEMMA ReapStep ==
  ASSUME NeverSpinsInv, NEW s \in Servers, Reap(s)
  PROVE  NeverSpinsInv'
<1> USE DEF NeverSpinsInv
<1>1. srv[s] = "handler" /\ Zombies(s) # {}
  BY DEF Reap, ZombieInv
<1>2. PICK c \in Zombies(s) : child' = [child EXCEPT ![c] = "reaped"]
  BY <1>1 DEF Reap
<1>3. /\ srv' = [srv EXCEPT ![s] = "loop"]
      /\ UNCHANGED <<cpc, srvQ, srvAlive, peer, owner, pending, idFile>>
  BY <1>1 DEF Reap
<1>4. c \in Clients /\ child[c] = "zombie" /\ owner[c] = s
  BY DEF Zombies
<1>5. Types' /\ OwnerInv' /\ HandlerNeverSpins'
  BY <1>2, <1>3, <1>4 DEF Types, OwnerInv, HandlerNeverSpins
<1>6. QueueInv'
  BY <1>2, <1>3, <1>4 DEF Types, QueueInv
<1>7. /\ Zombies(s)' = Zombies(s) \ {c}
      /\ \A t \in Servers \ {s} : Zombies(t)' = Zombies(t)
  BY <1>2, <1>3, <1>4 DEF Types, Zombies
<1>8. ZombieInv'
  BY <1>1, <1>3, <1>7 DEF ZombieInv, Types
<1>9. QED
  BY <1>5, <1>6, <1>8

\* A request is appended to the queue of the server the client has found.
LEMMA SendStep ==
  ASSUME NeverSpinsInv, NEW c \in Clients, ClientSend(c)
  PROVE  NeverSpinsInv'
<1> USE DEF NeverSpinsInv, ClientSend
<1>1. CASE peer[c] \in srvAlive
  <2> DEFINE s == peer[c]
  <2>1. /\ s \in Servers /\ srvQ' = [srvQ EXCEPT ![s] = Append(@, c)]
        /\ cpc' = [cpc EXCEPT ![c] = "first"] /\ cpc[c] = "send" /\ child[c] = "none"
        /\ UNCHANGED <<child, owner, srv, pending, peer, srvAlive>>
    BY <1>1 DEF Types, QueueInv
  <2>2. Types' /\ OwnerInv' /\ HandlerNeverSpins'
    BY <2>1 DEF Types, OwnerInv, HandlerNeverSpins
  <2>3. /\ Len(srvQ'[s]) = Len(srvQ[s]) + 1 /\ srvQ'[s][Len(srvQ[s]) + 1] = c
        /\ \A k \in 1..Len(srvQ[s]) : srvQ'[s][k] = srvQ[s][k]
        /\ Len(srvQ[s]) \in Nat
        /\ \A t \in Servers \ {s} : srvQ'[t] = srvQ[t]
    BY <2>1 DEF Types
  <2>4. \A t \in Servers : \A k \in 1..Len(srvQ[t]) : srvQ[t][k] # c
    BY <2>1 DEF QueueInv
  <2>5. QueueInv'
    <3>1. \A t \in Servers : \A k \in 1..Len(srvQ'[t]) :
            child'[srvQ'[t][k]] = "none" /\ cpc'[srvQ'[t][k]] \notin {"open", "send"}
      BY <2>1, <2>3, <2>4 DEF QueueInv, Types
    <3>2. \A t, u \in Servers : \A k \in 1..Len(srvQ'[t]), l \in 1..Len(srvQ'[u]) :
            srvQ'[t][k] = srvQ'[u][l] => t = u /\ k = l
      BY <2>1, <2>3, <2>4 DEF QueueInv, Types
    <3>3. \A d \in Clients : cpc'[d] \in {"open", "send"} => child'[d] = "none"
      BY <2>1 DEF QueueInv, Types
    <3>4. QED
      BY <3>1, <3>2, <3>3 DEF QueueInv
  <2>6. ZombieInv'
    BY <2>1 DEF ZombieInv, Zombies
  <2>7. QED
    BY <2>2, <2>5, <2>6
<1>2. CASE peer[c] \notin srvAlive
  BY <1>2, ClientOnlyStep DEF ClientExit, serverVars
<1>3. QED
  BY <1>1, <1>2

\* A client that reads the id file has no request queued.
LEMMA OpenStep ==
  ASSUME NeverSpinsInv, NEW c \in Clients, ClientOpen(c)
  PROVE  NeverSpinsInv'
<1> USE DEF NeverSpinsInv, ClientOpen
<1>1. Types' /\ OwnerInv' /\ HandlerNeverSpins'
  BY DEF Types, OwnerInv, HandlerNeverSpins
<1>2. \A t \in Servers : \A k \in 1..Len(srvQ[t]) : srvQ[t][k] # c
  BY DEF QueueInv
<1>3. QueueInv'
  BY <1>2 DEF QueueInv, Types
<1>4. ZombieInv'
  BY DEF ZombieInv, Zombies
<1>5. QED
  BY <1>1, <1>3, <1>4

-----------------------------------------------------------------------------
\* Every step preserves the invariant.
LEMMA NextNeverSpins == NeverSpinsInv /\ [Next]_vars => NeverSpinsInv'
<1> SUFFICES ASSUME NeverSpinsInv, [Next]_vars PROVE NeverSpinsInv'
  OBVIOUS
<1>0. Types
  BY DEF NeverSpinsInv
<1>1. ASSUME NEW s \in Servers, ServerStart(s) PROVE NeverSpinsInv'
  BY <1>0, <1>1, ServerOnlyStep DEF ServerStart, Types
<1>2. ASSUME NEW s \in Servers, ServerStep(s) PROVE NeverSpinsInv'
  <2>1. CASE ServerLosesQueue(s)
    BY <1>0, <2>1, ServerOnlyStep DEF ServerLosesQueue, Types
  <2>2. CASE ServerDeletesQueue(s)
    BY <1>0, <2>2, ServerOnlyStep DEF ServerDeletesQueue, Types
  <2>3. CASE ServerExit(s)
    BY <1>0, <2>3, ServerOnlyStep DEF ServerExit, OnExit, Types
  <2>4. QED
    BY <1>2, <2>1, <2>2, <2>3, ReceiveStep, DeliverStep, ReapStep DEF ServerStep
<1>3. ASSUME NEW s \in Servers, ServerInterrupted(s) PROVE NeverSpinsInv'
  BY <1>0, <1>3, ServerOnlyStep DEF ServerInterrupted, OnExit, Types
<1>4. ASSUME NEW s \in Servers, ServerKilled(s) PROVE NeverSpinsInv'
  <2>1. CASE srv' = [srv EXCEPT ![s] = "killedInExit"]
    BY <1>0, <1>4, <2>1, ServerOnlyStep DEF ServerKilled, Types
  <2>2. CASE srv' = [srv EXCEPT ![s] = "killed"]
    BY <1>0, <1>4, <2>2, ServerOnlyStep DEF ServerKilled, Types
  <2>3. QED
    BY <1>4, <2>1, <2>2 DEF ServerKilled
<1>5. ASSUME NEW c \in Clients, ChildStep(c), UNCHANGED serverVars PROVE NeverSpinsInv'
  <2>1. CASE ChildOpenFails(c)
    BY <1>5, <2>1, LiveChildStep DEF ChildOpenFails
  <2>2. CASE ChildOpens(c)
    BY <1>5, <2>2, LiveChildStep DEF ChildOpens
  <2>3. CASE ChildReads(c)
    BY <1>5, <2>3, LiveChildStep DEF ChildReads
  <2>4. CASE ChildSends(c)
    BY <1>5, <2>4, LiveChildStep DEF ChildSends
  <2>5. CASE ChildEnds(c)
    BY <1>5, <2>5, LiveChildStep DEF ChildEnds
  <2>6. QED
    BY <1>5, <2>1, <2>2, <2>3, <2>4, <2>5 DEF ChildStep
<1>6. ASSUME NEW c \in Clients, ChildExits(c) \/ ChildKilled(c) PROVE NeverSpinsInv'
  BY <1>0, <1>6, DeadStep DEF ChildExits, ChildKilled, Types
<1>7. ASSUME NEW c \in Clients, ChildFails(c) \/ ChildInterrupted(c) PROVE NeverSpinsInv'
  BY <1>0, <1>7, DeadStep DEF ChildFails, ChildInterrupted, OnExit, Types
<1>8. ASSUME NEW c \in Clients, ClientStep(c) \/ ClientKilled(c), UNCHANGED serverVars
      PROVE  NeverSpinsInv'
  <2>1. CASE ClientFirst(c)
    BY <1>8, <2>1, ClientOnlyStep DEF ClientFirst, ClientExit
  <2>2. CASE ClientMore(c)
    <3>1. CASE cpc' = cpc
      <4>1. cpc[c] = "more" /\ child' = child /\ UNCHANGED serverVars
        BY <1>8, <2>2 DEF ClientMore
      <4>2. cpc' = [cpc EXCEPT ![c] = "more"]
        BY <1>0, <3>1, <4>1 DEF Types
      <4>3. QED
        BY <4>1, <4>2, ClientOnlyStep
    <3>2. CASE cpc' = [cpc EXCEPT ![c] = "done"]
      BY <1>8, <2>2, <3>2, ClientOnlyStep DEF ClientMore
    <3>3. QED
      BY <2>2, <3>1, <3>2 DEF ClientMore, ClientExit
  <2>3. CASE ClientKilled(c)
    BY <1>8, <2>3, ClientOnlyStep DEF ClientKilled
  <2>4. QED
    BY <1>8, <2>1, <2>2, <2>3 DEF ClientStep
<1>9. CASE UNCHANGED vars
  BY <1>9 DEF vars, transferVars, serverVars, NeverSpinsInv, Types, OwnerInv, QueueInv,
     ZombieInv, HandlerNeverSpins, Zombies
<1>10. QED
  BY <1>1, <1>2, <1>3, <1>4, <1>5, <1>6, <1>7, <1>8, <1>9, OpenStep, SendStep
     DEF Next, ChildProc, ClientProc

\* Coalescing SIGCHLDs never leave the handler without a zombie to reap, so
\* waitpid() never fails with ECHILD and the server never spins there.
THEOREM ServerNeverSpins == Spec => []HandlerNeverSpins
<1>1. NeverSpinsInv => HandlerNeverSpins
  BY DEF NeverSpinsInv
<1>2. QED
  BY <1>1, InitNeverSpins, NextNeverSpins, PTL DEF Spec

-----------------------------------------------------------------------------
(* The identifier file.                                                    *)

\* No step leaves the identifier of a queue that is gone: msgctl() after the loop
\* and onExit remove a queue, and only a kill between the two leaves the file.
LEMMA NextIdFile ==
  ASSUME Types, IdFileNamesAQueue, [Next]_vars
  PROVE  IdFileNamesAQueue'
<1> USE DEF Types, IdFileNamesAQueue
<1>1. ASSUME NEW s \in Servers,
             ServerStart(s) \/ ServerStep(s) \/ ServerInterrupted(s) \/ ServerKilled(s)
      PROVE  IdFileNamesAQueue'
  <2>1. CASE ServerStart(s)
    BY <2>1, ServerAssumption DEF ServerStart
  <2>2. CASE ServerReceive(s) \/ ServerLosesQueue(s) \/ SigchldDelivered(s) \/ Reap(s)
    <3>1. srv[s] \notin {"exit", "killedInExit"} /\ UNCHANGED <<srvAlive, idFile>>
      BY <2>2 DEF ServerReceive, ServerLosesQueue, SigchldDelivered, Reap
    <3>2. \A t \in Servers \ {s} : srv'[t] = srv[t]
      BY <2>2 DEF ServerReceive, ServerLosesQueue, SigchldDelivered, Reap
    <3>3. QED
      BY <3>1, <3>2
  <2>3. CASE ServerDeletesQueue(s)
    BY <2>3 DEF ServerDeletesQueue
  <2>4. CASE ServerExit(s) \/ ServerInterrupted(s)
    <3>1. idFile' = None
      BY <2>4 DEF ServerExit, ServerInterrupted, OnExit
    <3>2. QED
      BY <3>1, ServerAssumption
  <2>5. CASE ServerKilled(s)
    BY <2>5 DEF ServerKilled
  <2>6. QED
    BY <1>1, <2>1, <2>2, <2>3, <2>4, <2>5 DEF ServerStep
<1>2. ASSUME NEW c \in Clients, ChildFails(c) \/ ChildInterrupted(c)
      PROVE  IdFileNamesAQueue'
  <2>1. idFile' = None
    BY <1>2 DEF ChildFails, ChildInterrupted, OnExit
  <2>2. QED
    BY <2>1, ServerAssumption
<1>3. CASE UNCHANGED <<srv, srvAlive, idFile>>
  BY <1>3
<1>4. QED
  BY <1>1, <1>2, <1>3
  DEF Next, ChildProc, ClientProc, ChildExits, ChildKilled, ClientOpen, ClientSend, vars,
      serverVars

\* The file SERVER_KEY_FILE names a queue that exists, except while its server is
\* between msgctl() and onExit (46.4 server, lines 167-169), and for good when the
\* server is killed there.  Nothing else leaves a stale file, for any number of
\* servers and clients and whatever is interrupted, killed, or fails.
THEOREM IdFileIsNeverStale == Spec => []IdFileNamesAQueue
<1>1. Init => IdFileNamesAQueue
  BY ServerAssumption DEF Init, IdFileNamesAQueue
<1>2. NeverSpinsInv => Types
  BY DEF NeverSpinsInv
<1>3. QED
  BY <1>1, <1>2, InitNeverSpins, NextNeverSpins, NextIdFile, PTL DEF Spec

-----------------------------------------------------------------------------
(* The transfer.                                                           *)

\* The blocks that wait in a queue: all of it but an END or FAILURE at its end.
Waiting(q) == IF Len(q) > 0 /\ q[Len(q)] # Data THEN Len(q) - 1 ELSE Len(q)

\* The block in the hands of the child.
InHand(c) == IF child[c] = "send" THEN 1 ELSE 0

\* Where the two parties of a transfer are.
PartyTypes ==
  /\ child \in [Clients -> {"none", "open", "read", "send", "end", "_exit", "exit",
                            "zombie", "reaped"}]
  /\ cpc \in [Clients -> {"open", "send", "first", "more", "done", "failed", "killed"}]

\* The types of the transfer.
TransferTypes ==
  /\ file \in [Clients -> Files]
  /\ cliQ \in [Clients -> Seq(Messages)]
  /\ total \in [Clients -> Nat]
  /\ left \in [Clients -> Nat]

\* Before the child has opened the file nothing has been sent or received.
Untouched(c) ==
  /\ child[c] \in {"none", "open"} => cliQ[c] = <<>> /\ total[c] = 0
  /\ cpc[c] \in {"open", "send", "first"} => total[c] = 0

\* Only the last message can be something else than a block, once the child is
\* through; FAILURE is the answer to a missing file and to no other.
Ordered(c) ==
  /\ \A k \in 1..Len(cliQ[c]) :
       /\ cliQ[c][k] # Data => k = Len(cliQ[c])
       /\ cliQ[c][k] # Data => child[c] \in {"_exit", "exit", "zombie", "reaped"}
       /\ cliQ[c][k] = Failure <=> file[c] = Missing
  /\ file[c] = Missing =>
       /\ cpc[c] \notin {"more", "done"}
       /\ child[c] \in {"none", "open", "exit", "zombie", "reaped"}

\* What has been added up, what waits, what is in hand and what is left make up
\* the file as long as the child works for a client that listens.
Conserved(c) ==
  c \in cliAlive /\ child[c] \in {"read", "send", "end", "_exit"} =>
    total[c] + Waiting(cliQ[c]) + InHand(c) + left[c] = file[c]

\* The end is announced when nothing is left, unless reading failed.
EndIsLast(c) ==
  c \in cliAlive /\ c \notin cut =>
    /\ child[c] = "end" => left[c] = 0
    /\ file[c] # Missing /\ Len(cliQ[c]) > 0 /\ cliQ[c][Len(cliQ[c])] # Data =>
         total[c] + Waiting(cliQ[c]) = file[c]

\* A client that waits for answers has its queue; one that is done, the file.
Listens(c) ==
  /\ cpc[c] \in {"send", "first", "more"} => c \in cliAlive
  /\ cpc[c] = "done" /\ c \notin cut /\ file[c] # 0 => total[c] = file[c]

Transfer(c) == Untouched(c) /\ Ordered(c) /\ Conserved(c) /\ EndIsLast(c) /\ Listens(c)

TransferInv == TransferTypes /\ \A c \in Clients : Transfer(c)

\* Nothing of d's transfer has changed.
Still(d) ==
  /\ file'[d] = file[d] /\ cpc'[d] = cpc[d] /\ cliQ'[d] = cliQ[d]
  /\ total'[d] = total[d] /\ child'[d] = child[d] /\ left'[d] = left[d]
  /\ d \in cliAlive' <=> d \in cliAlive
  /\ d \in cut' <=> d \in cut

\* The kinds of messages are told apart by mtype; a block has length 1.
LEMMA MessageKinds ==
  /\ Data \in Messages /\ Failure \in Messages /\ End(0) \in Messages /\ End(1) \in Messages
  /\ Data.len = 1 /\ Failure # Data /\ Data.mtype = "DATA"
  /\ End(0) \notin {Data, Failure} /\ End(1) \notin {Data, Failure}
  /\ \A m \in Messages : (m.mtype = "DATA" <=> m = Data) /\ (m.mtype = "FAILURE" <=> m = Failure)
  /\ \A m \in Messages : m.len \in Nat
BY DEF Messages, Data, Failure, End

\* A message sent to a queue of blocks.
LEMMA WaitingAppend ==
  ASSUME NEW q \in Seq(Messages), NEW m \in Messages, \A k \in 1..Len(q) : q[k] = Data
  PROVE  /\ Append(q, m) \in Seq(Messages) /\ Append(q, m) # <<>>
         /\ Len(Append(q, m)) = Len(q) + 1
         /\ Append(q, m)[Len(q) + 1] = m
         /\ \A k \in 1..Len(q) : Append(q, m)[k] = Data
         /\ Waiting(q) = Len(q)
         /\ Waiting(Append(q, m)) = IF m = Data THEN Len(q) + 1 ELSE Len(q)
<1>1. /\ Append(q, m) \in Seq(Messages) /\ Append(q, m) # <<>>
      /\ Len(Append(q, m)) = Len(q) + 1
      /\ Append(q, m)[Len(q) + 1] = m
      /\ \A k \in 1..Len(q) : Append(q, m)[k] = q[k]
      /\ Len(q) \in Nat
  OBVIOUS
<1>2. Waiting(q) = Len(q)
  <2>1. Len(q) > 0 => Len(q) \in 1..Len(q)
    BY <1>1
  <2>2. QED
    BY <2>1 DEF Waiting
<1>3. Waiting(Append(q, m)) = IF m = Data THEN Len(q) + 1 ELSE Len(q)
  BY <1>1 DEF Waiting
<1>4. QED
  BY <1>1, <1>2, <1>3

\* A block taken from a queue.
LEMMA WaitingTail ==
  ASSUME NEW q \in Seq(Messages), q # <<>>, Head(q) = Data,
         \A k \in 1..Len(q) : q[k] # Data => k = Len(q)
  PROVE  /\ Tail(q) \in Seq(Messages) /\ Len(Tail(q)) = Len(q) - 1
         /\ \A k \in 1..Len(Tail(q)) : Tail(q)[k] = q[k + 1]
         /\ Waiting(q) = Waiting(Tail(q)) + 1
         /\ Len(Tail(q)) > 0 => Tail(q)[Len(Tail(q))] = q[Len(q)]
<1>1. /\ Tail(q) \in Seq(Messages) /\ Len(Tail(q)) = Len(q) - 1
      /\ \A k \in 1..Len(Tail(q)) : Tail(q)[k] = q[k + 1]
  OBVIOUS
<1>l. Len(q) \in Nat /\ Len(q) # 0
  BY EmptySeq
<1> DEFINE t == Tail(q)
<1> HIDE DEF t
<1>n. Len(q) \in Nat /\ Len(q) > 0 /\ q[1] = Data
  BY <1>l
<1>t. Len(t) = Len(q) - 1 /\ \A k \in 1..Len(t) : t[k] = q[k + 1]
  BY <1>1 DEF t
<1>2. Len(t) > 0 => t[Len(t)] = q[Len(q)]
  <2>1. Len(t) > 0 => Len(t) \in 1..Len(t) /\ Len(t) + 1 = Len(q)
    BY <1>n, <1>t
  <2>2. QED
    BY <1>t, <2>1
<1>3. Waiting(q) = Waiting(t) + 1
  <2>1. Len(t) \in Nat /\ Len(q) = Len(t) + 1 /\ q[1] = Data
    BY <1>n, <1>t
  <2>2. CASE Len(t) = 0
    BY <2>1, <2>2 DEF Waiting
  <2>3. CASE Len(t) > 0
    BY <1>2, <2>1, <2>3 DEF Waiting
  <2>4. QED
    BY <2>1, <2>2, <2>3
<1>4. QED
  BY <1>1, <1>2, <1>3 DEF t

\* The blocks counted by type are those that wait.
LEMMA CountedBlocks ==
  ASSUME NEW q \in Seq(Messages), \A k \in 1..Len(q) : q[k] # Data => k = Len(q)
  PROVE  CountOf(q, "DATA") = Waiting(q)
<1>1. Len(q) \in Nat /\ \A k \in 1..Len(q) : q[k] \in Messages
  OBVIOUS
<1>2. Waiting(q) \in Nat
  BY <1>1 DEF Waiting
<1>3. {k \in 1..Len(q) : q[k].mtype = "DATA"} = {k \in 1..Len(q) : q[k] = Data}
  BY <1>1, MessageKinds
<1>4. {k \in 1..Len(q) : q[k] = Data} = 1..Waiting(q)
  <2>1. CASE Len(q) > 0 /\ q[Len(q)] # Data
    BY <1>1, <2>1 DEF Waiting
  <2>2. CASE ~(Len(q) > 0 /\ q[Len(q)] # Data)
    BY <1>1, <2>2 DEF Waiting
  <2>3. QED
    BY <2>1, <2>2
<1>5. Cardinality(1..Waiting(q)) = Waiting(q)
  BY <1>2, FS_Interval
<1>6. QED
  BY <1>3, <1>4, <1>5 DEF CountOf

\* Nothing has been sent to anyone at first.
LEMMA InitTransfer == TransferInit => TransferInv
<1> SUFFICES ASSUME TransferInit PROVE TransferInv
  OBVIOUS
<1> USE DEF TransferInit
<1>1. TransferTypes
  <2>1. <<>> \in Seq(Messages)
    OBVIOUS
  <2>2. QED
    BY <2>1 DEF TransferTypes
<1>2. ASSUME NEW c \in Clients PROVE Transfer(c)
  BY <1>2 DEF Transfer, Untouched, Ordered, Conserved, EndIsLast, Listens
<1>3. QED
  BY <1>1, <1>2 DEF TransferInv

\* A transfer nothing of which changes stays as it should be.
LEMMA StillKeeps ==
  ASSUME NEW d \in Clients, Transfer(d), Still(d)
  PROVE  Transfer(d)'
<1> USE DEF Transfer, Still
<1>1. Untouched(d)' /\ Listens(d)'
  BY DEF Untouched, Listens
<1>2. Ordered(d)'
  BY DEF Ordered
<1>3. Conserved(d)' /\ EndIsLast(d)'
  BY DEF Conserved, EndIsLast, InHand
<1>4. QED
  BY <1>1, <1>2, <1>3

-----------------------------------------------------------------------------
\* What an action has to show: the types, and the transfer it is about.
LEMMA OneMoves ==
  ASSUME TransferInv, NEW c \in Clients, TransferTypes', Transfer(c)',
         \A d \in Clients \ {c} : Still(d)
  PROVE  TransferInv'
BY StillKeeps DEF TransferInv

\* The size of a file that is there.
LEMMA FileSize ==
  ASSUME TransferTypes, NEW c \in Clients, file[c] # Missing
  PROVE  file[c] \in Nat
<1>1. file[c] \in Files
  BY DEF TransferTypes
<1>2. file[c] \in 0..MaxBlocks /\ MaxBlocks \in Nat
  BY <1>1, TransferAssumption
<1>3. QED
  BY <1>2

\* While the child works there are only blocks in the queue.
LEMMA OnlyBlocks ==
  ASSUME TransferInv, NEW c \in Clients,
         child[c] \in {"none", "open", "read", "send", "end"}
  PROVE  /\ cliQ[c] \in Seq(Messages)
         /\ \A k \in 1..Len(cliQ[c]) : cliQ[c][k] = Data
         /\ Waiting(cliQ[c]) = Len(cliQ[c]) /\ Len(cliQ[c]) \in Nat
<1>1. cliQ[c] \in Seq(Messages) /\ Transfer(c)
  BY DEF TransferInv, TransferTypes
<1>2. \A k \in 1..Len(cliQ[c]) : cliQ[c][k] = Data
  BY <1>1 DEF Transfer, Ordered
<1>3. Len(cliQ[c]) \in Nat /\ (Len(cliQ[c]) > 0 => Len(cliQ[c]) \in 1..Len(cliQ[c]))
  BY <1>1
<1>4. QED
  BY <1>1, <1>2, <1>3 DEF Waiting

\* open() succeeded: the whole file is left to be read.
LEMMA ChildOpensKeeps ==
  ASSUME TransferInv, PartyTypes, NEW c \in Clients, ChildOpens(c)
  PROVE  TransferInv'
<1> USE DEF ChildOpens
<1>1. Transfer(c) /\ TransferTypes /\ file[c] \in Nat
  BY FileSize DEF TransferInv
<1>2. TransferTypes'
  BY <1>1 DEF TransferTypes
<1>3. child'[c] = "read" /\ left'[c] = file[c] /\ cliQ[c] = <<>> /\ total[c] = 0
  BY <1>1 DEF PartyTypes, TransferTypes, Transfer, Untouched
<1>4. Untouched(c)' /\ Ordered(c)' /\ Listens(c)'
  BY <1>1, <1>3 DEF Transfer, Untouched, Ordered, Listens
<1>5. Conserved(c)' /\ EndIsLast(c)'
  BY <1>1, <1>3 DEF Conserved, EndIsLast, Waiting, InHand
<1>6. \A d \in Clients \ {c} : Still(d)
  BY DEF Still, PartyTypes, TransferInv, TransferTypes
<1>7. QED
  BY <1>2, <1>4, <1>5, <1>6, OneMoves DEF Transfer

\* read() takes a block from the file into the child's hands, finds its end,
\* or fails, which cuts the transfer.
LEMMA ChildReadsKeeps ==
  ASSUME TransferInv, PartyTypes, NEW c \in Clients, ChildReads(c)
  PROVE  TransferInv'
<1> USE DEF ChildReads
<1>1. Transfer(c) /\ TransferTypes /\ left[c] \in Nat /\ total[c] \in Nat
  BY DEF TransferInv, TransferTypes
<1>2. TransferTypes'
  <2>1. left' \in [Clients -> Nat]
    <3>1. left[c] > 0 => left[c] - 1 \in Nat
      BY <1>1
    <3>2. CASE left' = left
      BY <1>1, <3>2 DEF TransferTypes
    <3>3. CASE left[c] > 0 /\ left' = [left EXCEPT ![c] = @ - 1]
      BY <1>1, <3>1, <3>3 DEF TransferTypes
    <3>4. QED
      BY <3>2, <3>3
  <2>2. QED
    BY <1>1, <2>1 DEF TransferTypes
<1>3. /\ \/ child'[c] = "send" /\ left'[c] = left[c] - 1 /\ cut' = cut
         \/ child'[c] = "end" /\ left'[c] = left[c] /\ (left[c] = 0 \/ c \in cut')
      /\ cut \subseteq cut' /\ child[c] = "read"
  BY DEF PartyTypes, TransferInv, TransferTypes
<1>4. Untouched(c)' /\ Ordered(c)' /\ Listens(c)'
  <2>1. Untouched(c)' /\ Ordered(c)'
    BY <1>1, <1>3 DEF Transfer, Untouched, Ordered
  <2>2. Listens(c)'
    BY <1>1, <1>3 DEF Transfer, Listens
  <2>3. QED
    BY <2>1, <2>2
<1>5. Waiting(cliQ[c]) \in Nat /\ \A k \in 1..Len(cliQ[c]) : cliQ[c][k] = Data
  BY <1>3, OnlyBlocks
<1>6. Conserved(c)'
  BY <1>1, <1>3, <1>5 DEF Transfer, Conserved, InHand
<1>7. EndIsLast(c)'
  <2>1. Len(cliQ[c]) > 0 => cliQ[c][Len(cliQ[c])] = Data
    BY <1>1, <1>5 DEF TransferTypes
  <2>2. QED
    BY <1>3, <2>1 DEF EndIsLast
<1>8. \A d \in Clients \ {c} : Still(d)
  BY DEF Still, PartyTypes, TransferInv, TransferTypes
<1>9. QED
  BY <1>2, <1>4, <1>6, <1>7, <1>8, OneMoves DEF Transfer

\* msgsnd() puts the block in hand at the end of the queue; it fails when the
\* client's queue is gone.
LEMMA ChildSendsKeeps ==
  ASSUME TransferInv, PartyTypes, NEW c \in Clients, ChildSends(c)
  PROVE  TransferInv'
<1> USE DEF ChildSends
<1>1. Transfer(c) /\ TransferTypes /\ left[c] \in Nat /\ total[c] \in Nat /\ child[c] = "send"
  BY DEF TransferInv, TransferTypes
<1>2. /\ cliQ[c] \in Seq(Messages) /\ Waiting(cliQ[c]) = Len(cliQ[c]) /\ Len(cliQ[c]) \in Nat
      /\ \A k \in 1..Len(cliQ[c]) : cliQ[c][k] = Data
  BY <1>1, OnlyBlocks
<1>3. file[c] # Missing
  BY <1>1 DEF Transfer, Ordered
<1>4. \A d \in Clients \ {c} : Still(d)
  BY DEF Still, PartyTypes, TransferInv, TransferTypes
<1>5. CASE c \in cliAlive /\ HasRoom(cliQ[c], Data)
  <2>1. child'[c] = "read" /\ cliQ'[c] = Append(cliQ[c], Data) /\ cliQ' = [cliQ EXCEPT ![c] = Append(@, Data)]
    BY <1>1, <1>5 DEF PartyTypes, TransferTypes
  <2>2. /\ cliQ'[c] \in Seq(Messages) /\ Len(cliQ'[c]) = Len(cliQ[c]) + 1
        /\ \A k \in 1..Len(cliQ'[c]) : cliQ'[c][k] = Data
        /\ Waiting(cliQ'[c]) = Len(cliQ[c]) + 1
    BY <1>2, <2>1, WaitingAppend, MessageKinds
  <2>3. TransferTypes'
    BY <1>1, <2>1, <2>2 DEF TransferTypes
  <2>4. Untouched(c)' /\ Listens(c)'
    BY <1>1, <2>1 DEF Transfer, Untouched, Listens
  <2>5. Ordered(c)'
    BY <1>3, <2>2, MessageKinds DEF Ordered
  <2>6. Conserved(c)'
    BY <1>1, <1>2, <1>3, <1>5, <2>1, <2>2, FileSize DEF Transfer, Conserved, InHand
  <2>7. EndIsLast(c)'
    BY <1>2, <2>1, <2>2 DEF EndIsLast
  <2>8. QED
    BY <1>4, <2>3, <2>4, <2>5, <2>6, <2>7, OneMoves DEF Transfer
<1>6. CASE c \notin cliAlive
  <2>1. child'[c] = "end" /\ cliQ' = cliQ /\ c \notin cliAlive'
    BY <1>1, <1>6 DEF PartyTypes
  <2>2. TransferTypes'
    BY <1>1, <2>1 DEF TransferTypes
  <2>3. Untouched(c)' /\ Ordered(c)' /\ Listens(c)'
    BY <1>1, <1>2, <1>3, <2>1, MessageKinds DEF Transfer, Untouched, Ordered, Listens
  <2>4. Conserved(c)' /\ EndIsLast(c)'
    BY <2>1 DEF Conserved, EndIsLast
  <2>5. QED
    BY <1>4, <2>2, <2>3, <2>4, OneMoves DEF Transfer
<1>7. QED
  BY <1>5, <1>6

\* END is the last message; its stale bytes are not a block of the file.
LEMMA ChildEndsKeeps ==
  ASSUME TransferInv, PartyTypes, NEW c \in Clients, ChildEnds(c)
  PROVE  TransferInv'
<1> USE DEF ChildEnds
<1>1. Transfer(c) /\ TransferTypes /\ left[c] \in Nat /\ total[c] \in Nat /\ child[c] = "end"
  BY DEF TransferInv, TransferTypes
<1>2. /\ cliQ[c] \in Seq(Messages) /\ Waiting(cliQ[c]) = Len(cliQ[c]) /\ Len(cliQ[c]) \in Nat
      /\ \A k \in 1..Len(cliQ[c]) : cliQ[c][k] = Data
  BY <1>1, OnlyBlocks
<1>3. file[c] # Missing
  BY <1>1 DEF Transfer, Ordered
<1>4. \A d \in Clients \ {c} : Still(d)
  BY DEF Still, PartyTypes, TransferInv, TransferTypes
<1>5. child'[c] = "_exit"
  BY DEF PartyTypes
<1>6. CASE c \in cliAlive /\ cliQ' # cliQ
  <2>1. PICK len \in {0, 1} : cliQ' = [cliQ EXCEPT ![c] = Append(@, End(len))]
    BY <1>6
  <2>2. End(len) \in Messages /\ End(len) \notin {Data, Failure}
    BY MessageKinds
  <2>3. cliQ'[c] = Append(cliQ[c], End(len))
    BY <1>1, <2>1 DEF TransferTypes
  <2>4. /\ cliQ'[c] \in Seq(Messages) /\ cliQ'[c] # <<>>
        /\ Len(cliQ'[c]) = Len(cliQ[c]) + 1 /\ cliQ'[c][Len(cliQ[c]) + 1] = End(len)
        /\ \A k \in 1..Len(cliQ[c]) : cliQ'[c][k] = Data
        /\ Waiting(cliQ'[c]) = Len(cliQ[c])
    BY <1>2, <2>2, <2>3, WaitingAppend
  <2>5. TransferTypes'
    BY <1>1, <2>1, <2>4 DEF TransferTypes
  <2>6. Untouched(c)' /\ Listens(c)'
    BY <1>1, <1>5, <2>1 DEF Transfer, Untouched, Listens
  <2>7. Ordered(c)'
    <3>1. \A k \in 1..Len(cliQ'[c]) : k \in 1..Len(cliQ[c]) \/ k = Len(cliQ[c]) + 1
      BY <1>2, <2>4
    <3>2. QED
      BY <1>2, <1>3, <1>5, <2>2, <2>4, <3>1, MessageKinds DEF Ordered
  <2>8. Conserved(c)'
    BY <1>1, <1>2, <1>5, <2>4 DEF Transfer, Conserved, InHand
  <2>9. EndIsLast(c)'
    BY <1>1, <1>2, <1>5, <2>4 DEF Transfer, Conserved, EndIsLast, InHand
  <2>10. QED
    BY <1>4, <2>5, <2>6, <2>7, <2>8, <2>9, OneMoves DEF Transfer
<1>7. CASE cliQ' = cliQ
  <2>1. TransferTypes'
    BY <1>1, <1>7 DEF TransferTypes
  <2>2. Untouched(c)' /\ Ordered(c)' /\ Listens(c)'
    BY <1>1, <1>2, <1>3, <1>5, <1>7, MessageKinds DEF Transfer, Untouched, Ordered, Listens
  <2>3. Conserved(c)'
    BY <1>1, <1>5, <1>7 DEF Transfer, Conserved, InHand
  <2>4. EndIsLast(c)'
    BY <1>1, <1>5, <1>7 DEF Transfer, EndIsLast
  <2>5. QED
    BY <1>4, <2>1, <2>2, <2>3, <2>4, OneMoves DEF Transfer
<1>8. QED
  BY <1>6, <1>7

\* open() failed: FAILURE is all the client is ever sent.
LEMMA ChildOpenFailsKeeps ==
  ASSUME TransferInv, PartyTypes, NEW c \in Clients, ChildOpenFails(c)
  PROVE  TransferInv'
<1> USE DEF ChildOpenFails
<1>1. /\ Transfer(c) /\ TransferTypes /\ cliQ[c] = <<>> /\ child[c] = "open"
      /\ file[c] = Missing /\ child'[c] = "exit"
  BY DEF TransferInv, Transfer, Untouched, PartyTypes
<1>2. /\ cliQ'[c] \in Seq(Messages)
      /\ \A k \in 1..Len(cliQ'[c]) : k = 1 /\ Len(cliQ'[c]) = 1 /\ cliQ'[c][k] = Failure
  <2>1. <<>> \in Seq(Messages) /\ Failure \in Messages
    BY MessageKinds
  <2>2. cliQ'[c] = cliQ[c] \/ cliQ'[c] = Append(cliQ[c], Failure)
    BY <1>1 DEF TransferTypes
  <2>3. cliQ[c] \in Seq(Messages) /\ Len(cliQ[c]) = 0
    BY <1>1, <2>1, EmptySeq
  <2>4. QED
    BY <2>1, <2>2, <2>3
<1>3. TransferTypes'
  BY <1>1, <1>2 DEF TransferTypes
<1>4. Untouched(c)' /\ Listens(c)'
  BY <1>1 DEF Transfer, Untouched, Listens
<1>5. Ordered(c)'
  BY <1>1, <1>2, MessageKinds DEF Transfer, Ordered
<1>6. Conserved(c)' /\ EndIsLast(c)'
  BY <1>1 DEF Conserved, EndIsLast
<1>7. \A d \in Clients \ {c} : Still(d)
  BY DEF Still, PartyTypes, TransferInv, TransferTypes
<1>8. QED
  BY <1>3, <1>4, <1>5, <1>6, <1>7, OneMoves DEF Transfer

\* A child is forked for a client that has been sent nothing, ends, or is reaped.
LEMMA ChildComesOrGoes ==
  ASSUME TransferInv, PartyTypes, NEW c \in Clients,
         UNCHANGED <<file, cpc, cliQ, cliAlive, total, left, cut>>,
         NEW to, child' = [child EXCEPT ![c] = to],
         \/ child[c] = "none" /\ to = "open"
         \/ child[c] # "none" /\ to \in {"zombie", "reaped"}
  PROVE  TransferInv'
<1>1. Transfer(c) /\ TransferTypes /\ child'[c] = to
  BY DEF TransferInv, PartyTypes
<1>2. TransferTypes'
  BY <1>1 DEF TransferTypes
<1>3. Untouched(c)' /\ Listens(c)' /\ Conserved(c)'
  BY <1>1 DEF Transfer, Untouched, Listens, Conserved
<1>4. Ordered(c)' /\ EndIsLast(c)'
  BY <1>1 DEF Transfer, Untouched, Ordered, EndIsLast
<1>5. \A d \in Clients \ {c} : Still(d)
  BY DEF Still, PartyTypes
<1>6. QED
  BY <1>2, <1>3, <1>4, <1>5, OneMoves DEF Transfer

-----------------------------------------------------------------------------
\* A client that is through: its queue is gone.
LEMMA ClientLeaves ==
  ASSUME TransferInv, PartyTypes, NEW c \in Clients, NEW how \in {"done", "failed"},
         ClientExit(c, how), UNCHANGED <<file, child, left, cut>>,
         total' \in [Clients -> Nat], \A d \in Clients \ {c} : total'[d] = total[d],
         child[c] \in {"none", "open"} => total'[c] = 0,
         how = "done" => file[c] # Missing /\ (c \in cut \/ file[c] = 0 \/ total'[c] = file[c])
  PROVE  TransferInv'
<1> USE DEF ClientExit
<1>1. /\ Transfer(c) /\ TransferTypes /\ cliQ'[c] = <<>> /\ cpc'[c] = how
      /\ c \notin cliAlive'
  BY DEF TransferInv, TransferTypes, PartyTypes
<1>2. TransferTypes'
  <2>1. <<>> \in Seq(Messages)
    OBVIOUS
  <2>2. QED
    BY <1>1, <2>1 DEF TransferTypes
<1>3. Untouched(c)' /\ Listens(c)'
  BY <1>1 DEF Transfer, Untouched, Listens
<1>4. Ordered(c)'
  BY <1>1 DEF Transfer, Ordered
<1>5. Conserved(c)' /\ EndIsLast(c)'
  BY <1>1 DEF Conserved, EndIsLast
<1>6. \A d \in Clients \ {c} : Still(d)
  BY DEF Still, PartyTypes, TransferInv, TransferTypes
<1>7. QED
  BY <1>2, <1>3, <1>4, <1>5, <1>6, OneMoves DEF Transfer

\* A client that has received a block: it moves from the queue to the total.
LEMMA ClientTakesBlock ==
  ASSUME TransferInv, PartyTypes, NEW c \in Clients, cliQ[c] # <<>>, Head(cliQ[c]) = Data,
         cpc[c] \in {"first", "more"}, cpc' = [cpc EXCEPT ![c] = "more"],
         cliQ' = [cliQ EXCEPT ![c] = Tail(@)],
         total' = [total EXCEPT ![c] = total[c] + 1],
         UNCHANGED <<file, child, left, cut, cliAlive>>
  PROVE  TransferInv'
<1>1. /\ Transfer(c) /\ TransferTypes /\ cliQ[c] \in Seq(Messages)
      /\ cliQ'[c] = Tail(cliQ[c]) /\ cpc'[c] = "more" /\ total'[c] = total[c] + 1
      /\ total[c] \in Nat /\ left[c] \in Nat
  BY DEF TransferInv, TransferTypes, PartyTypes
<1>2. /\ cliQ'[c] \in Seq(Messages) /\ Len(cliQ'[c]) = Len(cliQ[c]) - 1
      /\ \A k \in 1..Len(cliQ'[c]) : cliQ'[c][k] = cliQ[c][k + 1]
      /\ Waiting(cliQ[c]) = Waiting(cliQ'[c]) + 1
      /\ Len(cliQ'[c]) > 0 => cliQ'[c][Len(cliQ'[c])] = cliQ[c][Len(cliQ[c])]
  BY <1>1, WaitingTail DEF Transfer, Ordered
<1>3. /\ Len(cliQ[c]) \in Nat /\ 1 \in 1..Len(cliQ[c]) /\ cliQ[c][1] = Data
      /\ \A k \in 1..Len(cliQ'[c]) : k + 1 \in 1..Len(cliQ[c])
      /\ Waiting(cliQ'[c]) \in Nat /\ Len(cliQ'[c]) \in Nat
  BY <1>1, <1>2 DEF Waiting
<1>4. TransferTypes'
  BY <1>1, <1>2 DEF TransferTypes
<1>5. file[c] # Missing
  BY <1>1, <1>3, MessageKinds DEF Transfer, Ordered
<1>6. child[c] \notin {"none", "open"}
  BY <1>1 DEF Transfer, Untouched
<1>7. Untouched(c)' /\ Listens(c)'
  BY <1>1, <1>6 DEF Transfer, Untouched, Listens
<1>8. Ordered(c)'
  BY <1>1, <1>2, <1>3, <1>5 DEF Transfer, Ordered
<1>9. Conserved(c)'
  BY <1>1, <1>2, <1>3, <1>5, FileSize DEF Transfer, Conserved, InHand
<1>10. EndIsLast(c)'
  <2>1. Len(cliQ'[c]) > 0 => cliQ[c][Len(cliQ[c])] = cliQ'[c][Len(cliQ'[c])]
    BY <1>2
  <2>2. QED
    <3>0. total'[c] = total[c] + 1 /\ total[c] \in Nat
      BY <1>1
    <3>1. total'[c] + Waiting(cliQ'[c]) = total[c] + Waiting(cliQ[c])
      BY <1>2, <1>3, <3>0
    <3>2. Len(cliQ[c]) > 0 /\ UNCHANGED <<file, child, left, cut, cliAlive>>
      BY <1>3
    <3>3. QED
      BY <1>1, <1>3, <1>5, <2>1, <3>1, <3>2 DEF Transfer, EndIsLast
<1>11. \A d \in Clients \ {c} : Still(d)
  BY DEF Still, PartyTypes, TransferInv, TransferTypes
<1>12. QED
  BY <1>4, <1>7, <1>8, <1>9, <1>10, <1>11, OneMoves DEF Transfer

\* A message that is not a block comes last; END comes when the whole file has
\* been added up, unless reading failed.
LEMMA LastMessage ==
  ASSUME TransferInv, NEW c \in Clients, cliQ[c] # <<>>, Head(cliQ[c]) # Data,
         cpc[c] \in {"first", "more"}
  PROVE  /\ Head(cliQ[c]) = Failure <=> file[c] = Missing
         /\ file[c] = Missing \/ c \in cut \/ total[c] = file[c]
         /\ child[c] \notin {"none", "open"}
<1>1. Transfer(c) /\ TransferTypes /\ cliQ[c] \in Seq(Messages) /\ total[c] \in Nat
  BY DEF TransferInv, TransferTypes
<1>2. Head(cliQ[c]) = cliQ[c][1] /\ 1 \in 1..Len(cliQ[c])
  BY <1>1
<1>3. Len(cliQ[c]) = 1 /\ Waiting(cliQ[c]) = 0 /\ c \in cliAlive
  <2>1. Len(cliQ[c]) = 1
    BY <1>1, <1>2 DEF Transfer, Ordered
  <2>2. cliQ[c][Len(cliQ[c])] # Data
    BY <1>2, <2>1
  <2>3. QED
    BY <1>1, <2>1, <2>2 DEF Transfer, Listens, Waiting
<1>4. Head(cliQ[c]) = Failure <=> file[c] = Missing
  BY <1>1, <1>2 DEF Transfer, Ordered
<1>5. file[c] # Missing /\ c \notin cut => total[c] + Waiting(cliQ[c]) = file[c]
  BY <1>1, <1>2, <1>3 DEF Transfer, EndIsLast
<1>6. child[c] \notin {"none", "open"}
  BY <1>1 DEF Transfer, Untouched
<1>7. QED
  BY <1>1, <1>3, <1>4, <1>5, <1>6

\* The first answer is a block, FAILURE or END.
LEMMA ClientFirstKeeps ==
  ASSUME TransferInv, PartyTypes, NEW c \in Clients, ClientFirst(c)
  PROVE  TransferInv'
<1> USE DEF ClientFirst
<1> DEFINE m == Head(cliQ[c])
<1>1. /\ m \in Messages /\ cpc[c] = "first" /\ cliQ[c] # <<>> /\ total[c] = 0
      /\ total \in [Clients -> Nat]
  BY DEF TransferInv, TransferTypes, Transfer, Untouched
<1>2. CASE m = Data
  <2>1. /\ total' = [total EXCEPT ![c] = total[c] + 1]
        /\ cpc' = [cpc EXCEPT ![c] = "more"]
        /\ cliQ' = [cliQ EXCEPT ![c] = Tail(@)]
        /\ UNCHANGED <<file, child, left, cut, cliAlive>>
    BY <1>1, <1>2, MessageKinds
  <2>2. QED
    BY <1>1, <1>2, <2>1, ClientTakesBlock
<1>3. CASE m = Failure
  <2>1. ClientExit(c, "failed") /\ UNCHANGED <<total, file, child, left, cut>>
    BY <1>1, <1>3, MessageKinds
  <2>2. QED
    BY <1>1, <2>1, ClientLeaves
<1>4. CASE m \notin {Data, Failure}
  <2>1. /\ ClientExit(c, "done") /\ UNCHANGED <<file, child, left, cut>>
        /\ total' = [total EXCEPT ![c] = m.len]
    BY <1>1, <1>4, MessageKinds
  <2>2. file[c] # Missing /\ (c \in cut \/ file[c] = 0) /\ child[c] \notin {"none", "open"}
    BY <1>1, <1>4, LastMessage
  <2>3. total' \in [Clients -> Nat] /\ \A d \in Clients \ {c} : total'[d] = total[d]
    BY <1>1, <2>1, MessageKinds
  <2>4. QED
    BY <2>1, <2>2, <2>3, ClientLeaves
<1>5. QED
  BY <1>2, <1>3, <1>4

\* Every later answer is a block or END.
LEMMA ClientMoreKeeps ==
  ASSUME TransferInv, PartyTypes, NEW c \in Clients, ClientMore(c)
  PROVE  TransferInv'
<1> USE DEF ClientMore
<1> DEFINE m == Head(cliQ[c])
<1>1. /\ m \in Messages /\ cpc[c] = "more" /\ cliQ[c] # <<>> /\ file[c] # Missing
      /\ total \in [Clients -> Nat] /\ cpc \in [Clients -> {"open", "send", "first", "more",
                                                            "done", "failed", "killed"}]
  BY DEF TransferInv, TransferTypes, Transfer, Ordered, PartyTypes
<1>2. CASE m = Data
  <2>1. /\ total' = [total EXCEPT ![c] = total[c] + 1] /\ cpc' = cpc
        /\ cliQ' = [cliQ EXCEPT ![c] = Tail(@)]
        /\ UNCHANGED <<file, child, left, cut, cliAlive>>
    BY <1>1, <1>2, MessageKinds
  <2>2. cpc' = [cpc EXCEPT ![c] = "more"]
    BY <1>1, <2>1
  <2>3. QED
    BY <1>1, <1>2, <2>1, <2>2, ClientTakesBlock
<1>3. CASE m # Data
  <2>1. ClientExit(c, "done") /\ UNCHANGED <<total, file, child, left, cut>>
    BY <1>1, <1>3, MessageKinds
  <2>2. (c \in cut \/ total[c] = file[c]) /\ child[c] \notin {"none", "open"}
    BY <1>1, <1>3, LastMessage
  <2>3. QED
    BY <1>1, <2>1, <2>2, ClientLeaves
<1>4. QED
  BY <1>2, <1>3

\* A client that starts, sends its request or is killed.
LEMMA ClientMoves ==
  ASSUME TransferInv, PartyTypes, NEW c \in Clients, NEW to \in {"send", "first", "failed", "killed"},
         cpc' = [cpc EXCEPT ![c] = to], UNCHANGED <<file, cliQ, total, child, left, cut>>,
         \/ cliAlive' = cliAlive /\ cpc[c] # "open"
         \/ cliAlive' = cliAlive \cup {c} /\ to = "send" /\ child[c] = "none"
         \/ cliAlive' = cliAlive /\ to = "failed",
         to \in {"send", "first"} => cpc[c] \in {"open", "send"},
         to = "first" => c \in cliAlive
  PROVE  TransferInv'
<1>1. Transfer(c) /\ TransferTypes /\ cpc'[c] = to
  BY DEF TransferInv, PartyTypes
<1>2. TransferTypes'
  BY <1>1 DEF TransferTypes
<1>3. Untouched(c)' /\ Ordered(c)' /\ Listens(c)'
  BY <1>1 DEF Transfer, Untouched, Ordered, Listens
<1>4. Conserved(c)' /\ EndIsLast(c)'
  BY <1>1 DEF Transfer, Untouched, Conserved, EndIsLast, InHand
<1>5. \A d \in Clients \ {c} : Still(d)
  BY DEF Still, PartyTypes
<1>6. QED
  BY <1>2, <1>3, <1>4, <1>5, OneMoves DEF Transfer

\* A step that is not about the transfer.
LEMMA TransferRests == ASSUME TransferInv, UNCHANGED transferVars PROVE TransferInv'
<1>1. TransferTypes'
  BY DEF transferVars, TransferInv, TransferTypes
<1>2. \A d \in Clients : Still(d)
  BY DEF transferVars, Still
<1>3. QED
  BY <1>1, <1>2, StillKeeps DEF TransferInv

-----------------------------------------------------------------------------
\* Every step preserves the invariant of the transfer.
LEMMA NextTransfer ==
  ASSUME NeverSpinsInv, TransferInv, [Next]_vars
  PROVE  TransferInv'
<1>0. PartyTypes /\ \A s \in Servers : srvQ[s] \in Seq(Clients)
  BY DEF NeverSpinsInv, Types, PartyTypes
<1>1. ASSUME UNCHANGED transferVars PROVE TransferInv'
  BY <1>1, TransferRests
<1>2. ASSUME NEW s \in Servers, ServerStep(s) PROVE TransferInv'
  <2>1. CASE ServerReceive(s)
    <3> DEFINE c == Head(srvQ[s])
    <3>1. c \in Clients /\ child[c] = "none"
      <4>1. srvQ[s] \in Seq(Clients) /\ srvQ[s] # <<>>
        BY <1>0, <2>1 DEF ServerReceive
      <4>2. c = srvQ[s][1] /\ 1 \in 1..Len(srvQ[s])
        BY <4>1
      <4>3. QED
        BY <4>1, <4>2 DEF NeverSpinsInv, QueueInv
    <3>2. UNCHANGED <<file, cpc, cliQ, cliAlive, total, left, cut>>
      BY <2>1 DEF ServerReceive
    <3>3. child' = child \/ child' = [child EXCEPT ![c] = "open"]
      BY <2>1 DEF ServerReceive
    <3>4. QED
      BY <1>0, <1>1, <3>1, <3>2, <3>3, ChildComesOrGoes DEF transferVars
  <2>2. CASE Reap(s)
    <3>1. UNCHANGED <<file, cpc, cliQ, cliAlive, total, left, cut>>
      BY <2>2 DEF Reap
    <3>2. child' = child \/ \E c \in Zombies(s) : child' = [child EXCEPT ![c] = "reaped"]
      BY <2>2 DEF Reap
    <3>3. \A c \in Zombies(s) : c \in Clients /\ child[c] # "none"
      BY DEF Zombies
    <3>4. QED
      BY <1>0, <1>1, <3>1, <3>2, <3>3, ChildComesOrGoes DEF transferVars
  <2>3. CASE ServerLosesQueue(s) \/ ServerDeletesQueue(s) \/ ServerExit(s)
             \/ SigchldDelivered(s)
    BY <1>1, <2>3 DEF ServerLosesQueue, ServerDeletesQueue, ServerExit, SigchldDelivered
  <2>4. QED
    BY <1>2, <2>1, <2>2, <2>3 DEF ServerStep
<1>3. ASSUME NEW c \in Clients, ChildStep(c) PROVE TransferInv'
  BY <1>0, <1>3, ChildOpenFailsKeeps, ChildOpensKeeps, ChildReadsKeeps, ChildSendsKeeps,
     ChildEndsKeeps DEF ChildStep
<1>4. ASSUME NEW c \in Clients, \/ ChildExits(c) \/ ChildFails(c)
                                \/ ChildInterrupted(c) \/ ChildKilled(c)
      PROVE  TransferInv'
  <2>1. /\ child[c] # "none" /\ Dead(c)
        /\ UNCHANGED <<file, cpc, cliQ, cliAlive, total, left, cut>>
    BY <1>4 DEF ChildExits, ChildFails, ChildInterrupted, ChildKilled
  <2>2. PICK to \in {"zombie", "reaped"} : child' = [child EXCEPT ![c] = to]
    BY <2>1 DEF Dead
  <2>3. QED
    BY <1>0, <2>1, <2>2, ChildComesOrGoes
<1>5. ASSUME NEW c \in Clients, ClientKilled(c) PROVE TransferInv'
  BY <1>0, <1>5, ClientMoves DEF ClientKilled
<1>6. ASSUME NEW c \in Clients, ClientOpen(c) PROVE TransferInv'
  <2>1. cpc[c] = "open" /\ child[c] = "none" /\ UNCHANGED <<file, cliQ, total, child, left, cut>>
    BY <1>6 DEF ClientOpen, NeverSpinsInv, QueueInv
  <2>2. \/ cpc' = [cpc EXCEPT ![c] = "failed"] /\ cliAlive' = cliAlive
        \/ cpc' = [cpc EXCEPT ![c] = "send"] /\ cliAlive' = cliAlive \cup {c}
    BY <1>6 DEF ClientOpen
  <2>3. QED
    BY <1>0, <2>1, <2>2, ClientMoves
<1>7. ASSUME NEW c \in Clients, ClientSend(c) PROVE TransferInv'
  <2>1. /\ cpc[c] = "send" /\ child[c] = "none" /\ c \in cliAlive /\ total[c] = 0
        /\ total \in [Clients -> Nat] /\ UNCHANGED <<file, total, child, left, cut>>
    BY <1>7 DEF ClientSend, NeverSpinsInv, QueueInv, TransferInv, TransferTypes, Transfer,
       Untouched, Listens
  <2>2. CASE cpc' = [cpc EXCEPT ![c] = "first"] /\ UNCHANGED <<cliQ, cliAlive>>
    BY <1>0, <2>1, <2>2, ClientMoves
  <2>3. CASE ClientExit(c, "failed")
    BY <1>0, <2>1, <2>3, ClientLeaves
  <2>4. QED
    BY <1>7, <2>2, <2>3 DEF ClientSend
<1>8. QED
  BY <1>0, <1>1, <1>2, <1>3, <1>4, <1>5, <1>6, <1>7, ClientFirstKeeps, ClientMoreKeeps
  DEF Next, ServerStart, ServerInterrupted, ServerKilled, ChildProc, ClientProc, ClientStep,
      vars

\* The invariants of the two halves hold in every state.
LEMMA InvariantsHold == Spec => [](NeverSpinsInv /\ TransferInv)
<1>1. Init => NeverSpinsInv /\ TransferInv
  BY InitNeverSpins, InitTransfer DEF Init
<1>2. QED
  BY <1>1, NextNeverSpins, NextTransfer, PTL DEF Spec

\* The invariant in the words of SvmsgTransfer: no block is lost, and a printed
\* total is the file.
LEMMA TransferPromises == TransferInv => BlocksConserved /\ DoneIsComplete
<1>0. TransferInv => DoneIsComplete
  BY DEF TransferInv, Transfer, Listens, DoneIsComplete
<1> SUFFICES ASSUME TransferInv, NEW c \in Clients, file[c] \in 1..MaxBlocks,
                    child[c] \in {"read", "send", "end", "_exit"}, c \in cliAlive
             PROVE  total[c] + CountOf(cliQ[c], "DATA")
                      + (IF child[c] = "send" THEN 1 ELSE 0) + left[c] = file[c]
  BY <1>0 DEF BlocksConserved
<1>1. cliQ[c] \in Seq(Messages) /\ Transfer(c)
  BY DEF TransferInv, TransferTypes
<1>2. CountOf(cliQ[c], "DATA") = Waiting(cliQ[c])
  BY <1>1, CountedBlocks DEF Transfer, Ordered
<1>3. QED
  BY <1>1, <1>2 DEF Transfer, Conserved, InHand

\* No block is lost, duplicated or counted twice between the file and the
\* client's total, for any number of clients, servers and blocks and any queue
\* size, whatever goes wrong.
THEOREM NoBlockIsLost == Spec => []BlocksConserved
BY TransferPromises, InvariantsHold, PTL

\* A client that prints its total has the whole file, except for the empty file
\* and for one whose reading failed, however long the file and the queue are.
THEOREM TotalIsTheFile == Spec => []DoneIsComplete
BY TransferPromises, InvariantsHold, PTL

-----------------------------------------------------------------------------
(* routines/46.7.  The transfer is the same; what has to be shown of the   *)
(* servers is that a child is only forked for a client that has none.      *)

\* The types of what is not part of the transfer.
KeyTypes ==
  /\ ksrv \in [KeyServers -> {"off", "create", "exists", "remove", "loop", "break", "exited",
                                "killed"}]
  /\ keyed \in KeyServers \cup {NoServer}
  /\ keyQ \in Seq(Clients)
  /\ parent \in [Clients -> KeyServers \cup {NoServer}]
  /\ sigchld \subseteq KeyServers

\* A client has at most one request queued, and no child yet.
KeyRequests ==
  /\ \A k \in 1..Len(keyQ) : child[keyQ[k]] = "none" /\ cpc[keyQ[k]] \notin {"open", "send"}
  /\ \A k, l \in 1..Len(keyQ) : keyQ[k] = keyQ[l] => k = l
  /\ \A c \in Clients : cpc[c] \in {"open", "send"} => child[c] = "none"

\* A child was forked by some server.
KeyParents == \A c \in Clients : child[c] # "none" => parent[c] \in KeyServers

\* A SIGCHLD that has not been delivered has a zombie to be reaped.
KeyZombies == \A s \in sigchld : \E c \in Clients : child[c] = "zombie" /\ parent[c] = s

KeyInv == PartyTypes /\ KeyTypes /\ KeyRequests /\ KeyParents /\ KeyZombies

\* Nobody has asked for anything.
LEMMA InitKey == KeyInit => KeyInv
<1> SUFFICES ASSUME KeyInit PROVE KeyInv
  OBVIOUS
<1>1. <<>> \in Seq(Clients)
  OBVIOUS
<1>2. QED
  BY <1>1 DEF KeyInit, TransferInit, KeyInv, PartyTypes, KeyTypes, KeyRequests, KeyParents,
     KeyZombies

\* A step that leaves the servers and the requests alone and moves the child or
\* the client of one transfer keeps it.
LEMMA KeyPartyMoves ==
  ASSUME KeyInv, NEW c \in Clients, UNCHANGED keyServerVars, PartyTypes',
         \A d \in Clients \ {c} : child'[d] = child[d] /\ cpc'[d] = cpc[d],
         \/ child'[c] = child[c] /\ cpc[c] \in {"first", "more"}
              /\ cpc'[c] \in {"first", "more", "done", "failed"}
         \/ cpc'[c] = cpc[c] /\ child[c] \in {"open", "read", "send", "end"}
              /\ child'[c] # "none"
  PROVE  KeyInv'
<1> USE DEF KeyInv, keyServerVars
<1>1. KeyTypes'
  BY DEF KeyTypes
<1>2. \A k \in 1..Len(keyQ) : keyQ[k] \in Clients
  BY DEF KeyTypes
<1>3. KeyRequests'
  BY <1>2 DEF KeyRequests
<1>4. KeyParents'
  BY DEF KeyParents
<1>5. KeyZombies'
  BY DEF KeyZombies
<1>6. QED
  BY <1>1, <1>3, <1>4, <1>5

\* A server starts, looks for the queue under the key, removes one or its own:
\* requests may be lost, none comes twice.
LEMMA KeyQueueMoves ==
  ASSUME KeyInv, NEW s \in KeyServers, UNCHANGED <<child, cpc, parent, sigchld>>,
         NEW to \in {"create", "exists", "remove", "loop", "break", "exited", "killed"},
         ksrv' = [ksrv EXCEPT ![s] = to],
         keyQ' = keyQ \/ keyQ' = <<>>, keyed' \in KeyServers \cup {NoServer}
  PROVE  KeyInv'
<1> USE DEF KeyInv
<1>1. PartyTypes' /\ KeyParents' /\ KeyZombies'
  BY DEF PartyTypes, KeyParents, KeyZombies
<1>2. KeyTypes'
  <2>1. <<>> \in Seq(Clients)
    OBVIOUS
  <2>2. QED
    BY <2>1 DEF KeyTypes
<1>3. KeyRequests'
  <2>1. Len(<<>>) = 0
    OBVIOUS
  <2>2. QED
    BY <2>1 DEF KeyRequests
<1>4. QED
  BY <1>1, <1>2, <1>3

\* The first request: its client has no child yet, and no other request.
LEMMA KeyFirstRequest ==
  ASSUME KeyInv, keyQ # <<>>
  PROVE  /\ Head(keyQ) \in Clients /\ child[Head(keyQ)] = "none"
         /\ cpc[Head(keyQ)] \notin {"open", "send"}
         /\ Tail(keyQ) \in Seq(Clients)
         /\ \A k \in 1..Len(Tail(keyQ)) :
              /\ k + 1 \in 1..Len(keyQ) /\ Tail(keyQ)[k] = keyQ[k + 1]
              /\ Tail(keyQ)[k] \in Clients \ {Head(keyQ)}
<1>1. keyQ \in Seq(Clients) /\ KeyRequests
  BY DEF KeyInv, KeyTypes
<1>2. /\ Head(keyQ) = keyQ[1] /\ 1 \in 1..Len(keyQ) /\ Head(keyQ) \in Clients
      /\ Tail(keyQ) \in Seq(Clients)
  BY <1>1
<1>3. \A k \in 1..Len(Tail(keyQ)) : k + 1 \in 1..Len(keyQ) /\ Tail(keyQ)[k] = keyQ[k + 1]
  BY <1>1
<1>4. ASSUME NEW k \in 1..Len(Tail(keyQ))
      PROVE  Tail(keyQ)[k] \in Clients \ {Head(keyQ)}
  <2>1. k + 1 \in 1..Len(keyQ) /\ Tail(keyQ)[k] = keyQ[k + 1] /\ k + 1 # 1
    BY <1>3
  <2>2. keyQ[k + 1] \in Clients
    BY <1>1, <2>1
  <2>3. QED
    BY <1>1, <1>2, <2>1, <2>2 DEF KeyRequests
<1>5. QED
  BY <1>1, <1>2, <1>3, <1>4 DEF KeyRequests

\* A request is taken and a child forked, or the loop is left.
LEMMA KeyReceiveKeeps ==
  ASSUME KeyInv, NEW s \in KeyServers, KeyServerReceives(s)
  PROVE  KeyInv'
<1> USE DEF KeyInv, KeyServerReceives
<1> DEFINE c == Head(keyQ)
           q == Tail(keyQ)
<1>1. /\ c \in Clients /\ child[c] = "none" /\ cpc[c] \notin {"open", "send"}
      /\ q \in Seq(Clients)
      /\ \A k \in 1..Len(q) : /\ k + 1 \in 1..Len(keyQ) /\ q[k] = keyQ[k + 1]
                             /\ q[k] \in Clients \ {c}
  BY KeyFirstRequest
<1>2. /\ \/ child' = [child EXCEPT ![c] = "open"] /\ parent' = [parent EXCEPT ![c] = s]
            /\ ksrv' = ksrv
         \/ child' = child /\ parent' = parent /\ ksrv' = [ksrv EXCEPT ![s] = "break"]
      /\ keyQ' = q /\ UNCHANGED <<cpc, keyed, sigchld>>
  OBVIOUS
<1> HIDE DEF c, q, KeyServerReceives
<1>3. PartyTypes'
  BY <1>2 DEF PartyTypes
<1>4. KeyTypes'
  <2>1. ksrv' = ksrv \/ ksrv' = [ksrv EXCEPT ![s] = "break"]
    BY <1>2
  <2>2. ksrv' \in [KeyServers -> {"off", "create", "exists", "remove", "loop", "break",
                                 "exited", "killed"}]
    BY <2>1 DEF KeyTypes
  <2>3. parent' \in [Clients -> KeyServers \cup {NoServer}]
    BY <1>1, <1>2 DEF KeyTypes
  <2>4. QED
    BY <1>1, <1>2, <2>2, <2>3 DEF KeyTypes
<1>5. \A d \in Clients \ {c} : child'[d] = child[d] /\ parent'[d] = parent[d]
  BY <1>2 DEF PartyTypes, KeyTypes
<1>6. KeyRequests'
  <2>1. \A k \in 1..Len(q) : child[q[k]] = "none" /\ cpc[q[k]] \notin {"open", "send"}
    BY <1>1 DEF KeyRequests
  <2>2. \A k \in 1..Len(q) : child'[q[k]] = "none"
    BY <1>1, <1>5, <2>1
  <2>3. \A k, l \in 1..Len(q) : q[k] = q[l] => k = l
    BY <1>1 DEF KeyRequests
  <2>4. \A d \in Clients : cpc[d] \in {"open", "send"} => child'[d] = "none"
    BY <1>1, <1>5 DEF KeyRequests
  <2>5. QED
    BY <1>2, <2>1, <2>2, <2>3, <2>4 DEF KeyRequests
<1>7. KeyParents'
  BY <1>1, <1>2, <1>5 DEF KeyParents, PartyTypes, KeyTypes
<1>8. KeyZombies'
  <2>1. ASSUME NEW t \in sigchld
        PROVE  \E d \in Clients : child'[d] = "zombie" /\ parent'[d] = t
    <3>1. PICK d \in Clients : child[d] = "zombie" /\ parent[d] = t
      BY DEF KeyZombies
    <3>2. QED
      BY <1>1, <1>5, <3>1
  <2>2. QED
    BY <1>2, <2>1 DEF KeyZombies
<1>9. QED
  BY <1>3, <1>4, <1>6, <1>7, <1>8

\* A child ends: its parent has its SIGCHLD pending, or has gone before.
LEMMA KeyExitKeeps ==
  ASSUME KeyInv, NEW c \in Clients, KeyChildDies(c),
         child[c] \in {"open", "read", "send", "end", "_exit", "exit"}
  PROVE  KeyInv'
<1> USE DEF KeyInv, KeyChildDies
<1>1. /\ child[c] \notin {"none", "zombie"} /\ parent[c] \in KeyServers
      /\ UNCHANGED <<cpc, ksrv, keyed, keyQ, parent>>
  BY DEF KeyParents
<1>2. \/ child' = [child EXCEPT ![c] = "reaped"] /\ sigchld' = sigchld
      \/ child' = [child EXCEPT ![c] = "zombie"] /\ sigchld' = sigchld \cup {parent[c]}
  OBVIOUS
<1> HIDE DEF KeyChildDies
<1>3. PartyTypes' /\ KeyTypes' /\ KeyParents'
  BY <1>1, <1>2 DEF PartyTypes, KeyTypes, KeyParents
<1>4. KeyRequests'
  <2>1. \A k \in 1..Len(keyQ) : keyQ[k] \in Clients
    BY DEF KeyTypes
  <2>2. QED
    BY <1>1, <1>2, <2>1 DEF KeyRequests, PartyTypes
<1>5. KeyZombies'
  BY <1>1, <1>2 DEF KeyZombies, PartyTypes
<1>6. QED
  BY <1>3, <1>4, <1>5

\* The handler reaps the zombie its SIGCHLD stands for.
LEMMA KeyReapKeeps ==
  ASSUME KeyInv, NEW s \in KeyServers, KeyServerReaps(s)
  PROVE  KeyInv'
<1> USE DEF KeyInv, KeyServerReaps
<1>1. PICK c \in Clients : /\ child[c] = "zombie" /\ parent[c] = s
                          /\ child' = [child EXCEPT ![c] = "reaped"]
  OBVIOUS
<1>2. sigchld' = sigchld \ {s} /\ UNCHANGED <<cpc, ksrv, keyed, keyQ, parent>>
  OBVIOUS
<1> HIDE DEF KeyServerReaps
<1>3. PartyTypes' /\ KeyTypes' /\ KeyParents'
  BY <1>1, <1>2 DEF PartyTypes, KeyTypes, KeyParents
<1>4. KeyRequests'
  <2>1. \A k \in 1..Len(keyQ) : keyQ[k] \in Clients
    BY DEF KeyTypes
  <2>2. QED
    BY <1>1, <1>2, <2>1 DEF KeyRequests, PartyTypes
<1>5. KeyZombies'
  BY <1>1, <1>2 DEF KeyZombies, PartyTypes
<1>6. QED
  BY <1>3, <1>4, <1>5

\* A client that has found no queue, or one, has not sent anything.
LEMMA KeyOpenKeeps ==
  ASSUME KeyInv, NEW c \in Clients, KeyClientOpens(c)
  PROVE  KeyInv'
<1> USE DEF KeyInv, KeyClientOpens
<1>1. /\ cpc[c] = "open" /\ child[c] = "none"
      /\ cpc' = [cpc EXCEPT ![c] = "failed"] \/ cpc' = [cpc EXCEPT ![c] = "send"]
      /\ UNCHANGED <<child, ksrv, keyed, keyQ, parent, sigchld>>
  BY DEF KeyRequests
<1> HIDE DEF KeyClientOpens
<1>2. PartyTypes' /\ KeyTypes' /\ KeyParents' /\ KeyZombies'
  BY <1>1 DEF PartyTypes, KeyTypes, KeyParents, KeyZombies
<1>3. KeyRequests'
  <2>1. \A k \in 1..Len(keyQ) : keyQ[k] \in Clients \ {c}
    BY <1>1 DEF KeyTypes, KeyRequests
  <2>2. QED
    BY <1>1, <2>1 DEF KeyRequests, PartyTypes
<1>4. QED
  BY <1>2, <1>3

\* A request is appended to the queue of the key, or its queue has gone.
LEMMA KeySendKeeps ==
  ASSUME KeyInv, NEW c \in Clients, KeyClientSends(c)
  PROVE  KeyInv'
<1> USE DEF KeyInv, KeyClientSends
<1>1. /\ cpc[c] = "send" /\ child[c] = "none" /\ keyQ \in Seq(Clients)
      /\ UNCHANGED <<child, ksrv, keyed, parent, sigchld>>
      /\ \/ keyQ' = Append(keyQ, c) /\ cpc' = [cpc EXCEPT ![c] = "first"]
         \/ keyQ' = keyQ /\ cpc' = [cpc EXCEPT ![c] = "failed"]
  BY DEF KeyRequests, KeyTypes, ClientExit
<1> HIDE DEF KeyClientSends
<1>2. PartyTypes' /\ KeyTypes' /\ KeyParents' /\ KeyZombies'
  <2>1. keyQ' \in Seq(Clients)
    BY <1>1
  <2>2. KeyTypes'
    BY <1>1, <2>1 DEF KeyTypes
  <2>3. PartyTypes' /\ KeyParents' /\ KeyZombies'
    BY <1>1 DEF PartyTypes, KeyParents, KeyZombies
  <2>4. QED
    BY <2>2, <2>3
<1>3. KeyRequests'
  <2>1. \A k \in 1..Len(keyQ) : keyQ[k] \in Clients \ {c}
    BY <1>1 DEF KeyRequests
  <2>2. \A d \in Clients : cpc'[d] \in {"open", "send"} => child'[d] = "none"
    BY <1>1 DEF KeyRequests, PartyTypes
  <2>3. CASE keyQ' = keyQ
    BY <1>1, <2>1, <2>2, <2>3 DEF KeyRequests, PartyTypes
  <2>4. CASE keyQ' = Append(keyQ, c) /\ cpc' = [cpc EXCEPT ![c] = "first"]
    <3>1. /\ Len(keyQ') = Len(keyQ) + 1 /\ keyQ'[Len(keyQ) + 1] = c /\ Len(keyQ) \in Nat
          /\ \A k \in 1..Len(keyQ) : keyQ'[k] = keyQ[k]
      BY <1>1, <2>4
    <3>2. \A k \in 1..Len(keyQ') : k \in 1..Len(keyQ) \/ k = Len(keyQ) + 1
      BY <3>1
    <3>3. \A k, l \in 1..Len(keyQ') : keyQ'[k] = keyQ'[l] => k = l
      BY <2>1, <3>1, <3>2 DEF KeyRequests
    <3>4. ASSUME NEW k \in 1..Len(keyQ')
          PROVE  child'[keyQ'[k]] = "none" /\ cpc'[keyQ'[k]] \notin {"open", "send"}
      BY <1>1, <2>1, <2>4, <3>1, <3>2 DEF KeyRequests, PartyTypes
    <3>5. QED
      BY <2>2, <3>3, <3>4 DEF KeyRequests
  <2>5. QED
    BY <1>1, <2>3, <2>4
<1>4. QED
  BY <1>2, <1>3

\* A step of a child or of a client that has sent its request.
LEMMA KeyTransferStep ==
  ASSUME KeyInv, NEW c \in Clients, ChildStep(c) \/ ClientStep(c), UNCHANGED keyServerVars
  PROVE  KeyInv'
<1>1. CASE ChildStep(c)
  <2>1. /\ child[c] \in {"open", "read", "send", "end"} /\ cpc' = cpc
        /\ \E to \in {"read", "send", "end", "_exit", "exit"} : child' = [child EXCEPT ![c] = to]
    BY <1>1 DEF ChildStep, ChildOpenFails, ChildOpens, ChildReads, ChildSends, ChildEnds
  <2>2. PartyTypes /\ PartyTypes' /\ \A d \in Clients \ {c} : child'[d] = child[d]
    BY <2>1 DEF KeyInv, PartyTypes
  <2>3. child'[c] # "none"
    BY <2>1, <2>2 DEF PartyTypes
  <2>4. QED
    BY <2>1, <2>2, <2>3, KeyPartyMoves
<1>2. CASE ClientStep(c)
  <2>1. /\ cpc[c] \in {"first", "more"} /\ child' = child
        /\ \/ cpc' = cpc
           \/ \E to \in {"more", "done", "failed"} : cpc' = [cpc EXCEPT ![c] = to]
    BY <1>2 DEF ClientStep, ClientFirst, ClientMore, ClientExit
  <2>2. PartyTypes' /\ \A d \in Clients \ {c} : cpc'[d] = cpc[d]
    BY <2>1 DEF KeyInv, PartyTypes
  <2>3. cpc'[c] \in {"first", "more", "done", "failed"}
    BY <2>1 DEF KeyInv, PartyTypes
  <2>4. QED
    BY <2>1, <2>2, <2>3, KeyPartyMoves
<1>3. QED
  BY <1>1, <1>2

\* Every step of the programs of 46.7 keeps what is known of servers and requests.
LEMMA NextKey == KeyInv /\ [KeyNext]_keyVars => KeyInv'
<1> SUFFICES ASSUME KeyInv, [KeyNext]_keyVars PROVE KeyInv'
  OBVIOUS
<1>1. ASSUME NEW s \in KeyServers,
             KeyServerStarts(s) \/ KeyServerStep(s) \/ KeyServerKilled(s)
      PROVE  KeyInv'
  <2>1. keyed \in KeyServers \cup {NoServer}
    BY DEF KeyInv, KeyTypes
  <2>2. CASE KeyServerStarts(s)
    BY <2>1, <2>2, KeyQueueMoves DEF KeyServerStarts, transferVars
  <2>3. CASE KeyServerCreates(s)
    BY <2>1, <2>3, KeyQueueMoves DEF KeyServerCreates, transferVars
  <2>4. CASE KeyServerFindsOld(s)
    BY <2>1, <2>4, KeyQueueMoves DEF KeyServerFindsOld, transferVars
  <2>5. CASE KeyServerRemovesOld(s)
    BY <2>1, <2>5, KeyQueueMoves DEF KeyServerRemovesOld, RemoveKeyed, transferVars
  <2>6. CASE KeyServerLosesQueue(s)
    BY <2>1, <2>6, KeyQueueMoves DEF KeyServerLosesQueue, transferVars
  <2>7. CASE KeyServerEnds(s)
    BY <2>1, <2>7, KeyQueueMoves DEF KeyServerEnds, RemoveKeyed, transferVars
  <2>8. CASE KeyServerKilled(s)
    BY <2>1, <2>8, KeyQueueMoves DEF KeyServerKilled, transferVars
  <2>9. QED
    BY <1>1, <2>2, <2>3, <2>4, <2>5, <2>6, <2>7, <2>8, KeyReceiveKeeps, KeyReapKeeps
       DEF KeyServerStep
<1>2. CASE UNCHANGED keyVars
  BY <1>2 DEF keyVars, transferVars, keyServerVars, KeyInv, PartyTypes, KeyTypes, KeyRequests,
     KeyParents, KeyZombies
<1>3. ASSUME NEW c \in Clients, KeyChildExits(c) \/ KeyChildKilled(c)
      PROVE  KeyInv'
  BY <1>3, KeyExitKeeps DEF KeyChildExits, KeyChildKilled
<1>4. QED
  BY <1>1, <1>2, <1>3, KeyOpenKeeps, KeySendKeeps, KeyTransferStep
     DEF KeyNext, KeyClientStep, KeyChildStep

-----------------------------------------------------------------------------
\* A client that starts decides which file it asks for.
LEMMA ClientChooses ==
  ASSUME TransferInv, KeyInv, NEW c \in Clients, KeyClientOpens(c)
  PROVE  TransferInv'
<1> USE DEF KeyClientOpens
<1>1. /\ Transfer(c) /\ TransferTypes /\ cpc[c] = "open" /\ child[c] = "none"
      /\ cliQ[c] = <<>> /\ total[c] = 0
  BY DEF TransferInv, KeyInv, KeyRequests, Transfer, Untouched
<1>2. /\ file' \in [Clients -> Files]
      /\ UNCHANGED <<cliQ, total, child, left, cut>>
      /\ \A d \in Clients \ {c} : file'[d] = file[d] /\ cpc'[d] = cpc[d]
      /\ \/ cpc'[c] = "failed" /\ cliAlive' = cliAlive
         \/ cpc'[c] = "send" /\ cliAlive' = cliAlive \cup {c}
  BY <1>1 DEF TransferTypes, KeyInv, PartyTypes
<1>3. TransferTypes'
  BY <1>1, <1>2 DEF TransferTypes
<1>4. Len(cliQ'[c]) = 0
  BY <1>1, <1>2
<1>5. Untouched(c)' /\ Ordered(c)' /\ Listens(c)'
  BY <1>1, <1>2, <1>4 DEF Untouched, Ordered, Listens
<1>6. Conserved(c)' /\ EndIsLast(c)'
  BY <1>1, <1>2, <1>4 DEF Conserved, EndIsLast
<1>7. \A d \in Clients \ {c} : Still(d)
  BY <1>2 DEF Still
<1>8. QED
  BY <1>3, <1>5, <1>6, <1>7, OneMoves DEF Transfer

\* Every step of the programs of 46.7 preserves the invariant of the transfer.
LEMMA NextKeyTransfer ==
  ASSUME KeyInv, TransferInv, [KeyNext]_keyVars
  PROVE  TransferInv'
<1>0. PartyTypes
  BY DEF KeyInv
<1>1. ASSUME NEW s \in KeyServers,
             KeyServerStarts(s) \/ KeyServerStep(s) \/ KeyServerKilled(s)
      PROVE  TransferInv'
  <2>1. CASE KeyServerReceives(s)
    <3>1. Head(keyQ) \in Clients /\ child[Head(keyQ)] = "none"
      BY <2>1, KeyFirstRequest DEF KeyServerReceives
    <3>2. /\ UNCHANGED <<file, cpc, cliQ, cliAlive, total, left, cut>>
          /\ child' = child \/ child' = [child EXCEPT ![Head(keyQ)] = "open"]
      BY <2>1 DEF KeyServerReceives
    <3>3. QED
      BY <1>0, <3>1, <3>2, TransferRests, ChildComesOrGoes DEF transferVars
  <2>2. CASE KeyServerReaps(s)
    <3>1. PICK c \in Clients : child[c] = "zombie" /\ child' = [child EXCEPT ![c] = "reaped"]
      BY <2>2 DEF KeyServerReaps
    <3>2. UNCHANGED <<file, cpc, cliQ, cliAlive, total, left, cut>>
      BY <2>2 DEF KeyServerReaps
    <3>3. QED
      BY <1>0, <3>1, <3>2, ChildComesOrGoes
  <2>3. CASE UNCHANGED transferVars
    BY <2>3, TransferRests
  <2>4. QED
    BY <1>1, <2>1, <2>2, <2>3 DEF KeyServerStarts, KeyServerStep, KeyServerCreates,
       KeyServerFindsOld, KeyServerRemovesOld, KeyServerLosesQueue, KeyServerEnds,
       KeyServerKilled
<1>2. ASSUME NEW c \in Clients, ChildStep(c)
      PROVE  TransferInv'
  BY <1>0, <1>2, ChildOpenFailsKeeps, ChildOpensKeeps, ChildReadsKeeps, ChildSendsKeeps,
     ChildEndsKeeps DEF ChildStep
<1>3. ASSUME NEW c \in Clients, KeyChildExits(c) \/ KeyChildKilled(c)
      PROVE  TransferInv'
  <2>1. PICK to \in {"zombie", "reaped"} : child' = [child EXCEPT ![c] = to]
    BY <1>3 DEF KeyChildExits, KeyChildKilled, KeyChildDies
  <2>2. child[c] # "none" /\ UNCHANGED <<file, cpc, cliQ, cliAlive, total, left, cut>>
    BY <1>3 DEF KeyChildExits, KeyChildKilled, KeyChildDies
  <2>3. QED
    BY <1>0, <2>1, <2>2, ChildComesOrGoes
<1>4. ASSUME NEW c \in Clients, KeyClientSends(c)
      PROVE  TransferInv'
  <2>1. /\ cpc[c] = "send" /\ child[c] = "none" /\ c \in cliAlive /\ total[c] = 0
        /\ total \in [Clients -> Nat] /\ UNCHANGED <<file, total, child, left, cut>>
    BY <1>4 DEF KeyClientSends, KeyInv, KeyRequests, TransferInv, TransferTypes, Transfer,
       Untouched, Listens
  <2>2. CASE cpc' = [cpc EXCEPT ![c] = "first"] /\ UNCHANGED <<cliQ, cliAlive>>
    BY <1>0, <2>1, <2>2, ClientMoves
  <2>3. CASE ClientExit(c, "failed")
    BY <1>0, <2>1, <2>3, ClientLeaves
  <2>4. QED
    BY <1>4, <2>2, <2>3 DEF KeyClientSends
<1>5. ASSUME NEW c \in Clients, ClientStep(c)
      PROVE  TransferInv'
  BY <1>0, <1>5, ClientFirstKeeps, ClientMoreKeeps DEF ClientStep
<1>6. CASE UNCHANGED keyVars
  BY <1>6, TransferRests DEF keyVars
<1>7. QED
  BY <1>1, <1>2, <1>3, <1>4, <1>5, <1>6, ClientChooses DEF KeyNext, KeyClientStep, KeyChildStep

\* In 46.7 too no block is lost or counted twice and a printed total is the
\* file, whichever server removes whose queue, for any number of them.
THEOREM KeyTransferIsRight == KeySpec => [](BlocksConserved /\ DoneIsComplete)
<1>1. KeyInit => KeyInv /\ TransferInv
  BY InitKey, InitTransfer DEF KeyInit
<1>2. QED
  BY <1>1, NextKey, NextKeyTransfer, TransferPromises, PTL DEF KeySpec

\* A server of 46.7 that has a SIGCHLD pending has a child to reap, so that the
\* loop around waitpid() in its handler never has to wait for one (server 16-25).
THEOREM KeyHandlerHasAZombie ==
  KeySpec => [](\A s \in sigchld : \E c \in Clients : child[c] = "zombie" /\ parent[c] = s)
<1>1. KeyInv => \A s \in sigchld : \E c \in Clients : child[c] = "zombie" /\ parent[c] = s
  BY DEF KeyInv, KeyZombies
<1>2. QED
  BY <1>1, InitKey, NextKey, PTL DEF KeySpec

-----------------------------------------------------------------------------
(* Nobody waits for an answer that will not come.                          *)

\* A child that is through has left its last message, END or FAILURE, to a
\* client that listens; a client that has a block has a child that opened a file.
Announced(c) ==
  /\ child[c] \in {"_exit", "exit", "zombie", "reaped"} /\ cpc[c] \in {"first", "more"} =>
       Len(cliQ[c]) > 0 /\ cliQ[c][Len(cliQ[c])] # Data
  /\ cpc[c] = "more" => child[c] \notin {"none", "open"}

AllAnnounced == \A c \in Clients : Announced(c)

\* The child says how it ended, if msgsnd() does not refuse the END.
LEMMA ChildAnnounces ==
  ASSUME TransferInv, PartyTypes, AllAnnounced, NEW c \in Clients, ChildStep(c),
         "longEnd" \notin Faults
  PROVE  AllAnnounced'
<1>1. Transfer(c) /\ Announced(c) /\ cliQ[c] \in Seq(Messages)
  BY DEF TransferInv, TransferTypes, AllAnnounced
<1>2. ASSUME NEW d \in Clients \ {c}
      PROVE  Announced(d)'
  <2>1. cpc' = cpc /\ child'[d] = child[d] /\ cliQ'[d] = cliQ[d] /\ Announced(d)
    BY DEF ChildStep, ChildOpenFails, ChildOpens, ChildReads, ChildSends, ChildEnds, PartyTypes,
       TransferInv, TransferTypes, AllAnnounced
  <2>2. QED
    BY <2>1 DEF Announced
<1>3. cpc' = cpc /\ (cpc[c] \in {"first", "more"} => c \in cliAlive)
  BY <1>1 DEF ChildStep, ChildOpenFails, ChildOpens, ChildReads, ChildSends, ChildEnds,
     Transfer, Listens
<1>4. CASE ChildOpens(c) \/ ChildReads(c) \/ ChildSends(c)
  <2>1. child'[c] \in {"read", "send", "end"}
    BY <1>4 DEF ChildOpens, ChildReads, ChildSends, PartyTypes
  <2>2. Announced(c)'
    BY <2>1 DEF Announced
  <2>3. QED
    BY <1>2, <2>2 DEF AllAnnounced
<1>5. CASE ChildOpenFails(c) \/ ChildEnds(c)
  <2>1. child'[c] \in {"exit", "_exit"}
    BY <1>5 DEF ChildOpenFails, ChildEnds, PartyTypes
  <2>2. ASSUME c \in cliAlive
        PROVE  \E m \in Messages : m # Data /\ cliQ'[c] = Append(cliQ[c], m)
    BY <1>5, <2>2, MessageKinds DEF ChildOpenFails, ChildEnds, TransferInv, TransferTypes
  <2>3. ASSUME NEW m \in Messages, m # Data, cliQ'[c] = Append(cliQ[c], m)
        PROVE  Len(cliQ'[c]) > 0 /\ cliQ'[c][Len(cliQ'[c])] # Data
    BY <1>1, <2>3
  <2>4. Announced(c)'
    BY <1>3, <2>1, <2>2, <2>3 DEF Announced
  <2>5. QED
    BY <1>2, <2>4 DEF AllAnnounced
<1>6. QED
  BY <1>4, <1>5 DEF ChildStep

\* A client takes the messages in their order, the last one last.
LEMMA ClientHeeds ==
  ASSUME TransferInv, PartyTypes, AllAnnounced, NEW c \in Clients, ClientStep(c)
  PROVE  AllAnnounced'
<1>1. Transfer(c) /\ Announced(c) /\ cliQ[c] \in Seq(Messages) /\ cliQ[c] # <<>>
  BY DEF TransferInv, TransferTypes, AllAnnounced, ClientStep, ClientFirst, ClientMore
<1>2. ASSUME NEW d \in Clients \ {c}
      PROVE  Announced(d)'
  <2>1. cpc'[d] = cpc[d] /\ child' = child /\ cliQ'[d] = cliQ[d] /\ Announced(d)
    BY DEF ClientStep, ClientFirst, ClientMore, ClientExit, PartyTypes, TransferInv,
       TransferTypes, AllAnnounced
  <2>2. QED
    BY <2>1 DEF Announced
<1>3. CASE cpc'[c] \in {"done", "failed"}
  BY <1>2, <1>3 DEF Announced, AllAnnounced
<1>4. CASE cpc'[c] \notin {"done", "failed"}
  <2>1. /\ Head(cliQ[c]) = Data /\ cliQ'[c] = Tail(cliQ[c]) /\ child' = child
        /\ cpc[c] \in {"first", "more"}
    <3>1. Head(cliQ[c]) \in Messages
      BY <1>1
    <3>2. ~ClientExit(c, "done") /\ ~ClientExit(c, "failed")
      BY <1>4 DEF ClientExit, PartyTypes
    <3>3. QED
      BY <3>1, <3>2, MessageKinds DEF ClientStep, ClientFirst, ClientMore, TransferInv,
         TransferTypes
  <2>2. /\ Len(Tail(cliQ[c])) = Len(cliQ[c]) - 1
        /\ Len(Tail(cliQ[c])) > 0 => Tail(cliQ[c])[Len(Tail(cliQ[c]))] = cliQ[c][Len(cliQ[c])]
    BY <1>1, <2>1, WaitingTail DEF Transfer, Ordered
  <2>3. Len(cliQ[c]) \in Nat /\ Head(cliQ[c]) = cliQ[c][1] /\ Len(cliQ[c]) > 0
    BY <1>1, EmptySeq
  <2>4. child[c] \notin {"none", "open"}
    BY <1>1 DEF Transfer, Untouched
  <2>5. Announced(c)'
    BY <1>1, <2>1, <2>2, <2>3, <2>4 DEF Announced
  <2>6. QED
    BY <1>2, <2>5 DEF AllAnnounced
<1>5. QED
  BY <1>3, <1>4

\* Nothing is sent or received: a child is forked, ends or is reaped, a client
\* comes, sends its request or goes.
LEMMA OthersHeed ==
  ASSUME AllAnnounced,
         \A c \in Clients :
           /\ \/ cliQ'[c] = cliQ[c]
              \/ cpc'[c] \notin {"first", "more"}
           /\ \/ child'[c] = child[c]
              \/ child[c] = "none" /\ child'[c] = "open"
              \/ child[c] \in {"_exit", "exit", "zombie"} /\ child'[c] \in {"zombie", "reaped"}
           /\ \/ cpc'[c] = cpc[c]
              \/ cpc'[c] \notin {"first", "more"}
              \/ cpc'[c] = "first" /\ child'[c] = "none"
  PROVE  AllAnnounced'
BY DEF AllAnnounced, Announced

\* What has been announced is one END for a file that is there.
LEMMA AnnouncedOnce ==
  ASSUME TransferInv, AllAnnounced
  PROVE  EndIsAnnounced
<1> SUFFICES ASSUME NEW c \in Clients, child[c] \in {"_exit", "zombie", "reaped"},
                    file[c] # Missing, cpc[c] \in {"first", "more"}
             PROVE  CountOf(cliQ[c], "END") = 1
  BY DEF EndIsAnnounced
<1> DEFINE q == cliQ[c]
<1>1. q \in Seq(Messages) /\ Ordered(c) /\ Announced(c)
  BY DEF TransferInv, TransferTypes, Transfer, AllAnnounced
<1>2. /\ Len(q) \in 1..Len(q) /\ q[Len(q)] \in Messages /\ q[Len(q)] \notin {Data, Failure}
      /\ \A k \in 1..Len(q) : q[k] # Data => k = Len(q)
  BY <1>1 DEF Announced, Ordered
<1>3. \A m \in Messages : m.mtype = "END" <=> m \notin {Data, Failure}
  BY DEF Messages, Data, Failure, End
<1>4. \A k \in 1..Len(q) : q[k] \in Messages
  BY <1>1
<1>5. {k \in 1..Len(q) : q[k].mtype = "END"} = {Len(q)}
  BY <1>2, <1>3, <1>4
<1>6. Cardinality({Len(q)}) = 1
  BY FS_Singleton
<1>7. QED
  BY <1>5, <1>6 DEF CountOf

\* In 46.4 that is so unless a child is interrupted or killed or its END refused.
LEMMA NextAnnounced ==
  ASSUME NeverSpinsInv, TransferInv, AllAnnounced, [Next]_vars,
         Faults \cap {"longEnd", "interrupt", "childKill"} = {}
  PROVE  AllAnnounced'
<1>0. PartyTypes /\ QueueInv /\ \A s \in Servers : srvQ[s] \in Seq(Clients)
  BY DEF NeverSpinsInv, Types, PartyTypes
<1>1. ASSUME UNCHANGED <<cliQ, cpc, child>>
      PROVE  AllAnnounced'
  BY <1>1, OthersHeed
<1>2. ASSUME NEW s \in Servers, ServerStep(s)
      PROVE  AllAnnounced'
  <2>1. CASE ServerReceive(s)
    <3>1. /\ Head(srvQ[s]) \in Clients /\ child[Head(srvQ[s])] = "none"
      <4>1. srvQ[s] \in Seq(Clients) /\ srvQ[s] # <<>>
        BY <1>0, <2>1 DEF ServerReceive
      <4>2. Head(srvQ[s]) = srvQ[s][1] /\ 1 \in 1..Len(srvQ[s]) /\ Head(srvQ[s]) \in Clients
        BY <4>1
      <4>3. QED
        BY <1>0, <4>2 DEF QueueInv
    <3>2. /\ UNCHANGED <<cliQ, cpc>>
          /\ child' = child \/ child' = [child EXCEPT ![Head(srvQ[s])] = "open"]
      BY <2>1 DEF ServerReceive
    <3>3. QED
      BY <1>0, <3>1, <3>2, OthersHeed DEF PartyTypes
  <2>2. CASE Reap(s)
    <3>1. /\ UNCHANGED <<cliQ, cpc>>
          /\ child' = child \/ \E c \in Zombies(s) : child' = [child EXCEPT ![c] = "reaped"]
      BY <2>2 DEF Reap
    <3>2. QED
      BY <1>0, <3>1, OthersHeed DEF PartyTypes, Zombies
  <2>3. CASE ServerLosesQueue(s) \/ ServerDeletesQueue(s) \/ ServerExit(s) \/ SigchldDelivered(s)
    BY <1>1, <2>3 DEF ServerLosesQueue, ServerDeletesQueue, ServerExit, SigchldDelivered,
       transferVars
  <2>4. QED
    BY <1>2, <2>1, <2>2, <2>3 DEF ServerStep
<1>3. ASSUME NEW c \in Clients, ChildExits(c) \/ ChildFails(c)
      PROVE  AllAnnounced'
  <2>1. /\ child[c] \in {"_exit", "exit"} /\ UNCHANGED <<cliQ, cpc>>
        /\ \E to \in {"zombie", "reaped"} : child' = [child EXCEPT ![c] = to]
    BY <1>3 DEF ChildExits, ChildFails, Dead
  <2>2. QED
    BY <1>0, <2>1, OthersHeed DEF PartyTypes
<1>4. ASSUME NEW c \in Clients, ClientOpen(c) \/ ClientKilled(c)
      PROVE  AllAnnounced'
  <2>1. /\ UNCHANGED <<cliQ, child>>
        /\ \E to \in {"failed", "send", "killed"} : cpc' = [cpc EXCEPT ![c] = to]
    BY <1>4 DEF ClientOpen, ClientKilled
  <2>2. QED
    BY <1>0, <2>1, OthersHeed DEF PartyTypes
<1>5. ASSUME NEW c \in Clients, ClientSend(c)
      PROVE  AllAnnounced'
  <2>1. child[c] = "none" /\ child' = child
    BY <1>0, <1>5 DEF ClientSend, QueueInv
  <2>2. \/ cpc' = [cpc EXCEPT ![c] = "first"] /\ cliQ' = cliQ
        \/ cpc' = [cpc EXCEPT ![c] = "failed"] /\ cliQ' = [cliQ EXCEPT ![c] = <<>>]
    BY <1>5 DEF ClientSend, ClientExit
  <2>3. QED
    BY <1>0, <2>1, <2>2, OthersHeed DEF PartyTypes, TransferInv, TransferTypes
<1>6. QED
  BY <1>0, <1>1, <1>2, <1>3, <1>4, <1>5, ChildAnnounces, ClientHeeds
  DEF Next, ServerStart, ServerInterrupted, ServerKilled, ChildInterrupted, ChildKilled,
      ChildProc, ClientProc, vars, transferVars

\* "Send a message of type RESP_MT_END to signify end-of-file" (46.4, line 83)
\* is kept, whatever else happens, unless msgsnd() refuses the END or the child is
\* interrupted or killed: of a child left alone, only the length of END fails.
THEOREM EndComes ==
  ASSUME Faults \cap {"longEnd", "interrupt", "childKill"} = {}
  PROVE  Spec => []EndIsAnnounced
<1>1. Init => AllAnnounced
  BY DEF Init, TransferInit, AllAnnounced, Announced
<1>2. NeverSpinsInv /\ TransferInv /\ AllAnnounced /\ [Next]_vars => AllAnnounced'
  BY NextAnnounced
<1>3. TransferInv /\ AllAnnounced => EndIsAnnounced
  BY AnnouncedOnce
<1>4. QED
  BY <1>1, <1>2, <1>3, InvariantsHold, PTL DEF Spec

-----------------------------------------------------------------------------
\* In 46.7 it is so unless a child is killed or its END refused.
LEMMA NextKeyAnnounced ==
  ASSUME KeyInv, TransferInv, AllAnnounced, [KeyNext]_keyVars,
         Faults \cap {"longEnd", "childKill"} = {}
  PROVE  AllAnnounced'
<1>0. PartyTypes /\ KeyRequests
  BY DEF KeyInv
<1>1. ASSUME UNCHANGED <<cliQ, cpc, child>>
      PROVE  AllAnnounced'
  BY <1>1, OthersHeed
<1>2. ASSUME NEW s \in KeyServers,
             KeyServerStarts(s) \/ KeyServerStep(s) \/ KeyServerKilled(s)
      PROVE  AllAnnounced'
  <2>1. CASE KeyServerReceives(s)
    <3>1. Head(keyQ) \in Clients /\ child[Head(keyQ)] = "none"
      BY <2>1, KeyFirstRequest DEF KeyServerReceives
    <3>2. /\ UNCHANGED <<cliQ, cpc>>
          /\ child' = child \/ child' = [child EXCEPT ![Head(keyQ)] = "open"]
      BY <2>1 DEF KeyServerReceives
    <3>3. QED
      BY <1>0, <3>1, <3>2, OthersHeed DEF PartyTypes
  <2>2. CASE KeyServerReaps(s)
    <3>1. PICK c \in Clients : child[c] = "zombie" /\ child' = [child EXCEPT ![c] = "reaped"]
      BY <2>2 DEF KeyServerReaps
    <3>2. UNCHANGED <<cliQ, cpc>>
      BY <2>2 DEF KeyServerReaps
    <3>3. QED
      BY <1>0, <3>1, <3>2, OthersHeed DEF PartyTypes
  <2>3. CASE UNCHANGED transferVars
    BY <1>1, <2>3 DEF transferVars
  <2>4. QED
    BY <1>2, <2>1, <2>2, <2>3 DEF KeyServerStarts, KeyServerStep, KeyServerCreates,
       KeyServerFindsOld, KeyServerRemovesOld, KeyServerLosesQueue, KeyServerEnds,
       KeyServerKilled
<1>3. ASSUME NEW c \in Clients, KeyChildExits(c)
      PROVE  AllAnnounced'
  <2>1. /\ child[c] \in {"_exit", "exit"} /\ UNCHANGED <<cliQ, cpc>>
        /\ \E to \in {"zombie", "reaped"} : child' = [child EXCEPT ![c] = to]
    BY <1>3 DEF KeyChildExits, KeyChildDies
  <2>2. QED
    BY <1>0, <2>1, OthersHeed DEF PartyTypes
<1>4. ASSUME NEW c \in Clients, KeyClientOpens(c)
      PROVE  AllAnnounced'
  <2>1. /\ UNCHANGED <<cliQ, child>>
        /\ \E to \in {"failed", "send"} : cpc' = [cpc EXCEPT ![c] = to]
    BY <1>4 DEF KeyClientOpens
  <2>2. QED
    BY <1>0, <2>1, OthersHeed DEF PartyTypes
<1>5. ASSUME NEW c \in Clients, KeyClientSends(c)
      PROVE  AllAnnounced'
  <2>1. child[c] = "none" /\ child' = child
    BY <1>0, <1>5 DEF KeyClientSends, KeyRequests
  <2>2. \/ cpc' = [cpc EXCEPT ![c] = "first"] /\ cliQ' = cliQ
        \/ cpc' = [cpc EXCEPT ![c] = "failed"] /\ cliQ' = [cliQ EXCEPT ![c] = <<>>]
    BY <1>5 DEF KeyClientSends, ClientExit
  <2>3. QED
    BY <1>0, <2>1, <2>2, OthersHeed DEF PartyTypes, TransferInv, TransferTypes
<1>6. QED
  BY <1>0, <1>1, <1>2, <1>3, <1>4, <1>5, ChildAnnounces, ClientHeeds
  DEF KeyNext, KeyClientStep, KeyChildStep, KeyChildKilled, keyVars, transferVars

-----------------------------------------------------------------------------
(* Whom a client of 46.7 waits for.                                        *)

Queued(c) == \E k \in 1..Len(keyQ) : keyQ[k] = c

\* The key names the queue of a server that is still in or behind its loop, or was
\* killed there, and that queue holds the requests meant for it.
KeyNames ==
  /\ keyed # NoServer => ksrv[keyed] \in {"loop", "break", "killed"}
  /\ keyed = NoServer => keyQ = <<>>
  /\ \A k \in 1..Len(keyQ) : keyPeer[keyQ[k]] = keyed

\* A request goes to a server that has had a queue and never gets another; it
\* waits there unless it is taken or the server is gone or about to go.
KeySent ==
  /\ keyPeer \in [Clients -> KeyServers \cup {NoServer}]
  /\ \A c \in Clients : cpc[c] \in {"send", "first"} =>
       /\ keyPeer[c] \in KeyServers
       /\ ksrv[keyPeer[c]] \in {"loop", "break", "exited", "killed"}
  /\ \A c \in Clients : cpc[c] = "first" /\ child[c] = "none" /\ keyed = keyPeer[c] =>
       ksrv[keyed] \in {"break", "killed"} \/ Queued(c)

\* Nobody has found any queue.
LEMMA InitSent == KeyInit => KeyNames /\ KeySent
<1> SUFFICES ASSUME KeyInit PROVE KeyNames /\ KeySent
  OBVIOUS
<1>1. Len(<<>>) = 0
  OBVIOUS
<1>2. QED
  BY <1>1 DEF KeyInit, TransferInit, KeyNames, KeySent

\* A step of one transfer leaves a request that is not answered where it is.
LEMMA SentRests ==
  ASSUME KeyNames, KeySent, UNCHANGED <<keyed, keyQ, keyPeer>>,
         \A s \in KeyServers : ksrv'[s] = ksrv[s],
         keyed \in KeyServers \cup {NoServer},
         \A c \in Clients :
           /\ cpc'[c] = cpc[c] \/ cpc'[c] \notin {"send", "first"}
           /\ child'[c] = child[c] \/ child'[c] # "none"
  PROVE  KeyNames' /\ KeySent'
<1>1. KeyNames'
  BY DEF KeyNames
<1>2. KeySent'
  BY DEF KeySent, Queued
<1>3. QED
  BY <1>1, <1>2

\* So does every step of a server: it takes requests in their order, and leaves
\* those behind only whose queue is removed or which it cannot serve.
LEMMA ServerSent ==
  ASSUME KeyInv, KeyNames, KeySent, NEW s \in KeyServers,
         KeyServerStarts(s) \/ KeyServerStep(s) \/ KeyServerKilled(s)
  PROVE  KeyNames' /\ KeySent'
<1>0. /\ ksrv \in [KeyServers -> {"off", "create", "exists", "remove", "loop", "break", "exited",
                                 "killed"}]
      /\ keyed \in KeyServers \cup {NoServer} /\ keyQ \in Seq(Clients)
      /\ child \in [Clients -> {"none", "open", "read", "send", "end", "_exit", "exit",
                                "zombie", "reaped"}]
  BY DEF KeyInv, KeyTypes, PartyTypes
<1>e. Len(<<>>) = 0 /\ NoServer \notin KeyServers
  BY KeyAssumption
<1>1. CASE KeyServerStarts(s)
  BY <1>0, <1>1 DEF KeyServerStarts, transferVars, KeyNames, KeySent, Queued
<1>2. CASE KeyServerCreates(s)
  BY <1>0, <1>2, <1>e DEF KeyServerCreates, transferVars, KeyNames, KeySent, Queued
<1>3. CASE KeyServerFindsOld(s)
  BY <1>0, <1>3 DEF KeyServerFindsOld, transferVars, KeyNames, KeySent, Queued
<1>4. CASE KeyServerRemovesOld(s)
  BY <1>0, <1>4, <1>e DEF KeyServerRemovesOld, RemoveKeyed, transferVars, KeyNames, KeySent, Queued
<1>5. CASE KeyServerLosesQueue(s)
  BY <1>0, <1>5 DEF KeyServerLosesQueue, transferVars, KeyNames, KeySent, Queued
<1>6. CASE KeyServerEnds(s)
  <2>1. ksrv' = [ksrv EXCEPT ![s] = "exited"] /\ UNCHANGED <<cpc, child, keyPeer>>
    BY <1>6 DEF KeyServerEnds, transferVars
  <2>2. CASE keyed = s /\ keyed' = NoServer /\ keyQ' = <<>>
    BY <1>0, <1>e, <2>1, <2>2 DEF KeyNames, KeySent
  <2>3. CASE keyed # s /\ UNCHANGED <<keyed, keyQ>>
    <3>1. KeyNames'
      BY <1>0, <2>1, <2>3 DEF KeyNames
    <3>2. KeySent'
      BY <1>0, <2>1, <2>3 DEF KeySent, Queued
    <3>3. QED
      BY <3>1, <3>2
  <2>4. QED
    BY <1>6, <2>2, <2>3 DEF KeyServerEnds, RemoveKeyed
<1>7. CASE KeyServerReaps(s)
  <2>1. PICK c \in Clients : child[c] = "zombie" /\ child' = [child EXCEPT ![c] = "reaped"]
    BY <1>7 DEF KeyServerReaps
  <2>2. UNCHANGED <<cpc, ksrv, keyed, keyQ, keyPeer>>
    BY <1>7 DEF KeyServerReaps
  <2>3. QED
    BY <1>0, <2>1, <2>2, SentRests
<1>8. CASE KeyServerReceives(s)
  <2> DEFINE c == Head(keyQ)
             q == Tail(keyQ)
  <2>1. /\ keyed = s /\ ksrv[s] = "loop" /\ keyQ # <<>> /\ keyQ' = q
        /\ \/ child' = [child EXCEPT ![c] = "open"] /\ ksrv' = ksrv
           \/ child' = child /\ ksrv' = [ksrv EXCEPT ![s] = "break"]
        /\ UNCHANGED <<cpc, keyed, keyPeer>>
    BY <1>8 DEF KeyServerReceives
  <2>2. /\ c \in Clients
        /\ \A k \in 1..Len(q) : k + 1 \in 1..Len(keyQ) /\ q[k] = keyQ[k + 1]
    BY <2>1, KeyFirstRequest
  <2>3. /\ c = keyQ[1] /\ Len(q) = Len(keyQ) - 1 /\ Len(keyQ) \in Nat
        /\ \A k \in 1..Len(keyQ) : k # 1 => k - 1 \in 1..Len(q) /\ q[k - 1] = keyQ[k]
    BY <1>0, <2>1, <2>2
  <2> HIDE DEF c, q
  <2>4. ASSUME NEW d \in Clients \ {c}, Queued(d)
        PROVE  \E k \in 1..Len(q) : q[k] = d
    <3>1. PICK k \in 1..Len(keyQ) : keyQ[k] = d
      BY <2>4 DEF Queued
    <3>2. k # 1
      BY <2>3, <3>1
    <3>3. QED
      BY <2>3, <3>1, <3>2
  <2>5. KeyNames'
    BY <1>0, <1>e, <2>1, <2>2 DEF KeyNames
  <2>6. CASE child' = [child EXCEPT ![c] = "open"] /\ ksrv' = ksrv
    BY <1>0, <2>1, <2>2, <2>4, <2>5, <2>6 DEF KeySent, Queued
  <2>7. CASE child' = child /\ ksrv' = [ksrv EXCEPT ![s] = "break"]
    BY <1>0, <2>1, <2>5, <2>7 DEF KeySent
  <2>8. QED
    BY <2>1, <2>6, <2>7
<1>9. CASE KeyServerKilled(s)
  BY <1>0, <1>9 DEF KeyServerKilled, transferVars, KeyNames, KeySent, Queued
<1>10. QED
  BY <1>1, <1>2, <1>3, <1>4, <1>5, <1>6, <1>7, <1>8, <1>9 DEF KeyServerStep

\* And every other step.
LEMMA NextSent ==
  ASSUME KeyInv, TransferInv, KeyNames, KeySent, [KeyNext]_keyVars
  PROVE  KeyNames' /\ KeySent'
<1>0. /\ PartyTypes /\ keyed \in KeyServers \cup {NoServer} /\ keyQ \in Seq(Clients)
      /\ KeyRequests
  BY DEF KeyInv, KeyTypes
<1>1. ASSUME NEW c \in Clients, KeyClientOpens(c)
      PROVE  KeyNames' /\ KeySent'
  <2>1. /\ cpc[c] = "open" /\ keyPeer' = [keyPeer EXCEPT ![c] = keyed]
        /\ UNCHANGED <<child, ksrv, keyed, keyQ>>
        /\ \/ keyed = NoServer /\ cpc' = [cpc EXCEPT ![c] = "failed"]
           \/ keyed # NoServer /\ cpc' = [cpc EXCEPT ![c] = "send"]
    BY <1>1 DEF KeyClientOpens
  <2>2. \A k \in 1..Len(keyQ) : keyQ[k] \in Clients \ {c}
    BY <1>0, <2>1 DEF KeyRequests
  <2>3. KeyNames'
    BY <2>1, <2>2 DEF KeyNames, KeySent
  <2>4. KeySent'
    BY <1>0, <2>1 DEF KeySent, KeyNames, PartyTypes, Queued
  <2>5. QED
    BY <2>3, <2>4
<1>2. ASSUME NEW c \in Clients, KeyClientSends(c)
      PROVE  KeyNames' /\ KeySent'
  <2>1. /\ cpc[c] = "send" /\ UNCHANGED <<child, ksrv, keyed, keyPeer>>
        /\ \/ /\ keyPeer[c] = keyed /\ keyQ' = Append(keyQ, c)
              /\ cpc' = [cpc EXCEPT ![c] = "first"]
           \/ keyQ' = keyQ /\ cpc' = [cpc EXCEPT ![c] = "failed"]
    BY <1>2 DEF KeyClientSends, ClientExit
  <2>2. CASE keyQ' = keyQ /\ cpc' = [cpc EXCEPT ![c] = "failed"]
    BY <1>0, <2>1, <2>2, SentRests DEF PartyTypes
  <2>3. CASE /\ keyPeer[c] = keyed /\ keyQ' = Append(keyQ, c)
             /\ cpc' = [cpc EXCEPT ![c] = "first"]
    <3>1. /\ Len(keyQ') = Len(keyQ) + 1 /\ keyQ'[Len(keyQ) + 1] = c /\ Len(keyQ) \in Nat
          /\ \A k \in 1..Len(keyQ) : keyQ'[k] = keyQ[k]
      BY <1>0, <2>3
    <3>2. \A k \in 1..Len(keyQ') : k \in 1..Len(keyQ) \/ k = Len(keyQ) + 1
      BY <3>1
    <3>3. Queued(c)' /\ \A d \in Clients : Queued(d) => Queued(d)'
      BY <3>1 DEF Queued
    <3>4. keyed # NoServer
      BY <2>1, <2>3, KeyAssumption DEF KeySent
    <3>5. KeyNames'
      BY <2>1, <2>3, <3>1, <3>2, <3>4 DEF KeyNames
    <3>6. KeySent'
      <4>1. \A d \in Clients \ {c} : cpc'[d] = cpc[d]
        BY <1>0, <2>3 DEF PartyTypes
      <4>2. \A d \in Clients : cpc'[d] \in {"send", "first"} => cpc[d] \in {"send", "first"}
        BY <2>1, <4>1
      <4>3. QED
        BY <2>1, <3>3, <4>1, <4>2 DEF KeySent
    <3>7. QED
      BY <3>5, <3>6
  <2>4. QED
    BY <2>1, <2>2, <2>3
<1>3. ASSUME NEW c \in Clients, ClientStep(c), UNCHANGED keyServerVars
      PROVE  KeyNames' /\ KeySent'
  <2>1. /\ child' = child /\ UNCHANGED <<ksrv, keyed, keyQ, keyPeer>>
        /\ cpc' = cpc \/ \E to \in {"more", "done", "failed"} : cpc' = [cpc EXCEPT ![c] = to]
    BY <1>3 DEF ClientStep, ClientFirst, ClientMore, ClientExit, keyServerVars
  <2>2. QED
    BY <1>0, <2>1, SentRests DEF PartyTypes
<1>4. ASSUME NEW c \in Clients, KeyChildStep(c) \/ KeyChildKilled(c)
      PROVE  KeyNames' /\ KeySent'
  <2>1. /\ cpc' = cpc /\ UNCHANGED <<ksrv, keyed, keyQ, keyPeer>>
        /\ \E to \in {"read", "send", "end", "_exit", "exit", "zombie", "reaped"} :
             child' = [child EXCEPT ![c] = to]
    BY <1>4 DEF KeyChildStep, KeyChildExits, KeyChildKilled, KeyChildDies, ChildStep,
       ChildOpenFails, ChildOpens, ChildReads, ChildSends, ChildEnds, keyServerVars
  <2>2. QED
    BY <1>0, <2>1, SentRests DEF PartyTypes
<1>5. CASE UNCHANGED keyVars
  BY <1>0, <1>5, SentRests DEF keyVars, transferVars, keyServerVars
<1>6. QED
  BY <1>1, <1>2, <1>3, <1>4, <1>5, ServerSent DEF KeyNext, KeyClientStep

\* A client of 46.7 whose queue is empty waits for a child that works for it, or
\* for one that a server in its loop has yet to fork, unless the server leaves its
\* loop or is killed, or the queue with the request has been removed (lines 66-68).
NobodyIsForgotten ==
  \A c \in Clients : cpc[c] \in {"first", "more"} /\ cliQ[c] = <<>> =>
    \/ child[c] \in {"open", "read", "send", "end"}
    \/ /\ cpc[c] = "first" /\ child[c] = "none"
       /\ \/ keyed # keyPeer[c]
          \/ ksrv[keyed] \in {"break", "killed"}
          \/ ksrv[keyed] = "loop" /\ Queued(c)

\* The safety half of KeyClientServedOrOrphaned: as long as no END is refused and
\* no child killed, the only clients left alone are those whose request lost its
\* queue or its server, wherever the servers of 46.7 are killed.
THEOREM KeyClientIsNotForgotten ==
  ASSUME Faults \cap {"longEnd", "childKill"} = {}
  PROVE  KeySpec => []NobodyIsForgotten
<1>1. KeyInit => KeyInv /\ TransferInv /\ AllAnnounced /\ KeyNames /\ KeySent
  BY InitKey, InitTransfer, InitSent DEF KeyInit, TransferInit, AllAnnounced, Announced
<1>2. KeyInv /\ TransferInv /\ AllAnnounced /\ KeyNames /\ KeySent /\ [KeyNext]_keyVars =>
        KeyInv' /\ TransferInv' /\ AllAnnounced' /\ KeyNames' /\ KeySent'
  BY NextKey, NextKeyTransfer, NextKeyAnnounced, NextSent
<1>3. KeyInv /\ TransferInv /\ AllAnnounced /\ KeyNames /\ KeySent => NobodyIsForgotten
  <2>1. SUFFICES ASSUME KeyInv, AllAnnounced, KeyNames, KeySent, NEW c \in Clients,
                        cpc[c] \in {"first", "more"}, cliQ[c] = <<>>,
                        child[c] \notin {"open", "read", "send", "end"}
                 PROVE  /\ cpc[c] = "first" /\ child[c] = "none"
                        /\ \/ keyed # keyPeer[c]
                           \/ ksrv[keyed] \in {"break", "killed"}
                           \/ ksrv[keyed] = "loop" /\ Queued(c)
    BY DEF NobodyIsForgotten
  <2>2. Announced(c) /\ Len(<<>>) = 0
    BY <2>1 DEF AllAnnounced
  <2>3. child[c] \notin {"_exit", "exit", "zombie", "reaped"}
    BY <2>1, <2>2 DEF Announced
  <2>4. child[c] = "none"
    BY <2>1, <2>3 DEF KeyInv, PartyTypes
  <2>5. cpc[c] = "first"
    BY <2>1, <2>2, <2>4 DEF Announced
  <2>6. keyPeer[c] \in KeyServers
    BY <2>1, <2>5 DEF KeySent
  <2>7. keyed = keyPeer[c] => ksrv[keyed] \in {"loop", "break", "killed"}
    BY <2>1, <2>6, KeyAssumption DEF KeyNames
  <2>8. QED
    BY <2>1, <2>4, <2>5, <2>7 DEF KeySent
<1>4. QED
  BY <1>1, <1>2, <1>3, PTL DEF KeySpec

-----------------------------------------------------------------------------
(* The ranges of the variables.                                            *)

\* What the ranges of the transfer say beyond TransferTypes.
Bounds ==
  /\ cliAlive \subseteq Clients /\ cut \subseteq Clients
  /\ left \in [Clients -> 0..MaxBlocks]

\* A client opens or removes its queue and no more than that.
LEMMA QueueBounds ==
  ASSUME Bounds, NEW c \in Clients, UNCHANGED <<left, cut>>,
         cliAlive' \in {cliAlive, cliAlive \cup {c}, cliAlive \ {c}}
  PROVE  Bounds'
BY DEF Bounds

\* A child never has more blocks to read than its file has.
LEMMA TransferBounds ==
  ASSUME TransferTypes, Bounds, NEW c \in Clients,
         ChildStep(c) \/ ClientStep(c) \/ ClientKilled(c)
  PROVE  Bounds'
<1>1. CASE ChildOpens(c)
  <2>1. file[c] \in 0..MaxBlocks
    BY <1>1, TransferAssumption DEF ChildOpens, TransferTypes
  <2>2. left' = [left EXCEPT ![c] = file[c]] /\ UNCHANGED <<cliAlive, cut>>
    BY <1>1 DEF ChildOpens
  <2>3. QED
    BY <2>1, <2>2 DEF Bounds
<1>2. CASE ChildReads(c)
  <2>1. left' = left \/ (left[c] > 0 /\ left' = [left EXCEPT ![c] = left[c] - 1])
    BY <1>2 DEF ChildReads
  <2>2. left[c] \in 0..MaxBlocks
    BY DEF Bounds
  <2>3. left[c] > 0 => left[c] - 1 \in 0..MaxBlocks
    BY <2>2, TransferAssumption
  <2>4. cliAlive' = cliAlive /\ (cut' = cut \/ cut' = cut \cup {c})
    BY <1>2 DEF ChildReads
  <2>5. QED
    BY <2>1, <2>3, <2>4 DEF Bounds
<1>3. CASE ChildOpenFails(c) \/ ChildSends(c) \/ ChildEnds(c) \/ ClientKilled(c)
  <2>1. UNCHANGED <<cliAlive, left, cut>>
    BY <1>3 DEF ChildOpenFails, ChildSends, ChildEnds, ClientKilled
  <2>2. QED
    BY <2>1 DEF Bounds
<1>4. CASE ClientStep(c)
  <2>1. UNCHANGED <<left, cut>> /\ cliAlive' \in {cliAlive, cliAlive \ {c}}
    BY <1>4 DEF ClientStep, ClientFirst, ClientMore, ClientExit
  <2>2. QED
    BY <2>1, QueueBounds
<1>5. QED
  BY <1>1, <1>2, <1>3, <1>4 DEF ChildStep

\* The ranges of the transfer are kept by every step of the programs of 46.4.
LEMMA NextBounds ==
  ASSUME TransferTypes, Bounds, [Next]_vars
  PROVE  Bounds'
<1>1. CASE UNCHANGED <<cliAlive, left, cut>>
  BY <1>1 DEF Bounds
<1>2. ASSUME NEW c \in Clients, ClientOpen(c) \/ ClientSend(c) PROVE Bounds'
  <2>1. UNCHANGED <<left, cut>>
    BY <1>2 DEF ClientOpen, ClientSend
  <2>2. cliAlive' \in {cliAlive, cliAlive \cup {c}, cliAlive \ {c}}
    BY <1>2 DEF ClientOpen, ClientSend, ClientExit
  <2>3. QED
    BY <2>1, <2>2, QueueBounds
<1>3. ASSUME NEW s \in Servers,
             ServerStart(s) \/ ServerStep(s) \/ ServerInterrupted(s) \/ ServerKilled(s)
      PROVE  UNCHANGED <<cliAlive, left, cut>>
  BY <1>3 DEF ServerStart, ServerStep, ServerInterrupted, ServerKilled, ServerReceive,
     ServerLosesQueue, ServerDeletesQueue, ServerExit, SigchldDelivered, Reap, transferVars
<1>4. ASSUME NEW c \in Clients, \/ ChildExits(c) \/ ChildFails(c)
                                \/ ChildInterrupted(c) \/ ChildKilled(c)
      PROVE  UNCHANGED <<cliAlive, left, cut>>
  BY <1>4 DEF ChildExits, ChildFails, ChildInterrupted, ChildKilled
<1>5. CASE UNCHANGED vars
  BY <1>1, <1>5 DEF vars, transferVars
<1>6. QED
  BY <1>1, <1>2, <1>3, <1>4, <1>5, TransferBounds DEF Next, ChildProc, ClientProc

PendingTypes == pending \subseteq Servers

Working == {"read", "send", "end"}

\* A child that works reads a file that is there, and has no more left to read
\* than the file holds.
ReadsWithinFile ==
  \A c \in Clients : child[c] \in Working => file[c] # Missing /\ left[c] <= file[c]

\* A step after which no child works that did not work before.
LEMMA ReadsRest ==
  ASSUME ReadsWithinFile, UNCHANGED <<file, left>>,
         \A c \in Clients : child'[c] \in Working => child[c] \in Working
  PROVE  ReadsWithinFile'
BY DEF ReadsWithinFile

\* open() leaves the whole file to be read, and every read() takes from that.
LEMMA ChildReadsWithin ==
  ASSUME PartyTypes, TransferTypes, ReadsWithinFile, NEW c \in Clients, ChildStep(c)
  PROVE  ReadsWithinFile'
<1>1. /\ child[c] \in {"open", "read", "send", "end"} /\ UNCHANGED file
      /\ \E to \in {"read", "send", "end", "_exit", "exit"} : child' = [child EXCEPT ![c] = to]
  BY DEF ChildStep, ChildOpenFails, ChildOpens, ChildReads, ChildSends, ChildEnds
<1>2. \A d \in Clients \ {c} : child'[d] = child[d]
  BY <1>1 DEF PartyTypes
<1>3. CASE ChildOpens(c)
  <2>1. file[c] # Missing /\ left' = [left EXCEPT ![c] = file[c]]
    BY <1>3 DEF ChildOpens
  <2>2. file[c] \in Nat
    BY <2>1, FileSize
  <2>3. left'[c] = file[c] /\ \A d \in Clients \ {c} : left'[d] = left[d]
    BY <2>1 DEF TransferTypes
  <2>4. QED
    BY <1>1, <1>2, <2>1, <2>2, <2>3 DEF ReadsWithinFile
<1>4. CASE ChildReads(c)
  <2>1. child[c] = "read" /\ (left' = left \/ left' = [left EXCEPT ![c] = left[c] - 1])
    BY <1>4 DEF ChildReads
  <2>2. file[c] # Missing /\ left[c] <= file[c]
    BY <2>1 DEF ReadsWithinFile, Working
  <2>3. file[c] \in Nat /\ left[c] \in Nat
    BY <2>2, FileSize DEF TransferTypes
  <2>4. left'[c] <= file[c] /\ \A d \in Clients \ {c} : left'[d] = left[d]
    BY <2>1, <2>2, <2>3 DEF TransferTypes
  <2>5. QED
    BY <1>1, <1>2, <2>2, <2>4 DEF ReadsWithinFile
<1>5. CASE ChildSends(c) \/ ChildEnds(c)
  <2>1. child[c] \in Working /\ left' = left
    BY <1>5 DEF ChildSends, ChildEnds, Working
  <2>2. QED
    BY <1>1, <1>2, <2>1, ReadsRest
<1>6. CASE ChildOpenFails(c)
  <2>1. child' = [child EXCEPT ![c] = "exit"] /\ left' = left
    BY <1>6 DEF ChildOpenFails
  <2>2. child'[c] = "exit"
    BY <2>1 DEF PartyTypes
  <2>3. QED
    BY <1>1, <1>2, <2>1, <2>2, ReadsRest DEF Working
<1>7. QED
  BY <1>3, <1>4, <1>5, <1>6 DEF ChildStep

\* So it is in every step of 46.4: what a child reads is its own affair.
LEMMA NextReads ==
  ASSUME Types, TransferTypes, ReadsWithinFile, [Next]_vars
  PROVE  ReadsWithinFile'
<1>0. PartyTypes
  BY DEF Types, PartyTypes
<1>1. ASSUME UNCHANGED <<file, left, child>> PROVE ReadsWithinFile'
  BY <1>1, ReadsRest
<1>2. ASSUME NEW s \in Servers, ServerStep(s) PROVE ReadsWithinFile'
  <2>1. /\ UNCHANGED <<file, left>>
        /\ \/ child' = child
           \/ \E d \in {Head(srvQ[s])} \cup Zombies(s), to \in {"open", "reaped"} :
                child' = [child EXCEPT ![d] = to]
    BY <1>2 DEF ServerStep, ServerReceive, ServerLosesQueue, ServerDeletesQueue, ServerExit,
       SigchldDelivered, Reap, transferVars
  <2>2. QED
    BY <1>0, <2>1, ReadsRest DEF PartyTypes, Working
<1>3. ASSUME NEW c \in Clients, \/ ChildExits(c) \/ ChildFails(c)
                                \/ ChildInterrupted(c) \/ ChildKilled(c)
      PROVE  ReadsWithinFile'
  <2>1. /\ UNCHANGED <<file, left>>
        /\ \E to \in {"zombie", "reaped"} : child' = [child EXCEPT ![c] = to]
    BY <1>3 DEF ChildExits, ChildFails, ChildInterrupted, ChildKilled, Dead
  <2>2. QED
    BY <1>0, <2>1, ReadsRest DEF PartyTypes, Working
<1>4. ASSUME NEW c \in Clients,
             ClientOpen(c) \/ ClientSend(c) \/ ClientStep(c) \/ ClientKilled(c)
      PROVE  ReadsWithinFile'
  BY <1>1, <1>4 DEF ClientOpen, ClientSend, ClientStep, ClientFirst, ClientMore, ClientKilled
<1>5. QED
  BY <1>0, <1>1, <1>2, <1>3, <1>4, ChildReadsWithin
  DEF Next, ServerStart, ServerInterrupted, ServerKilled, ChildProc, ClientProc, vars,
      transferVars

\* A SIGCHLD is sent to the server that forked the child.
LEMMA NextPending ==
  ASSUME OwnerInv, PendingTypes, [Next]_vars
  PROVE  PendingTypes'
<1> USE DEF PendingTypes
<1>1. ASSUME NEW c \in Clients, \/ ChildExits(c) \/ ChildFails(c)
                                \/ ChildInterrupted(c) \/ ChildKilled(c)
      PROVE  pending' \subseteq Servers
  <2>1. child[c] # "none" /\ Dead(c)
    BY <1>1 DEF ChildExits, ChildFails, ChildInterrupted, ChildKilled
  <2>2. owner[c] \in Servers /\ pending' \in {pending, pending \cup {owner[c]}}
    BY <2>1 DEF Dead, OwnerInv
  <2>3. QED
    BY <2>2
<1>2. ASSUME NEW s \in Servers, ServerStep(s) PROVE pending' \subseteq Servers
  BY <1>2 DEF ServerStep, ServerReceive, ServerLosesQueue, ServerDeletesQueue, ServerExit,
     SigchldDelivered, Reap
<1>3. CASE UNCHANGED pending
  BY <1>3
<1>4. QED
  BY <1>1, <1>2, <1>3 DEF Next, ServerStart, ServerInterrupted, ServerKilled, ChildProc,
     ClientProc, ClientOpen, ClientSend, serverVars, vars

\* The ranges of the transfer, in the words of SvmsgTransfer.
LEMMA RangesOfTheTransfer == PartyTypes /\ TransferTypes /\ Bounds => TransferTypeOK
BY DEF PartyTypes, TransferTypes, Bounds, TransferTypeOK

\* A pending SIGCHLD of a server is owed a child of that server to reap.
PendingHasZombie == \A s \in pending : Zombies(s) # {}

\* Every variable of 46.4 keeps its range, for any number of servers and clients
\* and whatever is interrupted, killed, or fails.  What the ranges do not say: a
\* child only reads a file that is there and never has more left to read than it
\* holds, and a SIGCHLD is pending only for a server with a zombie of its own.
THEOREM ServerTypeCorrect == Spec => [](TypeOK /\ ReadsWithinFile /\ PendingHasZombie)
<1>1. Init => Bounds /\ PendingTypes /\ ReadsWithinFile
  BY TransferAssumption DEF Init, TransferInit, Bounds, PendingTypes, ReadsWithinFile, Working
<1>2. NeverSpinsInv /\ TransferInv /\ Bounds /\ PendingTypes /\ ReadsWithinFile /\ [Next]_vars
        => Bounds' /\ PendingTypes' /\ ReadsWithinFile'
  BY NextBounds, NextPending, NextReads DEF NeverSpinsInv, TransferInv
<1>3. NeverSpinsInv /\ PendingTypes => PendingHasZombie
  BY DEF NeverSpinsInv, ZombieInv, PendingTypes, PendingHasZombie
<1>4. NeverSpinsInv /\ TransferInv /\ Bounds /\ PendingTypes => TypeOK
  <2> SUFFICES ASSUME NeverSpinsInv, TransferInv, Bounds, PendingTypes
               PROVE  TypeOK
    OBVIOUS
  <2>1. TransferTypeOK
    BY RangesOfTheTransfer DEF NeverSpinsInv, Types, TransferInv, PartyTypes
  <2>2. QED
    BY <2>1 DEF NeverSpinsInv, Types, PendingTypes, TypeOK
<1>5. QED
  BY <1>1, <1>2, <1>3, <1>4, InvariantsHold, PTL DEF Spec

\* The ranges of the transfer are kept by the programs of 46.7 as well.
LEMMA NextKeyBounds ==
  ASSUME TransferTypes, Bounds, [KeyNext]_keyVars
  PROVE  Bounds'
<1>1. CASE UNCHANGED <<cliAlive, left, cut>>
  BY <1>1 DEF Bounds
<1>2. ASSUME NEW c \in Clients, KeyClientOpens(c) \/ KeyClientSends(c) PROVE Bounds'
  <2>1. UNCHANGED <<left, cut>>
    BY <1>2 DEF KeyClientOpens, KeyClientSends
  <2>2. cliAlive' \in {cliAlive, cliAlive \cup {c}, cliAlive \ {c}}
    BY <1>2 DEF KeyClientOpens, KeyClientSends, ClientExit
  <2>3. QED
    BY <2>1, <2>2, QueueBounds
<1>3. ASSUME NEW s \in KeyServers,
             KeyServerStarts(s) \/ KeyServerStep(s) \/ KeyServerKilled(s)
      PROVE  UNCHANGED <<cliAlive, left, cut>>
  BY <1>3 DEF KeyServerStarts, KeyServerStep, KeyServerCreates, KeyServerFindsOld,
     KeyServerRemovesOld, KeyServerReceives, KeyServerLosesQueue, KeyServerEnds,
     KeyServerReaps, KeyServerKilled, transferVars
<1>4. ASSUME NEW c \in Clients, KeyChildExits(c) \/ KeyChildKilled(c)
      PROVE  UNCHANGED <<cliAlive, left, cut>>
  BY <1>4 DEF KeyChildExits, KeyChildKilled, KeyChildDies
<1>5. CASE UNCHANGED keyVars
  BY <1>1, <1>5 DEF keyVars, transferVars
<1>6. QED
  BY <1>1, <1>2, <1>3, <1>4, <1>5, TransferBounds DEF KeyNext, KeyClientStep, KeyChildStep

\* In 46.7 the parties of a transfer keep their ranges too, although a client
\* decides on its file only when it starts.
THEOREM KeyTypeCorrect == KeySpec => []TransferTypeOK
<1>1. KeyInit => KeyInv /\ TransferInv /\ Bounds
  <2>1. KeyInit => Bounds
    BY TransferAssumption DEF KeyInit, TransferInit, Bounds
  <2>2. QED
    BY <2>1, InitKey, InitTransfer DEF KeyInit
<1>2. KeyInv /\ TransferInv /\ Bounds /\ [KeyNext]_keyVars => KeyInv' /\ TransferInv' /\ Bounds'
  BY NextKey, NextKeyTransfer, NextKeyBounds DEF TransferInv
<1>3. KeyInv /\ TransferInv /\ Bounds => TransferTypeOK
  BY RangesOfTheTransfer DEF KeyInv, TransferInv
<1>4. QED
  BY <1>1, <1>2, <1>3, PTL DEF KeySpec
=============================================================================
