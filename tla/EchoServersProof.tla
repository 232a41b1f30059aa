-------------------------- MODULE EchoServersProof --------------------------
(***************************************************************************)
(* Proofs about the socket servers, for any number of clients, messages    *)
(* and children, and whatever fails:                                       *)
(*   - every request is in one place and is answered at most once;         *)
(*   - a child of signalServer() finds a request in its socket;            *)
(*   - 60.4 and 61.5 have a SIGCHLD pending for every zombie.              *)
(***************************************************************************)
EXTENDS EchoServers, FiniteSetTheorems, TLAPS

\* The types the argument needs.
EchoTypes ==
  /\ kind \in Mux \cup PerConnection
  /\ srv \in {"setup", "loop", "busy", "down"}
  /\ tcpQ \in Seq(Clients) /\ udpQ \in Seq(Clients)
  /\ accepting \in Nat /\ recving \in Nat /\ zombies \in Nat
  /\ serving \in [Clients -> {"none", "read", "write", "closed"}]
  /\ byMain \subseteq Clients
  /\ cpc \in [Clients -> {"start", "write", "read", "done", "failed", "killed"}]
  /\ inbox \in [Clients -> Nat] /\ outbox \in [Clients -> Nat]
  /\ sent \in [Clients -> Nat] /\ replied \in [Clients -> Nat]

\* A client waits in the sockets at most once, before any process serves it.
Lines ==
  /\ \A c \in Clients : cpc[c] = "start" => serving[c] = "none"
  /\ \A k \in 1..Len(tcpQ) : serving[tcpQ[k]] = "none" /\ cpc[tcpQ[k]] # "start"
  /\ \A j, k \in 1..Len(tcpQ) : tcpQ[j] = tcpQ[k] => j = k
  /\ \A k \in 1..Len(udpQ) : cpc[udpQ[k]] # "start"
  /\ \A j, k \in 1..Len(udpQ) : udpQ[j] = udpQ[k] => j = k

\* Where main takes the requests itself it has no children in accept() or
\* recvfrom(), and what was reported readable still is.
Alone ==
  /\ kind \notin {"poll", "signal"} => accepting = 0 /\ recving = 0
  /\ kind \in {"select", "epoll"} =>
       ("tcp" \in ready => Len(tcpQ) > 0) /\ ("udp" \in ready => Len(udpQ) > 0)

\* The children a pending signal will start.
Pending(s) == IF s \in sig THEN 1 ELSE 0

\* A child of signalServer(), or a signal that will start one, has a request.
Signals ==
  kind = "signal" =>
    /\ accepting + Pending("USR1") <= Len(tcpQ)
    /\ recving + Pending("USR2") <= Len(udpQ)

\* The clients with a datagram in the socket.
Datagrams == {udpQ[k] : k \in 1..Len(udpQ)}

\* Where the requests of c are.
Total(c) ==
  replied[c] + inbox[c] + outbox[c]
    + (IF serving[c] = "write" THEN 1 ELSE 0) + (IF c \in Datagrams THEN 1 ELSE 0)

\* Each of them is somewhere, unless its datagram was lost.
Account(c) == Total(c) <= sent[c] /\ (mishap # "drop" => Total(c) = sent[c])

EchoInv ==
  EchoTypes /\ Lines /\ Alone /\ Signals /\ ZombiesAreAnnounced /\ \A c \in Clients : Account(c)

-----------------------------------------------------------------------------
(* Lines of clients.                                                       *)

\* A client that goes to the end of a line it is not in.
LEMMA JoinsLine ==
  ASSUME NEW q \in Seq(Clients), NEW c \in Clients, \A k \in 1..Len(q) : q[k] # c,
         \A j, k \in 1..Len(q) : q[j] = q[k] => j = k
  PROVE  /\ Append(q, c) \in Seq(Clients) /\ Len(Append(q, c)) = Len(q) + 1
         /\ \A k \in 1..Len(Append(q, c)) :
              \/ Append(q, c)[k] = c
              \/ k \in 1..Len(q) /\ Append(q, c)[k] = q[k]
         /\ \A j, k \in 1..Len(Append(q, c)) : Append(q, c)[j] = Append(q, c)[k] => j = k
         /\ {Append(q, c)[k] : k \in 1..Len(Append(q, c))} = {q[k] : k \in 1..Len(q)} \cup {c}
<1> DEFINE r == Append(q, c)
<1>1. /\ Len(q) \in Nat /\ r \in Seq(Clients) /\ Len(r) = Len(q) + 1 /\ r[Len(q) + 1] = c
      /\ \A k \in 1..Len(q) : r[k] = q[k]
  OBVIOUS
<1> HIDE DEF r
<1>2. 1..Len(r) = 1..Len(q) \cup {Len(q) + 1}
  BY <1>1
<1>3. \A k \in 1..Len(r) : r[k] = c \/ (k \in 1..Len(q) /\ r[k] = q[k])
  BY <1>1, <1>2
<1>4. \A j, k \in 1..Len(r) : r[j] = r[k] => j = k
  BY <1>1, <1>2
<1>5. {r[k] : k \in 1..Len(r)} = {q[k] : k \in 1..Len(q)} \cup {c}
  BY <1>1, <1>2
<1>6. QED
  BY <1>1, <1>3, <1>4, <1>5 DEF r

\* The client at the head of a line leaves it.
LEMMA LeavesLine ==
  ASSUME NEW q \in Seq(Clients), Len(q) > 0, \A j, k \in 1..Len(q) : q[j] = q[k] => j = k
  PROVE  /\ Head(q) \in Clients /\ 1 \in 1..Len(q) /\ q[1] = Head(q)
         /\ Tail(q) \in Seq(Clients) /\ Len(Tail(q)) = Len(q) - 1
         /\ \A k \in 1..Len(Tail(q)) :
              k + 1 \in 1..Len(q) /\ Tail(q)[k] = q[k + 1] /\ Tail(q)[k] # Head(q)
         /\ \A j, k \in 1..Len(Tail(q)) : Tail(q)[j] = Tail(q)[k] => j = k
         /\ {Tail(q)[k] : k \in 1..Len(Tail(q))} = {q[k] : k \in 1..Len(q)} \ {Head(q)}
<1> DEFINE t == Tail(q)
<1>1. /\ Len(q) \in Nat /\ q # <<>> /\ t \in Seq(Clients) /\ Len(t) = Len(q) - 1
      /\ Head(q) = q[1] /\ \A k \in 1..Len(t) : t[k] = q[k + 1]
  OBVIOUS
<1>2. 1 \in 1..Len(q) /\ Head(q) \in Clients
  BY <1>1
<1> HIDE DEF t
<1>3. \A k \in 1..Len(t) : k + 1 \in 1..Len(q)
  BY <1>1
<1>4. \A k \in 1..Len(t) : t[k] # Head(q)
  BY <1>1, <1>2, <1>3
<1>5. \A j, k \in 1..Len(t) : t[j] = t[k] => j = k
  BY <1>1, <1>3
<1>6. ASSUME NEW k \in 1..Len(q), k # 1
      PROVE  k - 1 \in 1..Len(t) /\ t[k - 1] = q[k]
  <2>1. k - 1 \in 1..Len(t) /\ (k - 1) + 1 = k
    BY <1>1, <1>6
  <2>2. t[k - 1] = q[(k - 1) + 1]
    BY <1>1, <2>1
  <2>3. QED
    BY <2>1, <2>2
<1>7. {t[k] : k \in 1..Len(t)} = {q[k] : k \in 1..Len(q)} \ {Head(q)}
  <2>1. ASSUME NEW k \in 1..Len(t)
        PROVE  t[k] \in {q[l] : l \in 1..Len(q)} \ {Head(q)}
    BY <1>1, <1>3, <1>4
  <2>2. ASSUME NEW k \in 1..Len(q), q[k] # Head(q)
        PROVE  q[k] \in {t[l] : l \in 1..Len(t)}
    <3>1. k # 1
      BY <1>1, <2>2
    <3>2. k - 1 \in 1..Len(t) /\ t[k - 1] = q[k]
      BY <1>6, <3>1
    <3>3. QED
      BY <3>2
  <2>3. QED
    BY <2>1, <2>2
<1>8. QED
  BY <1>1, <1>2, <1>3, <1>4, <1>5, <1>7 DEF t

\* Counted by position, a client has one datagram in the socket, or none.
LEMMA CountDatagrams ==
  ASSUME EchoTypes, Lines, NEW c \in Clients
  PROVE  Cardinality({k \in 1..Len(udpQ) : udpQ[k] = c}) = IF c \in Datagrams THEN 1 ELSE 0
<1> DEFINE S == {k \in 1..Len(udpQ) : udpQ[k] = c}
<1>1. CASE c \in Datagrams
  <2>1. PICK k \in 1..Len(udpQ) : udpQ[k] = c
    BY <1>1 DEF Datagrams
  <2>2. S = {k}
    BY <2>1 DEF Lines
  <2>3. QED
    BY <1>1, <2>2, FS_Singleton
<1>2. CASE c \notin Datagrams
  <2>1. S = {}
    BY <1>2 DEF Datagrams
  <2>2. QED
    BY <1>2, <2>1, FS_EmptySet
<1>3. QED
  BY <1>1, <1>2

\* The properties follow.
LEMMA EchoProperties == EchoInv => EachRequestOnce /\ ZombiesAreAnnounced
<1> SUFFICES ASSUME EchoInv PROVE EachRequestOnce /\ ZombiesAreAnnounced
  OBVIOUS
<1>1. ASSUME NEW c \in Clients
      PROVE  /\ replied[c] + UnderWay(c) <= sent[c]
             /\ mishap # "drop" => replied[c] + UnderWay(c) = sent[c]
  <2>1. Account(c) /\ EchoTypes
    BY DEF EchoInv
  <2>2. Cardinality({k \in 1..Len(udpQ) : udpQ[k] = c}) = IF c \in Datagrams THEN 1 ELSE 0
    BY CountDatagrams DEF EchoInv
  <2>3. replied[c] + UnderWay(c) = Total(c)
    BY <2>1, <2>2 DEF UnderWay, Total, EchoTypes
  <2>4. QED
    BY <2>1, <2>3 DEF Account
<1>2. kind = "signal" => accepting <= Len(tcpQ) /\ recving <= Len(udpQ)
  <2>1. /\ Len(tcpQ) \in Nat /\ Len(udpQ) \in Nat /\ accepting \in Nat /\ recving \in Nat
        /\ Pending("USR1") \in Nat /\ Pending("USR2") \in Nat
    BY DEF EchoInv, EchoTypes, Pending
  <2>2. QED
    BY <2>1 DEF EchoInv, Signals
<1>3. QED
  BY <1>1, <1>2 DEF EachRequestOnce, EchoInv

\* Nothing has happened at first.
LEMMA InitEcho == Init => EchoInv
<1> SUFFICES ASSUME Init PROVE EchoInv
  OBVIOUS
<1> USE DEF Init
<1>1. <<>> \in Seq(Clients) /\ Len(<<>>) = 0
  OBVIOUS
<1>2. EchoTypes
  BY <1>1, EchoAssumption DEF EchoTypes
<1>3. Lines /\ Alone /\ Signals /\ ZombiesAreAnnounced
  BY <1>1 DEF Lines, Alone, Signals, Pending, ZombiesAreAnnounced
<1>4. Datagrams = {}
  BY <1>1 DEF Datagrams
<1>5. \A c \in Clients : Account(c)
  BY <1>4 DEF Account, Total
<1>6. QED
  BY <1>2, <1>3, <1>5 DEF EchoInv

-----------------------------------------------------------------------------
(* Steps that move no request.                                             *)

\* The lines and accounts stay when only processes and signals change.
LEMMA NoRequestMoves ==
  ASSUME EchoInv, UNCHANGED <<mishap, tcpQ, udpQ, serving, inbox, outbox, sent, replied>>,
         \A c \in Clients : cpc'[c] = "start" <=> cpc[c] = "start"
  PROVE  Lines' /\ \A c \in Clients : Account(c)'
<1>1. \A k \in 1..Len(tcpQ) : tcpQ[k] \in Clients
  BY DEF EchoInv, EchoTypes
<1>2. \A k \in 1..Len(udpQ) : udpQ[k] \in Clients
  BY DEF EchoInv, EchoTypes
<1>3. Lines'
  BY <1>1, <1>2 DEF EchoInv, Lines
<1>4. Datagrams' = Datagrams
  BY DEF Datagrams
<1>5. \A c \in Clients : Account(c)'
  BY <1>4 DEF EchoInv, Account, Total
<1>6. QED
  BY <1>3, <1>5

\* Main waits, forks and reaps.
LEMMA MainKeeps ==
  ASSUME EchoInv,
         MainOwns \/ MainWaits \/ PollForks \/ SignalForks \/ MainReapsOne \/ MainReaps
  PROVE  EchoInv'
<1> USE DEF given, mainVars, kidVars, connVars, cliVars
<1>1. EchoTypes /\ Alone /\ Signals /\ ZombiesAreAnnounced
  BY DEF EchoInv
<1>2. Lines' /\ \A c \in Clients : Account(c)'
  <2>1. UNCHANGED <<mishap, tcpQ, udpQ, serving, inbox, outbox, sent, replied, cpc>>
    BY DEF MainOwns, MainWaits, PollForks, SignalForks, MainReapsOne, MainReaps
  <2>2. QED
    BY <2>1, NoRequestMoves
<1>3. CASE MainOwns
  BY <1>1, <1>2, <1>3 DEF MainOwns, EchoInv, EchoTypes, Alone, Signals, Pending, ZombiesAreAnnounced
<1>4. CASE MainWaits
  <2>1. Alone'
    BY <1>1, <1>4 DEF MainWaits, Alone, EchoTypes
  <2>2. QED
    BY <1>1, <1>2, <1>4, <2>1 DEF MainWaits, EchoInv, EchoTypes, Signals, Pending, ZombiesAreAnnounced
<1>5. CASE PollForks
  <2>1. accepting' \in Nat /\ recving' \in Nat
    BY <1>1, <1>5 DEF PollForks, More, EchoTypes
  <2>2. QED
    BY <1>1, <1>2, <1>5, <2>1
    DEF PollForks, EchoInv, EchoTypes, Alone, Signals, Pending, ZombiesAreAnnounced
<1>6. CASE SignalForks
  <2>1. PICK s \in sig \cap {"USR1", "USR2"} :
          /\ sig' = sig \ {s}
          /\ \/ /\ IF s = "USR1" THEN accepting' = accepting + 1 /\ UNCHANGED recving
                                 ELSE recving' = recving + 1 /\ UNCHANGED accepting
                /\ UNCHANGED srv
             \/ srv' = "down" /\ UNCHANGED <<accepting, recving>>
    BY <1>6 DEF SignalForks
  <2>2. kind = "signal" /\ UNCHANGED <<kind, tcpQ, udpQ, ready, zombies>>
    BY <1>6 DEF SignalForks
  <2>3. EchoTypes'
    BY <1>1, <1>6, <2>1 DEF SignalForks, EchoTypes
  <2>4. Alone' /\ ZombiesAreAnnounced'
    BY <2>2 DEF Alone, ZombiesAreAnnounced, PerConnection
  <2>5. Signals'
    <3>1. /\ Len(tcpQ) \in Nat /\ Len(udpQ) \in Nat /\ accepting \in Nat /\ recving \in Nat
          /\ Pending("USR1") \in Nat /\ Pending("USR2") \in Nat
          /\ Pending("USR1")' \in Nat /\ Pending("USR2")' \in Nat
      BY <1>1 DEF EchoTypes, Pending
    <3>2. /\ accepting' + Pending("USR1")' <= accepting + Pending("USR1")
          /\ recving' + Pending("USR2")' <= recving + Pending("USR2")
          /\ accepting' \in Nat /\ recving' \in Nat
      BY <2>1, <3>1 DEF Pending
    <3>3. /\ accepting + Pending("USR1") <= Len(tcpQ)
          /\ recving + Pending("USR2") <= Len(udpQ)
      BY <1>1, <2>2 DEF Signals
    <3>4. /\ accepting' + Pending("USR1")' <= Len(tcpQ)
          /\ recving' + Pending("USR2")' <= Len(udpQ)
      BY <3>1, <3>2, <3>3
    <3>5. QED
      BY <2>2, <3>4 DEF Signals
  <2>6. QED
    BY <1>2, <2>3, <2>4, <2>5 DEF EchoInv
<1>7. CASE MainReapsOne
  <2>1. zombies' \in Nat
    BY <1>1, <1>7 DEF MainReapsOne, EchoTypes
  <2>2. EchoTypes' /\ Alone' /\ Signals'
    BY <1>1, <1>7, <2>1 DEF MainReapsOne, EchoTypes, Alone, Signals, Pending
  <2>3. ZombiesAreAnnounced'
    BY <1>7 DEF MainReapsOne, ZombiesAreAnnounced, PerConnection
  <2>4. QED
    BY <1>2, <2>2, <2>3 DEF EchoInv
<1>8. CASE MainReaps
  <2>1. zombies' = 0 /\ ("USR1" \in sig' <=> "USR1" \in sig) /\ ("USR2" \in sig' <=> "USR2" \in sig)
    BY <1>8 DEF MainReaps
  <2>2. QED
    BY <1>1, <1>2, <1>8, <2>1
    DEF MainReaps, EchoInv, EchoTypes, Alone, Signals, Pending, ZombiesAreAnnounced
<1>9. QED
  BY <1>3, <1>4, <1>5, <1>6, <1>7, <1>8

\* A client that fails or is killed, and a system that stutters.
LEMMA QuietKeeps ==
  ASSUME EchoInv, UNCHANGED vars \/ \E c \in Clients : ClientFails(c) \/ ClientKilled(c)
  PROVE  EchoInv'
<1> USE DEF given, mainVars, kidVars, connVars
<1>1. EchoTypes /\ Alone /\ Signals /\ ZombiesAreAnnounced
  BY DEF EchoInv
<1>2. /\ UNCHANGED <<given, mainVars, tcpQ, udpQ, kidVars, connVars, sent, replied, inbox, outbox>>
      /\ cpc' \in [Clients -> {"start", "write", "read", "done", "failed", "killed"}]
      /\ \A c \in Clients : cpc'[c] = "start" <=> cpc[c] = "start"
  <2>1. CASE UNCHANGED vars
    BY <1>1, <2>1 DEF vars, cliVars, EchoTypes
  <2>2. ASSUME NEW c \in Clients, ClientFails(c) \/ ClientKilled(c)
        PROVE  /\ UNCHANGED <<given, mainVars, tcpQ, udpQ, kidVars, connVars, sent, replied, inbox, outbox>>
               /\ cpc' \in [Clients -> {"start", "write", "read", "done", "failed", "killed"}]
               /\ \A d \in Clients : cpc'[d] = "start" <=> cpc[d] = "start"
    <3>1. PICK to \in {"failed", "killed"} :
            cpc[c] # "start" /\ cpc' = [cpc EXCEPT ![c] = to]
      BY <2>2 DEF ClientFails, ClientKilled
    <3>2. QED
      BY <1>1, <2>2, <3>1 DEF ClientFails, ClientKilled, EchoTypes
  <2>3. QED
    BY <2>1, <2>2
<1>3. Lines' /\ \A c \in Clients : Account(c)'
  BY <1>2, NoRequestMoves
<1>4. EchoTypes'
  BY <1>1, <1>2 DEF EchoTypes
<1>5. Alone' /\ Signals' /\ ZombiesAreAnnounced'
  BY <1>1, <1>2 DEF Alone, Signals, Pending, ZombiesAreAnnounced
<1>6. QED
  BY <1>3, <1>4, <1>5 DEF EchoInv


-----------------------------------------------------------------------------
(* Requests that move.                                                     *)

\* A client's account after a step that is about other clients.
LEMMA OthersAccount ==
  ASSUME NEW c \in Clients, Account(c), mishap' = mishap, sent'[c] = sent[c],
         Total(c)' = Total(c)
  PROVE  Account(c)'
BY DEF Account

\* Main or a child takes the connection at the head of the TCP socket.
LEMMA TakesConnection ==
  ASSUME EchoInv, MainAccepts \/ KidAccepts \/ MainForks
  PROVE  EchoInv'
<1> USE DEF given, mainVars, kidVars, connVars, cliVars
<1>1. EchoTypes /\ Lines /\ Alone /\ Signals /\ ZombiesAreAnnounced
  BY DEF EchoInv
<1>2. Len(tcpQ) > 0 /\ Len(tcpQ) \in Nat /\ tcpQ \in Seq(Clients)
  <2>1. \A q \in Seq(Clients) : q # <<>> => Len(q) > 0
    OBVIOUS
  <2>2. QED
    BY <1>1, <2>1 DEF MainAccepts, KidAccepts, MainForks, Alone, EchoTypes
<1>3. PICK c \in Clients : c = Head(tcpQ)
  BY <1>2, LeavesLine
<1>4. /\ tcpQ' \in Seq(Clients) /\ Len(tcpQ') = Len(tcpQ) - 1 /\ 1 \in 1..Len(tcpQ) /\ tcpQ[1] = c
      /\ \A k \in 1..Len(tcpQ') : k + 1 \in 1..Len(tcpQ) /\ tcpQ'[k] = tcpQ[k + 1] /\ tcpQ'[k] # c
      /\ \A j, k \in 1..Len(tcpQ') : tcpQ'[j] = tcpQ'[k] => j = k
  <2>1. tcpQ' = Tail(tcpQ)
    BY DEF MainAccepts, KidAccepts, MainForks
  <2>2. \A j, k \in 1..Len(tcpQ) : tcpQ[j] = tcpQ[k] => j = k
    BY <1>1 DEF Lines
  <2>3. QED
    BY <1>2, <1>3, <2>1, <2>2, LeavesLine
<1>5. PICK to \in {"read", "closed"} : serving' = [serving EXCEPT ![c] = to]
  BY <1>3 DEF MainAccepts, KidAccepts, MainForks
<1>6. UNCHANGED <<kind, mishap, udpQ, recving, zombies, sig, cpc, inbox, outbox, sent, replied>>
  BY DEF MainAccepts, KidAccepts, MainForks
<1>7. /\ serving[c] = "none" /\ cpc[c] # "start"
      /\ serving' \in [Clients -> {"none", "read", "write", "closed"}]
      /\ serving'[c] # "write" /\ \A d \in Clients \ {c} : serving'[d] = serving[d]
  BY <1>1, <1>4, <1>5 DEF EchoTypes, Lines
<1>8. /\ accepting' \in Nat /\ byMain' \subseteq Clients
      /\ srv' \in {"setup", "loop", "busy", "down"}
  <2>1. byMain \subseteq Clients /\ accepting \in Nat /\ srv \in {"setup", "loop", "busy", "down"}
    BY <1>1 DEF EchoTypes
  <2>2. CASE MainAccepts
    BY <1>3, <2>1, <2>2 DEF MainAccepts
  <2>3. CASE KidAccepts
    BY <2>1, <2>3 DEF KidAccepts
  <2>4. CASE MainForks
    BY <2>1, <2>4 DEF MainForks
  <2>5. QED
    BY <2>2, <2>3, <2>4
<1>9. EchoTypes'
  BY <1>1, <1>4, <1>6, <1>7, <1>8 DEF EchoTypes
<1>10. Lines'
  <2>1. \A k \in 1..Len(tcpQ') : serving'[tcpQ'[k]] = "none" /\ cpc'[tcpQ'[k]] # "start"
    <3>1. \A k \in 1..Len(tcpQ') : tcpQ'[k] \in Clients
      BY <1>4
    <3>2. ASSUME NEW k \in 1..Len(tcpQ')
          PROVE  serving'[tcpQ'[k]] = "none" /\ cpc'[tcpQ'[k]] # "start"
      <4>1. k + 1 \in 1..Len(tcpQ) /\ tcpQ'[k] = tcpQ[k + 1] /\ tcpQ'[k] \in Clients \ {c}
        BY <1>4, <3>1, <3>2
      <4>2. serving[tcpQ[k + 1]] = "none" /\ cpc[tcpQ[k + 1]] # "start"
        BY <1>1, <4>1 DEF Lines
      <4>3. QED
        BY <1>6, <1>7, <4>1, <4>2
    <3>3. QED
      BY <3>2
  <2>2. \A d \in Clients : cpc'[d] = "start" => serving'[d] = "none"
    BY <1>1, <1>6, <1>7 DEF Lines
  <2>3. QED
    BY <1>1, <1>4, <1>6, <2>1, <2>2 DEF Lines
<1>11. Alone'
  <2>1. CASE MainAccepts
    BY <1>1, <2>1 DEF MainAccepts, Alone, Rest
  <2>2. CASE KidAccepts
    BY <1>1, <1>6, <2>2 DEF KidAccepts, Alone, EchoTypes
  <2>3. CASE MainForks
    BY <1>1, <2>3 DEF MainForks, Alone, PerConnection
  <2>4. QED
    BY <2>1, <2>2, <2>3
<1>12. Signals'
  <2>1. CASE KidAccepts
    <3>1. accepting' = accepting - 1 /\ accepting \in Nat
      BY <1>1, <2>1 DEF KidAccepts, EchoTypes
    <3>2. /\ Pending("USR1") \in Nat /\ Pending("USR1")' = Pending("USR1")
          /\ Pending("USR2")' = Pending("USR2")
      BY <1>6 DEF Pending
    <3>3. kind = "signal" => accepting' + Pending("USR1") <= Len(tcpQ')
      BY <1>1, <1>2, <1>4, <3>1, <3>2 DEF Signals
    <3>4. QED
      BY <1>1, <1>6, <3>2, <3>3 DEF Signals
  <2>2. CASE MainAccepts \/ MainForks
    <3>1. kind' # "signal"
      BY <1>6, <2>2 DEF MainAccepts, MainForks, PerConnection
    <3>2. QED
      BY <3>1 DEF Signals
  <2>3. QED
    BY <2>1, <2>2
<1>13. ZombiesAreAnnounced'
  BY <1>1, <1>6 DEF ZombiesAreAnnounced
<1>14. ASSUME NEW d \in Clients PROVE Account(d)'
  <2>1. Total(d)' = Total(d)
    BY <1>6, <1>7 DEF Total, Datagrams
  <2>2. QED
    BY <1>6, <2>1, OthersAccount DEF EchoInv
<1>15. QED
  BY <1>9, <1>10, <1>11, <1>12, <1>13, <1>14 DEF EchoInv

\* Main or a child answers the datagram at the head of the UDP socket.
LEMMA TakesDatagram ==
  ASSUME EchoInv, MainReceives \/ KidReceives
  PROVE  EchoInv'
<1> USE DEF given, mainVars, kidVars, connVars, cliVars
<1>1. EchoTypes /\ Lines /\ Alone /\ Signals /\ ZombiesAreAnnounced
  BY DEF EchoInv
<1>2. Len(udpQ) > 0 /\ Len(udpQ) \in Nat /\ udpQ \in Seq(Clients)
  <2>1. \A q \in Seq(Clients) : q # <<>> => Len(q) > 0
    OBVIOUS
  <2>2. QED
    BY <1>1, <2>1 DEF MainReceives, KidReceives, Alone, EchoTypes
<1>3. PICK c \in Clients : c = Head(udpQ)
  BY <1>2, LeavesLine
<1>4. /\ udpQ' \in Seq(Clients) /\ Len(udpQ') = Len(udpQ) - 1 /\ 1 \in 1..Len(udpQ) /\ udpQ[1] = c
      /\ \A k \in 1..Len(udpQ') : k + 1 \in 1..Len(udpQ) /\ udpQ'[k] = udpQ[k + 1]
      /\ \A j, k \in 1..Len(udpQ') : udpQ'[j] = udpQ'[k] => j = k
      /\ Datagrams' = Datagrams \ {c} /\ c \in Datagrams
  <2>1. udpQ' = Tail(udpQ)
    BY DEF MainReceives, KidReceives
  <2>2. \A j, k \in 1..Len(udpQ) : udpQ[j] = udpQ[k] => j = k
    BY <1>1 DEF Lines
  <2>3. /\ udpQ' \in Seq(Clients) /\ Len(udpQ') = Len(udpQ) - 1 /\ 1 \in 1..Len(udpQ) /\ udpQ[1] = c
        /\ \A k \in 1..Len(udpQ') : k + 1 \in 1..Len(udpQ) /\ udpQ'[k] = udpQ[k + 1]
        /\ \A j, k \in 1..Len(udpQ') : udpQ'[j] = udpQ'[k] => j = k
    BY <1>2, <1>3, <2>1, <2>2, LeavesLine
  <2>4. {Tail(udpQ)[k] : k \in 1..Len(Tail(udpQ))} = {udpQ[k] : k \in 1..Len(udpQ)} \ {Head(udpQ)}
    BY <1>2, <2>2, LeavesLine
  <2>5. Datagrams' = Datagrams \ {c}
    BY <1>3, <2>1, <2>4 DEF Datagrams
  <2>6. c \in Datagrams
    BY <2>3 DEF Datagrams
  <2>7. QED
    BY <2>3, <2>5, <2>6
<1>5. UNCHANGED <<kind, mishap, srv, tcpQ, accepting, serving, byMain, cpc, inbox, sent, replied>>
  BY DEF MainReceives, KidReceives
<1>6. outbox' = [outbox EXCEPT ![c] = @ + 1]
  BY <1>3 DEF MainReceives, KidReceives
<1>7. /\ recving' \in Nat /\ zombies' \in Nat
      /\ sig' = sig \/ sig' = sig \cup {"CHLD"}
  <2>1. CASE MainReceives
    BY <1>1, <2>1 DEF MainReceives, EchoTypes
  <2>2. CASE KidReceives
    <3>1. recving' = recving - 1 /\ recving > 0 /\ zombies' = zombies + 1
      BY <2>2 DEF KidReceives, Ends
    <3>2. sig' = sig \/ sig' = sig \cup {"CHLD"}
      BY <2>2 DEF KidReceives, Ends
    <3>3. QED
      BY <1>1, <3>1, <3>2 DEF EchoTypes
  <2>3. QED
    BY <2>1, <2>2
<1>8. EchoTypes'
  <2>1. outbox' \in [Clients -> Nat]
    BY <1>1, <1>6 DEF EchoTypes
  <2>2. QED
    BY <1>1, <1>4, <1>5, <1>7, <2>1 DEF EchoTypes
<1>9. Lines'
  <2>1. \A k \in 1..Len(udpQ') : cpc'[udpQ'[k]] # "start"
    BY <1>1, <1>4, <1>5 DEF Lines
  <2>2. QED
    BY <1>1, <1>4, <1>5, <2>1 DEF Lines
<1>10. Alone'
  <2>1. CASE MainReceives
    BY <1>1, <2>1 DEF MainReceives, Alone, Rest
  <2>2. CASE KidReceives
    <3>1. recving > 0 /\ recving \in Nat
      BY <1>1, <2>2 DEF KidReceives, EchoTypes
    <3>2. kind \in {"poll", "signal"}
      BY <1>1, <3>1 DEF Alone
    <3>3. QED
      BY <1>5, <3>2 DEF Alone
  <2>3. QED
    BY <2>1, <2>2
<1>11. Signals'
  <2>1. CASE KidReceives
    <3>1. recving' = recving - 1 /\ recving \in Nat
      BY <1>1, <2>1 DEF KidReceives, EchoTypes
    <3>2. /\ Pending("USR2") \in Nat /\ Pending("USR2")' = Pending("USR2")
          /\ Pending("USR1")' = Pending("USR1")
      BY <1>7 DEF Pending
    <3>3. kind = "signal" => recving' + Pending("USR2") <= Len(udpQ')
      BY <1>1, <1>2, <1>4, <3>1, <3>2 DEF Signals
    <3>4. QED
      BY <1>1, <1>5, <3>2, <3>3 DEF Signals
  <2>2. CASE MainReceives
    <3>1. kind' # "signal"
      BY <1>5, <2>2 DEF MainReceives
    <3>2. QED
      BY <3>1 DEF Signals
  <2>3. QED
    BY <2>1, <2>2
<1>12. ZombiesAreAnnounced'
  BY <1>1 DEF MainReceives, KidReceives, Ends, ZombiesAreAnnounced
<1>13. ASSUME NEW d \in Clients PROVE Account(d)'
  <2>1. /\ outbox'[d] = IF d = c THEN outbox[d] + 1 ELSE outbox[d]
        /\ outbox[d] \in Nat /\ inbox[d] \in Nat /\ replied[d] \in Nat
    BY <1>1, <1>6 DEF EchoTypes
  <2>2. Total(d)' = Total(d)
    <3>1. CASE d = c
      <4>1. d \in Datagrams /\ d \notin Datagrams' /\ outbox'[d] = outbox[d] + 1
        BY <1>4, <2>1, <3>1
      <4>2. QED
        BY <1>5, <2>1, <4>1 DEF Total
    <3>2. CASE d # c
      <4>1. (d \in Datagrams' <=> d \in Datagrams) /\ outbox'[d] = outbox[d]
        BY <1>4, <2>1, <3>2
      <4>2. QED
        BY <1>5, <4>1 DEF Total
    <3>3. QED
      BY <3>1, <3>2
  <2>3. QED
    BY <1>5, <2>2, OthersAccount DEF EchoInv
<1>14. QED
  BY <1>8, <1>9, <1>10, <1>11, <1>12, <1>13 DEF EchoInv

\* The process that has accepted c's connection reads, writes, or leaves it.
LEMMA ServeKeeps ==
  ASSUME EchoInv, NEW c \in Clients, Serve(c)
  PROVE  EchoInv'
<1> USE DEF given, mainVars, kidVars, connVars, cliVars
<1>1. EchoTypes /\ Lines /\ Alone /\ Signals /\ ZombiesAreAnnounced
  BY DEF EchoInv
<1>2. /\ UNCHANGED <<kind, mishap, ready, tcpQ, udpQ, accepting, recving, byMain>>
      /\ UNCHANGED <<cpc, sent, replied>>
      /\ serving[c] \in {"read", "write"}
  BY DEF Serve, ServerReads, ServerWrites
\* What becomes of the process and of main.
<1>3. /\ \E to \in {"read", "write", "closed"} : serving' = [serving EXCEPT ![c] = to]
      /\ srv' \in {"setup", "loop", "busy", "down"}
      /\ (zombies' = zombies /\ sig' = sig) \/ Ends(1)
  <2>1. CASE Leaves(c)
    BY <1>1, <2>1 DEF Leaves, EchoTypes
  <2>2. CASE ~Leaves(c)
    BY <1>1, <2>2 DEF Serve, ServerReads, ServerWrites, EchoTypes
  <2>3. QED
    BY <2>1, <2>2
<1>4. /\ serving' \in [Clients -> {"none", "read", "write", "closed"}]
      /\ serving[c] # "none" /\ serving'[c] # "none"
      /\ \A d \in Clients \ {c} : serving'[d] = serving[d]
  BY <1>1, <1>2, <1>3 DEF EchoTypes
\* What becomes of the request.
<1>5. /\ inbox' \in [Clients -> Nat] /\ outbox' \in [Clients -> Nat]
      /\ \A d \in Clients \ {c} : inbox'[d] = inbox[d] /\ outbox'[d] = outbox[d]
      /\ \/ /\ inbox'[c] = inbox[c] /\ outbox'[c] = outbox[c]
            /\ serving[c] # "write" /\ serving'[c] # "write"
         \/ /\ inbox'[c] = inbox[c] - 1 /\ outbox'[c] = outbox[c]
            /\ serving[c] # "write" /\ serving'[c] = "write"
         \/ /\ inbox'[c] = inbox[c] /\ outbox'[c] = outbox[c] + 1
            /\ serving[c] = "write" /\ serving'[c] # "write"
  <2>1. CASE ServerReads(c) /\ inbox[c] > 0 /\ inbox' = [inbox EXCEPT ![c] = @ - 1]
    <3>1. outbox' = outbox /\ serving[c] = "read"
      BY <2>1 DEF ServerReads
    <3>2. serving' = [serving EXCEPT ![c] = "write"]
      <4>1. inbox'[c] # inbox[c]
        BY <1>1, <2>1 DEF EchoTypes
      <4>2. QED
        BY <2>1, <4>1 DEF ServerReads
    <3>3. QED
      BY <1>1, <2>1, <3>1, <3>2 DEF EchoTypes
  <2>2. CASE ServerReads(c) /\ Leaves(c) /\ inbox' = inbox
    BY <1>1, <2>2 DEF ServerReads, Leaves, EchoTypes
  <2>3. CASE ServerWrites(c)
    <3>1. /\ serving[c] = "write" /\ inbox' = inbox /\ outbox' = [outbox EXCEPT ![c] = @ + 1]
          /\ \E to \in {"read", "closed"} : serving' = [serving EXCEPT ![c] = to]
      BY <2>3 DEF ServerWrites, Leaves
    <3>2. QED
      BY <1>1, <3>1 DEF EchoTypes
  <2>4. QED
    BY <2>1, <2>2, <2>3 DEF Serve, ServerReads
<1>6. zombies' \in Nat
  BY <1>1, <1>3 DEF EchoTypes, Ends
<1>7. EchoTypes'
  BY <1>1, <1>2, <1>3, <1>4, <1>5, <1>6 DEF EchoTypes
<1>8. Lines'
  <2>1. \A k \in 1..Len(tcpQ) : tcpQ[k] \in Clients
    BY <1>1 DEF EchoTypes
  <2>2. \A k \in 1..Len(tcpQ') : serving'[tcpQ'[k]] = "none" /\ cpc'[tcpQ'[k]] # "start"
    BY <1>1, <1>2, <1>4, <2>1 DEF Lines
  <2>3. \A d \in Clients : cpc'[d] = "start" => serving'[d] = "none"
    BY <1>1, <1>2, <1>4 DEF Lines
  <2>4. QED
    BY <1>1, <1>2, <2>2, <2>3 DEF Lines
<1>9. Alone'
  BY <1>1, <1>2 DEF Alone
<1>10. Signals'
  <2>1. sig' = sig \/ sig' = sig \cup {"CHLD"}
    BY <1>3 DEF Ends
  <2>2. Pending("USR1")' = Pending("USR1") /\ Pending("USR2")' = Pending("USR2")
    BY <2>1 DEF Pending
  <2>3. QED
    BY <1>1, <1>2, <2>2 DEF Signals
<1>11. ZombiesAreAnnounced'
  BY <1>1, <1>2, <1>3 DEF ZombiesAreAnnounced, Ends
<1>12. ASSUME NEW d \in Clients PROVE Account(d)'
  <2>1. inbox[d] \in Nat /\ outbox[d] \in Nat /\ replied[d] \in Nat
    BY <1>1 DEF EchoTypes
  <2>2. Datagrams' = Datagrams
    BY <1>2 DEF Datagrams
  <2>3. CASE d = c
    <3>1. Total(d)' = Total(d)
      BY <1>2, <1>5, <2>1, <2>2, <2>3 DEF Total
    <3>2. QED
      BY <1>2, <3>1, OthersAccount DEF EchoInv
  <2>4. CASE d # c
    <3>1. Total(d)' = Total(d)
      BY <1>2, <1>4, <1>5, <2>2, <2>4 DEF Total
    <3>2. QED
      BY <1>2, <3>1, OthersAccount DEF EchoInv
  <2>5. QED
    BY <2>3, <2>4
<1>13. QED
  BY <1>7, <1>8, <1>9, <1>10, <1>11, <1>12 DEF EchoInv

\* What a client's step does to signals that are not for its request.
LEMMA SignalledKeeps ==
  ASSUME EchoTypes, NEW s \in {"USR1", "USR2"}, sig' = Signalled(s)
  PROVE  /\ "CHLD" \in sig' <=> "CHLD" \in sig
         /\ \A r \in {"USR1", "USR2"} \ {s} : Pending(r)' = Pending(r)
         /\ Pending(s)' <= Pending(s) + 1 /\ Pending(s)' \in Nat /\ Pending(s) \in Nat
BY DEF Signalled, Pending

\* A client connects, or sends its datagram.
LEMMA ArrivalKeeps ==
  ASSUME EchoInv, NEW c \in Clients, TcpConnects(c) \/ UdpSends(c)
  PROVE  EchoInv'
<1> USE DEF given, mainVars, kidVars, connVars, cliVars
<1>1. EchoTypes /\ Lines /\ Alone /\ Signals /\ ZombiesAreAnnounced
  BY DEF EchoInv
<1>2. /\ UNCHANGED <<kind, mishap, srv, ready, accepting, recving, zombies, serving, byMain>>
      /\ UNCHANGED <<replied, inbox, outbox>> /\ cpc[c] = "start"
      /\ \E to \in {"write", "read"} : cpc' = [cpc EXCEPT ![c] = to]
  BY DEF TcpConnects, UdpSends
<1>3. /\ cpc' \in [Clients -> {"start", "write", "read", "done", "failed", "killed"}]
      /\ cpc'[c] # "start" /\ \A d \in Clients \ {c} : cpc'[d] = cpc[d]
      /\ serving[c] = "none"
  BY <1>1, <1>2 DEF EchoTypes, Lines
<1>4. /\ Len(tcpQ) \in Nat /\ Len(udpQ) \in Nat
      /\ \A k \in 1..Len(tcpQ) : tcpQ[k] \in Clients /\ tcpQ[k] # c
      /\ \A k \in 1..Len(udpQ) : udpQ[k] \in Clients /\ udpQ[k] # c
  <2>1. /\ \A k \in 1..Len(tcpQ) : cpc[tcpQ[k]] # "start"
        /\ \A k \in 1..Len(udpQ) : cpc[udpQ[k]] # "start"
    BY <1>1 DEF Lines
  <2>2. tcpQ \in Seq(Clients) /\ udpQ \in Seq(Clients)
    BY <1>1 DEF EchoTypes
  <2>3. cpc[c] = "start"
    BY <1>2
  <2>4. QED
    BY <2>1, <2>2, <2>3
\* The sockets and signals, whichever of the two arrives.
<1>5. ASSUME tcpQ' \in Seq(Clients), udpQ' \in Seq(Clients), sent' \in [Clients -> Nat],
             \A k \in 1..Len(tcpQ') : tcpQ'[k] = c \/ (k \in 1..Len(tcpQ) /\ tcpQ'[k] = tcpQ[k]),
             \A j, k \in 1..Len(tcpQ') : tcpQ'[j] = tcpQ'[k] => j = k,
             \A k \in 1..Len(udpQ') : udpQ'[k] = c \/ (k \in 1..Len(udpQ) /\ udpQ'[k] = udpQ[k]),
             \A j, k \in 1..Len(udpQ') : udpQ'[j] = udpQ'[k] => j = k,
             Len(tcpQ') >= Len(tcpQ), Len(udpQ') >= Len(udpQ),
             "CHLD" \in sig => "CHLD" \in sig'
      PROVE  EchoTypes' /\ Lines' /\ Alone' /\ ZombiesAreAnnounced'
  <2>1. EchoTypes'
    BY <1>1, <1>2, <1>3, <1>5 DEF EchoTypes
  <2>2. Lines'
    <3>0. /\ \A k \in 1..Len(tcpQ) : serving[tcpQ[k]] = "none" /\ cpc[tcpQ[k]] # "start"
          /\ \A k \in 1..Len(udpQ) : cpc[udpQ[k]] # "start"
          /\ serving' = serving
      BY <1>1, <1>2 DEF Lines
    <3>a. /\ \A k \in 1..Len(tcpQ) : cpc'[tcpQ[k]] # "start"
          /\ \A k \in 1..Len(udpQ) : cpc'[udpQ[k]] # "start"
      BY <1>3, <1>4, <3>0
    <3>1. \A k \in 1..Len(tcpQ') : serving'[tcpQ'[k]] = "none" /\ cpc'[tcpQ'[k]] # "start"
      <4>1. ASSUME NEW k \in 1..Len(tcpQ')
            PROVE  serving'[tcpQ'[k]] = "none" /\ cpc'[tcpQ'[k]] # "start"
        <5>1. CASE tcpQ'[k] = c
          BY <1>3, <3>0, <5>1
        <5>2. CASE k \in 1..Len(tcpQ) /\ tcpQ'[k] = tcpQ[k]
          BY <3>0, <3>a, <5>2
        <5>3. QED
          BY <1>5, <5>1, <5>2
      <4>2. QED
        BY <4>1
    <3>2. \A k \in 1..Len(udpQ') : cpc'[udpQ'[k]] # "start"
      BY <1>3, <1>5, <3>a
    <3>3. \A d \in Clients : cpc'[d] = "start" => serving'[d] = "none"
      BY <1>1, <1>2, <1>3 DEF Lines
    <3>4. QED
      BY <1>5, <3>1, <3>2, <3>3 DEF Lines
  <2>3. Alone'
    <3>1. Len(tcpQ') \in Nat /\ Len(udpQ') \in Nat
      BY <1>5
    <3>2. QED
      BY <1>1, <1>2, <1>4, <1>5, <3>1 DEF Alone
  <2>4. ZombiesAreAnnounced'
    BY <1>1, <1>2, <1>5 DEF ZombiesAreAnnounced
  <2>5. QED
    BY <2>1, <2>2, <2>3, <2>4
<1>6. CASE TcpConnects(c)
  <2>1. tcpQ' = Append(tcpQ, c) /\ sig' = Signalled("USR1") /\ udpQ' = udpQ /\ sent' = sent
    BY <1>6 DEF TcpConnects
  <2>2. /\ tcpQ' \in Seq(Clients) /\ Len(tcpQ') = Len(tcpQ) + 1
        /\ \A k \in 1..Len(tcpQ') : tcpQ'[k] = c \/ (k \in 1..Len(tcpQ) /\ tcpQ'[k] = tcpQ[k])
        /\ \A j, k \in 1..Len(tcpQ') : tcpQ'[j] = tcpQ'[k] => j = k
    <3>1. tcpQ \in Seq(Clients) /\ \A j, k \in 1..Len(tcpQ) : tcpQ[j] = tcpQ[k] => j = k
      BY <1>1 DEF EchoTypes, Lines
    <3>2. QED
      BY <1>4, <2>1, <3>1, JoinsLine
  <2>3. EchoTypes' /\ Lines' /\ Alone' /\ ZombiesAreAnnounced'
    <3>1. /\ udpQ' \in Seq(Clients) /\ sent' \in [Clients -> Nat]
          /\ \A k \in 1..Len(udpQ') : udpQ'[k] = c \/ (k \in 1..Len(udpQ) /\ udpQ'[k] = udpQ[k])
          /\ \A j, k \in 1..Len(udpQ') : udpQ'[j] = udpQ'[k] => j = k
      BY <1>1, <2>1 DEF EchoTypes, Lines
    <3>2. Len(tcpQ') >= Len(tcpQ) /\ Len(udpQ') >= Len(udpQ)
      BY <1>4, <2>1, <2>2
    <3>3. "CHLD" \in sig => "CHLD" \in sig'
      BY <1>1, <2>1, SignalledKeeps
    <3>4. QED
      BY <1>5, <2>2, <3>1, <3>2, <3>3
  <2>4. Signals'
    <3>1. /\ Pending("USR1")' <= Pending("USR1") + 1 /\ Pending("USR2")' = Pending("USR2")
          /\ Pending("USR1")' \in Nat /\ Pending("USR1") \in Nat /\ accepting \in Nat
      BY <1>1, <2>1, SignalledKeeps DEF EchoTypes
    <3>2. kind = "signal" => accepting + Pending("USR1")' <= Len(tcpQ')
      BY <1>1, <1>4, <2>2, <3>1 DEF Signals
    <3>3. QED
      BY <1>1, <1>2, <2>1, <3>1, <3>2 DEF Signals
  <2>5. ASSUME NEW d \in Clients PROVE Account(d)'
    <3>1. Total(d)' = Total(d)
      BY <1>2, <2>1 DEF Total, Datagrams
    <3>2. QED
      BY <1>2, <2>1, <3>1, OthersAccount DEF EchoInv
  <2>6. QED
    BY <2>3, <2>4, <2>5 DEF EchoInv
<1>7. CASE UdpSends(c) /\ udpQ' = Append(udpQ, c) /\ sig' = Signalled("USR2")
  <2>1. tcpQ' = tcpQ /\ sent' = [sent EXCEPT ![c] = @ + 1]
    BY <1>7 DEF UdpSends
  <2>2. /\ udpQ' \in Seq(Clients) /\ Len(udpQ') = Len(udpQ) + 1
        /\ \A k \in 1..Len(udpQ') : udpQ'[k] = c \/ (k \in 1..Len(udpQ) /\ udpQ'[k] = udpQ[k])
        /\ \A j, k \in 1..Len(udpQ') : udpQ'[j] = udpQ'[k] => j = k
        /\ Datagrams' = Datagrams \cup {c}
    <3>1. udpQ \in Seq(Clients) /\ \A j, k \in 1..Len(udpQ) : udpQ[j] = udpQ[k] => j = k
      BY <1>1 DEF EchoTypes, Lines
    <3>2. {Append(udpQ, c)[k] : k \in 1..Len(Append(udpQ, c))}
            = {udpQ[k] : k \in 1..Len(udpQ)} \cup {c}
      BY <1>4, <3>1, JoinsLine
    <3>3. Datagrams' = Datagrams \cup {c}
      BY <1>7, <3>2 DEF Datagrams
    <3>4. QED
      BY <1>4, <1>7, <3>1, <3>3, JoinsLine
  <2>3. EchoTypes' /\ Lines' /\ Alone' /\ ZombiesAreAnnounced'
    <3>1. /\ tcpQ' \in Seq(Clients) /\ sent' \in [Clients -> Nat]
          /\ \A k \in 1..Len(tcpQ') : tcpQ'[k] = c \/ (k \in 1..Len(tcpQ) /\ tcpQ'[k] = tcpQ[k])
          /\ \A j, k \in 1..Len(tcpQ') : tcpQ'[j] = tcpQ'[k] => j = k
      <4>1. sent' \in [Clients -> Nat] /\ tcpQ' \in Seq(Clients)
        BY <1>1, <2>1 DEF EchoTypes
      <4>2. \A j, k \in 1..Len(tcpQ) : tcpQ[j] = tcpQ[k] => j = k
        BY <1>1 DEF Lines
      <4>3. QED
        BY <2>1, <4>1, <4>2
    <3>2. Len(tcpQ') >= Len(tcpQ) /\ Len(udpQ') >= Len(udpQ)
      BY <1>4, <2>1, <2>2
    <3>3. "CHLD" \in sig => "CHLD" \in sig'
      BY <1>1, <1>7, SignalledKeeps
    <3>4. QED
      BY <1>5, <2>2, <3>1, <3>2, <3>3
  <2>4. Signals'
    <3>1. /\ Pending("USR2")' <= Pending("USR2") + 1 /\ Pending("USR1")' = Pending("USR1")
          /\ Pending("USR2")' \in Nat /\ Pending("USR2") \in Nat /\ recving \in Nat
      BY <1>1, <1>7, SignalledKeeps DEF EchoTypes
    <3>2. kind = "signal" => recving + Pending("USR2")' <= Len(udpQ')
      BY <1>1, <1>4, <2>2, <3>1 DEF Signals
    <3>3. QED
      BY <1>1, <1>2, <2>1, <3>1, <3>2 DEF Signals
  <2>5. ASSUME NEW d \in Clients PROVE Account(d)'
    <3>1. /\ sent'[d] = IF d = c THEN sent[d] + 1 ELSE sent[d]
          /\ sent[d] \in Nat /\ inbox[d] \in Nat /\ outbox[d] \in Nat /\ replied[d] \in Nat
          /\ Account(d)
      BY <1>1, <2>1 DEF EchoTypes, EchoInv
    <3>2. CASE d = c
      <4>1. c \notin Datagrams
        BY <1>4 DEF Datagrams
      <4>2. Total(d)' = Total(d) + 1 /\ Total(d) \in Nat
        BY <1>2, <2>2, <3>1, <3>2, <4>1 DEF Total
      <4>3. QED
        BY <1>2, <3>1, <3>2, <4>2 DEF Account
    <3>3. CASE d # c
      <4>1. d \in Datagrams' <=> d \in Datagrams
        BY <2>2, <3>3
      <4>2. Total(d)' = Total(d)
        BY <1>2, <4>1 DEF Total
      <4>3. QED
        BY <1>2, <3>1, <3>3, <4>2, OthersAccount
    <3>4. QED
      BY <3>2, <3>3
  <2>6. QED
    BY <2>3, <2>4, <2>5 DEF EchoInv
<1>8. CASE UdpSends(c) /\ mishap = "drop" /\ UNCHANGED <<udpQ, sig>>
  <2>1. tcpQ' = tcpQ /\ sent' = [sent EXCEPT ![c] = @ + 1]
    BY <1>8 DEF UdpSends
  <2>2. EchoTypes' /\ Lines' /\ Alone' /\ ZombiesAreAnnounced'
    <3>1. /\ tcpQ' \in Seq(Clients) /\ udpQ' \in Seq(Clients) /\ sent' \in [Clients -> Nat]
          /\ \A j, k \in 1..Len(tcpQ') : tcpQ'[j] = tcpQ'[k] => j = k
          /\ \A j, k \in 1..Len(udpQ') : udpQ'[j] = udpQ'[k] => j = k
          /\ Len(tcpQ') >= Len(tcpQ) /\ Len(udpQ') >= Len(udpQ)
      BY <1>1, <1>4, <1>8, <2>1 DEF EchoTypes, Lines
    <3>2. QED
      BY <1>5, <1>8, <2>1, <3>1
  <2>3. Signals'
    BY <1>1, <1>2, <1>8, <2>1 DEF Signals, Pending
  <2>4. ASSUME NEW d \in Clients PROVE Account(d)'
    <3>1. /\ sent'[d] = (IF d = c THEN sent[d] + 1 ELSE sent[d]) /\ Account(d)
          /\ sent[d] \in Nat /\ inbox[d] \in Nat /\ outbox[d] \in Nat /\ replied[d] \in Nat
      BY <1>1, <2>1 DEF EchoTypes, EchoInv
    <3>2. Total(d)' = Total(d) /\ Total(d) \in Nat
      <4>1. Datagrams' = Datagrams
        BY <1>8 DEF Datagrams
      <4>2. UNCHANGED <<replied, inbox, outbox, serving>>
        BY <1>2
      <4>3. Total(d)' = Total(d)
        BY <4>1, <4>2 DEF Total
      <4>4. Total(d) \in Nat
        BY <3>1 DEF Total
      <4>5. QED
        BY <4>3, <4>4
    <3>3. QED
      BY <1>2, <1>8, <3>1, <3>2 DEF Account
  <2>5. QED
    BY <2>2, <2>3, <2>4 DEF EchoInv
<1>9. QED
  BY <1>6, <1>7, <1>8 DEF UdpSends

\* A client writes a request on its connection, or reads an answer.
LEMMA ExchangeKeeps ==
  ASSUME EchoInv, NEW c \in Clients, TcpWrites(c) \/ ClientReads(c)
  PROVE  EchoInv'
<1> USE DEF given, mainVars, kidVars, connVars, cliVars
<1>1. EchoTypes /\ Lines /\ Alone /\ Signals /\ ZombiesAreAnnounced
  BY DEF EchoInv
<1>2. /\ UNCHANGED <<kind, mishap, srv, ready, tcpQ, udpQ, serving, byMain>>
      /\ UNCHANGED <<accepting, recving, zombies, sig>>
      /\ \E to \in {"write", "read", "done"} : cpc' = [cpc EXCEPT ![c] = to]
      /\ cpc[c] # "start"
  BY DEF TcpWrites, ClientReads
<1>3. /\ cpc' \in [Clients -> {"start", "write", "read", "done", "failed", "killed"}]
      /\ \A d \in Clients : cpc'[d] = "start" <=> cpc[d] = "start"
  BY <1>1, <1>2 DEF EchoTypes
<1>4. /\ inbox' \in [Clients -> Nat] /\ outbox' \in [Clients -> Nat]
      /\ sent' \in [Clients -> Nat] /\ replied' \in [Clients -> Nat]
      /\ \A d \in Clients \ {c} : /\ inbox'[d] = inbox[d] /\ outbox'[d] = outbox[d]
                                  /\ sent'[d] = sent[d] /\ replied'[d] = replied[d]
      /\ \/ /\ inbox'[c] = inbox[c] + 1 /\ sent'[c] = sent[c] + 1
            /\ outbox'[c] = outbox[c] /\ replied'[c] = replied[c]
         \/ /\ outbox'[c] = outbox[c] - 1 /\ replied'[c] = replied[c] + 1
            /\ inbox'[c] = inbox[c] /\ sent'[c] = sent[c]
  <2>1. CASE TcpWrites(c)
    <3>1. /\ sent' = [sent EXCEPT ![c] = @ + 1] /\ inbox' = [inbox EXCEPT ![c] = @ + 1]
          /\ outbox' = outbox /\ replied' = replied
      BY <2>1 DEF TcpWrites
    <3>2. QED
      BY <1>1, <3>1 DEF EchoTypes
  <2>2. CASE ClientReads(c)
    <3>1. /\ outbox' = [outbox EXCEPT ![c] = @ - 1] /\ replied' = [replied EXCEPT ![c] = @ + 1]
          /\ outbox[c] > 0 /\ sent' = sent /\ inbox' = inbox
      BY <2>2 DEF ClientReads
    <3>2. QED
      BY <1>1, <3>1 DEF EchoTypes
  <2>3. QED
    BY <2>1, <2>2
<1>5. EchoTypes'
  BY <1>1, <1>2, <1>3, <1>4 DEF EchoTypes
<1>6. Lines'
  <2>1. tcpQ \in Seq(Clients) /\ udpQ \in Seq(Clients)
    BY <1>1 DEF EchoTypes
  <2>2. \A k \in 1..Len(tcpQ) : tcpQ[k] \in Clients
    BY <2>1
  <2>3. \A k \in 1..Len(udpQ) : udpQ[k] \in Clients
    BY <2>1
  <2>4. QED
    BY <1>1, <1>2, <1>3, <2>2, <2>3 DEF Lines
<1>7. Alone' /\ Signals' /\ ZombiesAreAnnounced'
  BY <1>1, <1>2 DEF Alone, Signals, Pending, ZombiesAreAnnounced
<1>8. ASSUME NEW d \in Clients PROVE Account(d)'
  <2>1. /\ sent[d] \in Nat /\ inbox[d] \in Nat /\ outbox[d] \in Nat /\ replied[d] \in Nat
        /\ Account(d) /\ Datagrams' = Datagrams
    BY <1>1, <1>2 DEF EchoTypes, EchoInv, Datagrams
  <2>2. CASE d = c
    <3>1. Total(d) \in Nat
      BY <2>1 DEF Total
    <3>2. Total(d)' - sent'[d] = Total(d) - sent[d] /\ Total(d)' \in Int /\ sent'[d] \in Int
      BY <1>2, <1>4, <2>1, <2>2 DEF Total
    <3>3. QED
      BY <1>2, <2>1, <3>1, <3>2 DEF Account
  <2>3. CASE d # c
    <3>1. Total(d)' = Total(d)
      BY <1>2, <1>4, <2>1, <2>3 DEF Total
    <3>2. QED
      BY <1>2, <1>4, <2>1, <2>3, <3>1, OthersAccount
  <2>4. QED
    BY <2>2, <2>3
<1>9. QED
  BY <1>5, <1>6, <1>7, <1>8 DEF EchoInv

\* Every step keeps the invariant.
LEMMA NextEcho == EchoInv /\ [Next]_vars => EchoInv'
<1> SUFFICES ASSUME EchoInv, [Next]_vars PROVE EchoInv'
  OBVIOUS
<1>1. CASE Main \/ Kid
  BY <1>1, MainKeeps, TakesConnection, TakesDatagram DEF Main, Kid
<1>2. ASSUME NEW c \in Clients,
             Serve(c) \/ Client(c) \/ TcpConnects(c) \/ UdpSends(c) \/ ClientKilled(c)
      PROVE  EchoInv'
  BY <1>2, ServeKeeps, ArrivalKeeps, ExchangeKeeps, QuietKeeps DEF Client
<1>3. CASE UNCHANGED vars
  BY <1>3, QuietKeeps
<1>4. QED
  BY <1>1, <1>2, <1>3 DEF Next

\* Every request is in one place and answered at most once, none is forgotten
\* without a loss, and a child of signalServer() finds its request, for any
\* number of clients, messages and children.
THEOREM RequestsAnsweredOnce == Spec => []EachRequestOnce
BY InitEcho, NextEcho, EchoProperties, PTL DEF Spec

\* A zombie of 60.4 or 61.5 has its SIGCHLD pending, for any number of clients.
THEOREM ZombiesGetReaped == Spec => []ZombiesAreAnnounced
BY InitEcho, NextEcho, EchoProperties, PTL DEF Spec
=============================================================================
