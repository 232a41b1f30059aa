---------------------------- MODULE EchoServers ----------------------------
(***************************************************************************)
(* The servers on sockets: practice/62.2 (TCP and UDP echo, driven by      *)
(* poll, select, epoll or signals), routines/60.4 (a child per connection  *)
(* that echoes until the client closes) and practice/61.5 (a child per     *)
(* connection that runs one command).  They differ in how a request comes  *)
(* to the process that answers it; "kind" says which server runs.          *)
(***************************************************************************)
EXTENDS Integers, Sequences, FiniteSets

CONSTANTS
  Tcp, Udp,     \* the TCP and the UDP clients
  MaxMsgs,      \* bound: the messages a client of 60.4 sends
  MaxKids,      \* bound: the children in accept(), and those in recvfrom()
  Kinds,        \* the servers of this run
  Mishaps       \* the misfortunes of this run, of which a behaviour has one

Mux == {"poll", "select", "epoll", "signal"}    \* the four servers of 62.2
PerConnection == {"echo", "exec"}               \* 60.4 and 61.5

ASSUME EchoAssumption ==
  /\ IsFiniteSet(Tcp) /\ IsFiniteSet(Udp) /\ Tcp \cap Udp = {}
  /\ MaxMsgs \in Nat \ {0} /\ MaxKids \in Nat \ {0}
  /\ Kinds \subseteq Mux \cup PerConnection
  /\ Mishaps \subseteq {"none", "fork", "drop", "kill"}

Clients == Tcp \cup Udp

VARIABLES
  kind,         \* which server runs
  mishap,       \* what goes wrong in this behaviour
  srv,          \* main: "setup", in its "loop", "busy" with a connection, "down"
  ready,        \* the sockets the last poll, select or epoll_wait reported
  tcpQ, udpQ,   \* connections to be accepted, datagrams to be received
  accepting,    \* children in accept()
  recving,      \* children in recvfrom()
  zombies,      \* children that have ended
  sig,          \* the signals pending for main: SIGUSR1, SIGUSR2, SIGCHLD
  serving,      \* serving[c]: what the process that accepted c does with it
  byMain,       \* the connections main itself has accepted
  cpc,          \* cpc[c]: where client c is
  inbox,        \* inbox[c]: requests of c in the server's socket for c
  outbox,       \* outbox[c]: answers in c's socket
  sent, replied \* sent[c], replied[c]: what c has written and read

mainVars == <<srv, ready>>
kidVars == <<accepting, recving, zombies, sig>>
connVars == <<serving, byMain>>
cliVars == <<cpc, sent, replied>>
given == <<kind, mishap>>
vars == <<given, mainVars, tcpQ, udpQ, kidVars, connVars, cliVars, inbox, outbox>>

Init ==
  /\ kind \in Kinds /\ mishap \in Mishaps
  /\ srv = (IF kind = "signal" THEN "setup" ELSE "loop") /\ ready = {}
  /\ tcpQ = <<>> /\ udpQ = <<>>
  /\ accepting = 0 /\ recving = 0 /\ zombies = 0 /\ sig = {}
  /\ serving = [c \in Clients |-> "none"] /\ byMain = {}
  /\ cpc = [c \in Clients |-> "start"]
  /\ inbox = [c \in Clients |-> 0] /\ outbox = [c \in Clients |-> 0]
  /\ sent = [c \in Clients |-> 0] /\ replied = [c \in Clients |-> 0]

\* Event i/o: a socket that becomes readable signals the owner, once it has one.
Signalled(s) == IF kind = "signal" /\ srv = "loop" THEN sig \cup {s} ELSE sig

-----------------------------------------------------------------------------
(* The servers of 62.2.                                                    *)

\* signalServer(): the handlers are in place, now the sockets get their owner.
\* What arrived before gives no signal.
MainOwns ==
  /\ srv = "setup"
  /\ srv' = "loop"
  /\ UNCHANGED <<given, ready, tcpQ, udpQ, kidVars, connVars, cliVars, inbox, outbox>>

\* Fault: nfds of selectServer() is tcpFd + 1, the lower of the two sockets.
NarrowWait ==
  /\ kind \in {"poll", "select", "epoll"} /\ srv = "loop" /\ ready = {}
  /\ ready' = (IF tcpQ # <<>> THEN {"tcp"} ELSE {})
              \cup (IF udpQ # <<>> /\ kind # "select" THEN {"udp"} ELSE {})
  /\ ready' # {}
  /\ UNCHANGED <<given, srv, tcpQ, udpQ, kidVars, connVars, cliVars, inbox, outbox>>

\* poll(), select() or epoll_wait() returns; a timeout goes round the loop.
MainWaits ==
  /\ kind \in {"poll", "select", "epoll"} /\ srv = "loop" /\ ready = {}
  /\ ready' = (IF tcpQ # <<>> THEN {"tcp"} ELSE {}) \cup (IF udpQ # <<>> THEN {"udp"} ELSE {})
  /\ ready' # {}
  /\ UNCHANGED <<given, srv, tcpQ, udpQ, kidVars, connVars, cliVars, inbox, outbox>>

\* One child more, up to the bound MaxKids.
More(kids) == IF kids < MaxKids THEN kids + 1 ELSE kids

\* pollServer(): a child for each readable socket, TCP first.  Until a child
\* has read the socket it stays readable, and the next round forks another.
PollForks ==
  /\ kind = "poll" /\ srv = "loop" /\ ready # {}
  /\ \/ /\ "tcp" \in ready
        /\ accepting' = More(accepting) /\ ready' = ready \ {"tcp"}
        /\ UNCHANGED <<srv, recving>>
     \/ /\ "tcp" \notin ready
        /\ recving' = More(recving) /\ ready' = {}
        /\ UNCHANGED <<srv, accepting>>
     \/ /\ mishap = "fork"
        /\ srv' = "down" /\ ready' = {}
        /\ UNCHANGED <<accepting, recving>>
  /\ UNCHANGED <<given, tcpQ, udpQ, zombies, sig, connVars, cliVars, inbox, outbox>>

\* What select() and epoll handle in one pass: select the first of the two only.
Rest(s) == IF kind = "select" THEN {} ELSE ready \ {s}

\* tcpHandle() in main: accept(), then main is in read() on the connection.
MainAccepts ==
  /\ kind \in {"select", "epoll"} /\ srv = "loop" /\ "tcp" \in ready
  /\ tcpQ' = Tail(tcpQ)
  /\ serving' = [serving EXCEPT ![Head(tcpQ)] = "read"]
  /\ byMain' = byMain \cup {Head(tcpQ)}
  /\ srv' = "busy" /\ ready' = Rest("tcp")
  /\ UNCHANGED <<given, udpQ, kidVars, cliVars, inbox, outbox>>

\* Fault: the datagram is echoed but left in the socket.
MainPeeks ==
  /\ kind \in {"select", "epoll"} /\ srv = "loop" /\ "udp" \in ready
  /\ kind = "select" => "tcp" \notin ready
  /\ outbox' = [outbox EXCEPT ![Head(udpQ)] = @ + 1]
  /\ ready' = Rest("udp")
  /\ UNCHANGED <<given, srv, tcpQ, udpQ, kidVars, connVars, cliVars, inbox>>

\* udpHandle() in main.
MainReceives ==
  /\ kind \in {"select", "epoll"} /\ srv = "loop" /\ "udp" \in ready
  /\ kind = "select" => "tcp" \notin ready
  /\ udpQ' = Tail(udpQ)
  /\ outbox' = [outbox EXCEPT ![Head(udpQ)] = @ + 1]
  /\ ready' = Rest("udp")
  /\ UNCHANGED <<given, srv, tcpQ, kidVars, connVars, cliVars, inbox>>

\* sigusr1Handler(), sigusr2Handler(): a child for each signal delivered.
SignalForks ==
  /\ kind = "signal" /\ srv = "loop"
  /\ accepting < MaxKids /\ recving < MaxKids
  /\ \E s \in sig \cap {"USR1", "USR2"} :
       /\ sig' = sig \ {s}
       /\ \/ /\ IF s = "USR1" THEN accepting' = accepting + 1 /\ UNCHANGED recving
                              ELSE recving' = recving + 1 /\ UNCHANGED accepting
             /\ UNCHANGED srv
          \/ mishap = "fork" /\ srv' = "down" /\ UNCHANGED <<accepting, recving>>
  /\ UNCHANGED <<given, ready, tcpQ, udpQ, zombies, connVars, cliVars, inbox, outbox>>

\* The loop of signalServer() reaps one child at a time.
MainReapsOne ==
  /\ kind = "signal" /\ srv = "loop" /\ zombies > 0
  /\ zombies' = zombies - 1
  /\ UNCHANGED <<given, mainVars, tcpQ, udpQ, accepting, recving, sig, connVars, cliVars, inbox, outbox>>

\* A child that ends; SIGCHLD has a handler in 60.4 and 61.5.
Ends(n) ==
  /\ zombies' = zombies + n
  /\ sig' = IF kind \in PerConnection /\ n > 0 THEN sig \cup {"CHLD"} ELSE sig

\* accept() and recvfrom() in a child wait in pollServer(); in signalServer() the
\* sockets are O_NONBLOCK, but there a child always finds its request
\* (EachRequestOnce).
KidAccepts ==
  /\ accepting > 0 /\ tcpQ # <<>>
  /\ accepting' = accepting - 1
  /\ tcpQ' = Tail(tcpQ)
  /\ serving' = [serving EXCEPT ![Head(tcpQ)] = "read"]
  /\ UNCHANGED <<given, mainVars, udpQ, recving, zombies, sig, byMain, cliVars, inbox, outbox>>

KidReceives ==
  /\ recving > 0 /\ udpQ # <<>>
  /\ recving' = recving - 1
  /\ udpQ' = Tail(udpQ)
  /\ outbox' = [outbox EXCEPT ![Head(udpQ)] = @ + 1]
  /\ Ends(1)
  /\ UNCHANGED <<given, mainVars, tcpQ, accepting, connVars, cliVars, inbox>>

Kid == KidAccepts \/ KidReceives

-----------------------------------------------------------------------------
(* The servers of 60.4 and 61.5.                                           *)

\* accept() and fork(); a failing fork() closes the connection in 60.4 and ends
\* the server in 61.5.
MainForks ==
  /\ kind \in PerConnection /\ srv = "loop" /\ tcpQ # <<>>
  /\ tcpQ' = Tail(tcpQ)
  /\ \/ serving' = [serving EXCEPT ![Head(tcpQ)] = "read"] /\ UNCHANGED srv
     \/ /\ mishap = "fork"
        /\ serving' = [serving EXCEPT ![Head(tcpQ)] = "closed"]
        /\ srv' = IF kind = "exec" THEN "down" ELSE srv
  /\ UNCHANGED <<given, ready, udpQ, kidVars, byMain, cliVars, inbox, outbox>>

\* Fault: the handler calls waitpid() once.
ReapsOnce ==
  /\ "CHLD" \in sig /\ srv = "loop"
  /\ sig' = sig \ {"CHLD"}
  /\ zombies' = zombies - 1
  /\ UNCHANGED <<given, mainVars, tcpQ, udpQ, accepting, recving, connVars, cliVars, inbox, outbox>>

\* sigchildHandler() reaps every zombie.
MainReaps ==
  /\ "CHLD" \in sig /\ srv = "loop"
  /\ sig' = sig \ {"CHLD"}
  /\ zombies' = 0
  /\ UNCHANGED <<given, mainVars, tcpQ, udpQ, accepting, recving, connVars, cliVars, inbox, outbox>>

-----------------------------------------------------------------------------
(* The process that has accepted the connection of c: tcpHandle(),         *)
(* handRequest() or data().                                                *)

\* The process is through with c: main goes back to its loop, a child ends.
Leaves(c) ==
  /\ serving' = [serving EXCEPT ![c] = "closed"]
  /\ IF c \in byMain
       THEN srv' = "loop" /\ UNCHANGED <<zombies, sig>>
       ELSE Ends(1) /\ UNCHANGED srv

Hangup(c) == cpc[c] \in {"done", "killed"}

\* read(): a request, or 0 once the client has gone.  60.4 and 61.5 leave then;
\* 62.2 writes the 0 bytes.
ServerReads(c) ==
  /\ serving[c] = "read"
  /\ \/ /\ inbox[c] > 0
        /\ inbox' = [inbox EXCEPT ![c] = @ - 1]
        /\ serving' = [serving EXCEPT ![c] = "write"]
        /\ UNCHANGED <<srv, zombies, sig>>
     \/ /\ inbox[c] = 0 /\ Hangup(c)
        /\ Leaves(c)
        /\ UNCHANGED inbox
  /\ UNCHANGED <<given, ready, tcpQ, udpQ, accepting, recving, byMain, cliVars, outbox>>

\* The echo, or what the command prints; only 60.4 reads again.
ServerWrites(c) ==
  /\ serving[c] = "write"
  /\ outbox' = [outbox EXCEPT ![c] = @ + 1]
  /\ IF kind = "echo"
       THEN serving' = [serving EXCEPT ![c] = "read"] /\ UNCHANGED <<srv, zombies, sig>>
       ELSE Leaves(c)
  /\ UNCHANGED <<given, ready, tcpQ, udpQ, accepting, recving, byMain, cliVars, inbox>>

Serve(c) == ServerReads(c) \/ ServerWrites(c)

Main ==
  \/ MainOwns \/ MainWaits \/ PollForks \/ MainAccepts \/ MainReceives
  \/ SignalForks \/ MainReapsOne \/ MainForks \/ MainReaps

-----------------------------------------------------------------------------
(* The clients.                                                            *)

\* Some process has the server's two sockets open: main, or a child of 62.2.
Listening ==
  \/ srv # "down"
  \/ kind \in Mux /\ (accepting + recving > 0 \/ \E c \in Tcp : serving[c] \in {"read", "write"})

TcpConnects(c) ==
  /\ c \in Tcp /\ cpc[c] = "start" /\ Listening
  /\ cpc' = [cpc EXCEPT ![c] = "write"]
  /\ tcpQ' = Append(tcpQ, c)
  /\ sig' = Signalled("USR1")
  /\ UNCHANGED <<given, mainVars, udpQ, accepting, recving, zombies, connVars, sent, replied, inbox, outbox>>

TcpWrites(c) ==
  /\ c \in Tcp /\ cpc[c] = "write"
  /\ cpc' = [cpc EXCEPT ![c] = "read"]
  /\ sent' = [sent EXCEPT ![c] = @ + 1]
  /\ inbox' = [inbox EXCEPT ![c] = @ + 1]
  /\ UNCHANGED <<given, mainVars, tcpQ, udpQ, kidVars, connVars, replied, outbox>>

\* A datagram, which may be lost.
UdpSends(c) ==
  /\ c \in Udp /\ cpc[c] = "start" /\ kind \in Mux /\ Listening
  /\ cpc' = [cpc EXCEPT ![c] = "read"]
  /\ sent' = [sent EXCEPT ![c] = @ + 1]
  /\ \/ udpQ' = Append(udpQ, c) /\ sig' = Signalled("USR2")
     \/ mishap = "drop" /\ UNCHANGED <<udpQ, sig>>
  /\ UNCHANGED <<given, mainVars, tcpQ, accepting, recving, zombies, connVars, replied, inbox, outbox>>

\* One answer for each request; then the next one (60.4) or exit().
ClientReads(c) ==
  /\ cpc[c] = "read" /\ outbox[c] > 0
  /\ outbox' = [outbox EXCEPT ![c] = @ - 1]
  /\ replied' = [replied EXCEPT ![c] = @ + 1]
  /\ \E next \in {"done"} \cup (IF kind = "echo" /\ sent[c] < MaxMsgs THEN {"write"} ELSE {}) :
       cpc' = [cpc EXCEPT ![c] = next]
  /\ UNCHANGED <<given, mainVars, tcpQ, udpQ, kidVars, connVars, sent, inbox>>

\* A connection nobody serves any more: reset, or closed without an answer.
ClientFails(c) ==
  /\ c \in Tcp /\ cpc[c] \in {"write", "read"} /\ outbox[c] = 0
  /\ \/ serving[c] = "closed"
     \/ ~Listening /\ serving[c] = "none"
  /\ cpc' = [cpc EXCEPT ![c] = "failed"]
  /\ UNCHANGED <<given, mainVars, tcpQ, udpQ, kidVars, connVars, sent, replied, inbox, outbox>>

ClientKilled(c) ==
  /\ mishap = "kill" /\ cpc[c] \in {"write", "read"}
  /\ cpc' = [cpc EXCEPT ![c] = "killed"]
  /\ UNCHANGED <<given, mainVars, tcpQ, udpQ, kidVars, connVars, sent, replied, inbox, outbox>>

Client(c) == TcpWrites(c) \/ ClientReads(c) \/ ClientFails(c)

Next ==
  \/ Main \/ Kid
  \/ \E c \in Clients :
       Serve(c) \/ Client(c) \/ TcpConnects(c) \/ UdpSends(c) \/ ClientKilled(c)

Spec == Init /\ [][Next]_vars

\* Processes the kernel schedules; a client need not be started.
FairSpec ==
  /\ Spec
  /\ WF_vars(Main) /\ WF_vars(MainReaps) /\ WF_vars(Kid)
  /\ \A c \in Clients : WF_vars(Serve(c)) /\ WF_vars(Client(c))

-----------------------------------------------------------------------------
\* How many requests or answers of c are under way.
UnderWay(c) ==
  inbox[c] + outbox[c] + (IF serving[c] = "write" THEN 1 ELSE 0)
    + Cardinality({k \in 1..Len(udpQ) : udpQ[k] = c})

\* Each request is in one place and answered at most once, although several
\* processes take connections and datagrams from the same two sockets, and
\* without a loss it is not forgotten; and a child of signalServer() finds one, so
\* that the non-blocking sockets never fail it (62.2 19-53, 178-206, 60.4 29-45,
\* 61.5 29-61).
EachRequestOnce ==
  /\ \A c \in Clients :
       /\ replied[c] + UnderWay(c) <= sent[c]
       /\ mishap # "drop" => replied[c] + UnderWay(c) = sent[c]
  /\ kind = "signal" => accepting <= Len(tcpQ) /\ recving <= Len(udpQ)

\* 60.4 and 61.5: whenever a child is a zombie a SIGCHLD is pending that will
\* have it reaped (60.4 17-27, 61.5 16-27).
ZombiesAreAnnounced == kind \in PerConnection /\ zombies > 0 => "CHLD" \in sig

\* Without a mishap every client gets its answers, except that the signals of
\* 62.2 may merge: there it is the connection, or datagram, at the head of the
\* socket that a pending signal or its child will serve.
EveryAnswerArrives ==
  \A c \in Clients :
    [](/\ mishap = "none"
       /\ \/ kind # "signal" /\ cpc[c] \in {"write", "read"}
          \/ kind = "signal" /\ tcpQ # <<>> /\ Head(tcpQ) = c /\ ("USR1" \in sig \/ accepting > 0)
          \/ kind = "signal" /\ udpQ # <<>> /\ Head(udpQ) = c /\ ("USR2" \in sig \/ recving > 0)
       => <>(cpc[c] = "done"))
=============================================================================
