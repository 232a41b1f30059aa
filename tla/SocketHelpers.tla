---------------------------- MODULE SocketHelpers ----------------------------
(***************************************************************************)
(* common/inet_sockets.c: how the clients and servers of 60.2, 60.4, 61.5   *)
(* and 62.2 get their sockets.  Each helper tries the addresses that        *)
(* getaddrinfo() returns; whether an address is refused may change between  *)
(* two tries.  The loops go on with "rp = pAddr->ai_next", the successor of *)
(* the FIRST address.                                                       *)
(***************************************************************************)
EXTENDS Integers

CONSTANT MaxAddrs   \* bound: the addresses of a host and service

ASSUME AddrsAssumption == MaxAddrs \in Nat

VARIABLES
  helper,    \* "none", "inetConnect", "inetListen" or "inetBind"
  helperPc,  \* "off" "socket" "option" "try" "listen" "returned"
  addrs,     \* how many addresses there are
  rp,        \* the address being tried, 0 for NULL
  sock,      \* the socket made last: "none" (-1) "open" "connected" "bound"
             \* "listening" "closed"
  result     \* what is returned: "nothing" yet, "-1" or "sock"

helperVars == <<helper, helperPc, addrs, rp, sock, result>>

HelperInit ==
  /\ helper = "none" /\ helperPc = "off"
  /\ addrs = 0 /\ rp = 0 /\ sock = "none" /\ result = "nothing"

HelperReturns(value) == helperPc' = "returned" /\ result' = value

\* getaddrinfo() fails (no address), or the loop starts with the first one.
HelperCalled ==
  /\ helperPc = "off"
  /\ helper' \in {"inetConnect", "inetListen", "inetBind"}
  /\ addrs' \in 0..MaxAddrs
  /\ IF addrs' = 0
       THEN HelperReturns("-1") /\ UNCHANGED rp
       ELSE rp' = 1 /\ helperPc' = "socket" /\ UNCHANGED result
  /\ UNCHANGED sock

\* After the loop inetConnect() asks rp, inetPassiveSocket() asks "result",
\* which is not NULL: without an address it returns the last lfd, whatever it is.
LoopFails ==
  HelperReturns(IF helper = "inetConnect" \/ sock' = "none" THEN "-1" ELSE "sock")

\* The increment of the loops; NULL, and so the end, only without a second one.
TryNext ==
  IF addrs = 1
    THEN rp' = 0 /\ LoopFails
    ELSE rp' = 2 /\ helperPc' = "socket" /\ UNCHANGED result

\* socket(), which may fail.
HelperSocket ==
  /\ helperPc = "socket"
  /\ \/ /\ sock' = "open"
        /\ helperPc' = IF helper = "inetListen" THEN "option" ELSE "try"
        /\ UNCHANGED <<rp, result>>
     \/ sock' = "none" /\ TryNext
  /\ UNCHANGED <<helper, addrs>>

\* setsockopt(SO_REUSEADDR); a failure ends the call.
HelperReuses ==
  /\ helperPc = "option"
  /\ \/ helperPc' = "try" /\ UNCHANGED <<sock, result>>
     \/ sock' = "closed" /\ HelperReturns("-1")
  /\ UNCHANGED <<helper, addrs, rp>>

\* connect() or bind(): break, or close() and the next address.
HelperAccepted ==
  /\ helperPc = "try"
  /\ sock' = IF helper = "inetConnect" THEN "connected" ELSE "bound"
  /\ IF helper = "inetListen" THEN helperPc' = "listen" /\ UNCHANGED result
     ELSE HelperReturns("sock")
  /\ UNCHANGED <<helper, addrs, rp>>

\* Fault: the refused socket is not closed.
HelperRefusedKeeps ==
  /\ helperPc = "try"
  /\ UNCHANGED sock
  /\ TryNext
  /\ UNCHANGED <<helper, addrs>>

HelperRefused ==
  /\ helperPc = "try"
  /\ sock' = "closed"
  /\ TryNext
  /\ UNCHANGED <<helper, addrs>>

\* listen(); when it fails the socket is not closed.
HelperListens ==
  /\ helperPc = "listen"
  /\ \/ sock' = "listening" /\ HelperReturns("sock")
     \/ HelperReturns("-1") /\ UNCHANGED sock
  /\ UNCHANGED <<helper, addrs, rp>>

HelperStep ==
  \/ HelperSocket \/ HelperReuses \/ HelperAccepted \/ HelperRefused \/ HelperListens
HelperNext == HelperCalled \/ HelperStep
HelperFairness == WF_helperVars(HelperStep)

-----------------------------------------------------------------------------
\* "@returm: -1 failure, otherwise the socket" (lines 15, 118, 130): what a helper
\* returns other than -1 is a socket that is connected, listening or bound.  It
\* is not: the passive helpers ask "result == NULL" after the loop (line 110) and
\* return the closed descriptor of the only address, when that was refused.
ReturnsASocket ==
  result = "sock" =>
    sock = [inetConnect |-> "connected", inetListen |-> "listening", inetBind |-> "bound"][helper]

\* A helper that returns -1 leaves no socket open, unless listen() failed (line
\* 100), and a client that gets a descriptor is connected (line 50).  A call
\* returns, unless there are two addresses or more: the second is then tried for
\* as long as it is refused (lines 35, 72).
HelpersLeaveNothingOpen ==
  /\ [](result = "-1" =>
          \/ sock \in {"none", "closed"}
          \/ sock = "bound" /\ helper = "inetListen")
  /\ [](result = "sock" /\ helper = "inetConnect" => sock = "connected")
  /\ helperPc = "socket" ~> helperPc = "returned" \/ rp = 2
=============================================================================
