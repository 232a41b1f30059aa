---------------------------- MODULE MqFileProof ----------------------------
(***************************************************************************)
(* Proofs about the file servers of practice/52.2 and 52.2.b, for any      *)
(* number of clients, queue size and file:                                 *)
(*   - the registration with mq_notify is renewed exactly once for each    *)
(*     notification, so that no thread finds it taken (EBUSY, which would  *)
(*     end the server) and none waits in mq_receive;                       *)
(*   - a client that sees the end has the whole file, in order;            *)
(*   - until then it has a prefix of it, and every queue keeps its bound.  *)
(***************************************************************************)
EXTENDS MqFile, TLAPS

\* The types the argument needs.
NotifyType ==
  /\ srvQ \in Seq(Clients)
  /\ entered \in Nat /\ receiving \in Nat
  /\ reg \in {"set", "unset"}

\* Only a running 52.2.b has a registration or notified threads.
OnlyNotify ==
  /\ srv # "run" \/ kind # "notify" => reg = "unset" /\ entered = 0 /\ receiving = 0
  /\ srv = "notify" => kind = "notify"

NInv == NotifyType /\ OnlyNotify /\ NotifyNeverBusy

-----------------------------------------------------------------------------
\* Before the server runs nothing is registered or notified.
LEMMA InitNInv == Init => NInv
BY DEF Init, NInv, NotifyType, OnlyNotify, NotifyNeverBusy

\* Steps that leave the queue and the threads alone, or end the server.
LEMMA QuietKeeps ==
  ASSUME NInv, UNCHANGED <<kind, srvQ>>, Ends \/ UNCHANGED <<srv, reg, entered, receiving>>
  PROVE  NInv'
<1>1. CASE Ends
  BY <1>1 DEF NInv, NotifyType, OnlyNotify, NotifyNeverBusy, Ends
<1>2. CASE UNCHANGED <<srv, reg, entered, receiving>>
  <2>1. NotifyType'
    BY <1>2 DEF NInv, NotifyType
  <2>2. OnlyNotify'
    BY <1>2 DEF NInv, OnlyNotify
  <2>3. NotifyNeverBusy'
    BY <1>2 DEF NInv, NotifyNeverBusy
  <2> QED
    BY <2>1, <2>2, <2>3 DEF NInv
<1> QED
  BY <1>1, <1>2

\* The server and its threads pass the registration on.
LEMMA ServerKeeps == NInv /\ Server => NInv'
<1> SUFFICES ASSUME NInv, Server PROVE NInv'
  OBVIOUS
<1> USE DEF given
<1>1. CASE ServerStarts
  BY <1>1 DEF ServerStarts, NInv, NotifyType, OnlyNotify, NotifyNeverBusy
<1>2. CASE ServerRegisters
  <2> USE <1>2 DEF ServerRegisters
  <2>1. entered = 0 /\ receiving = 0 /\ kind = "notify"
    BY DEF NInv, OnlyNotify
  <2>2. srv' = "run" /\ reg' = "set" /\ kind' = kind /\ entered' = 0 /\ receiving' = 0 /\ srvQ' = srvQ
    BY <2>1
  <2> QED
    BY <2>2 DEF NInv, NotifyType, OnlyNotify, NotifyNeverBusy
<1>3. CASE ServerForks
  <2> USE <1>3 DEF ServerForks, Ends
  <2>1. reg' = "unset" /\ entered' = 0 /\ receiving' = 0 /\ kind' = "fork"
    BY DEF NInv, OnlyNotify
  <2>2. srvQ' \in Seq(Clients)
    BY DEF NInv, NotifyType
  <2> QED
    BY <2>1, <2>2 DEF NInv, NotifyType, OnlyNotify, NotifyNeverBusy
<1>4. CASE ServerReaps
  BY <1>4, QuietKeeps DEF ServerReaps, srvVars
<1>5. CASE ThreadRegisters
  <2> USE <1>5 DEF ThreadRegisters
  <2>1. srv = "run" /\ kind = "notify" /\ entered = 1 /\ receiving = 0 /\ reg = "unset" /\ srvQ # <<>>
    BY DEF NInv, NotifyType, OnlyNotify, NotifyNeverBusy
  <2>2. reg' = "set" /\ entered' = 0 /\ receiving' = 1 /\ srvQ' = srvQ /\ srv' = srv /\ kind' = kind
    BY <2>1
  <2> QED
    BY <2>1, <2>2 DEF NInv, NotifyType, OnlyNotify, NotifyNeverBusy
<1>6. CASE ThreadReceives
  <2> USE <1>6 DEF ThreadReceives
  <2>1. srv = "run" /\ kind = "notify" /\ entered = 0 /\ receiving = 1 /\ reg = "set"
    BY DEF NInv, NotifyType, OnlyNotify, NotifyNeverBusy
  <2>2. srvQ' \in Seq(Clients)
    BY DEF NInv, NotifyType
  <2>3. receiving' = 0 /\ entered' = 0 /\ reg' = "set" /\ srv' = srv /\ kind' = kind
    BY <2>1
  <2> QED
    BY <2>1, <2>2, <2>3 DEF NInv, NotifyType, OnlyNotify, NotifyNeverBusy
<1> QED
  BY <1>1, <1>2, <1>3, <1>4, <1>5, <1>6 DEF Server

\* A request that arrives at an empty queue uses up the registration, and no
\* thread is on its way then.
LEMMA SendKeeps ==
  ASSUME NInv, NEW c \in Clients, ClientSends(c)
  PROVE  NInv'
<1> USE DEF ClientSends, given
<1>1. srvQ' \in Seq(Clients) /\ srvQ' # <<>> /\ kind' = kind /\ srv' = srv /\ receiving' = receiving
  BY DEF NInv, NotifyType
<1>2. CASE srvQ = <<>> /\ reg = "set"
  <2>1. srv = "run" /\ kind = "notify" /\ entered = 0 /\ receiving = 0
    BY <1>2 DEF NInv, NotifyType, OnlyNotify, NotifyNeverBusy
  <2>2. reg' = "unset" /\ entered' = 1
    BY <1>2, <2>1
  <2> QED
    BY <1>1, <2>1, <2>2 DEF NInv, NotifyType, OnlyNotify, NotifyNeverBusy
<1>3. CASE ~(srvQ = <<>> /\ reg = "set")
  <2>1. reg' = reg /\ entered' = entered
    BY <1>3
  <2>2. NotifyType'
    BY <1>1, <2>1 DEF NInv, NotifyType
  <2>3. OnlyNotify'
    BY <1>1, <2>1 DEF NInv, OnlyNotify
  <2>4. NotifyNeverBusy'
    BY <1>1, <2>1 DEF NInv, NotifyNeverBusy
  <2> QED
    BY <2>2, <2>3, <2>4 DEF NInv
<1> QED
  BY <1>2, <1>3

\* Workers and clients leave it alone, unless a thread ends the server.
LEMMA OthersKeep ==
  ASSUME NInv, NEW c \in Clients,
         Worker(c) \/ ClientCreates(c) \/ ClientReceives(c) \/ ClientOpens(c) \/ ClientKilled(c)
  PROVE  NInv'
<1> SUFFICES /\ UNCHANGED <<kind, srvQ>>
             /\ Ends \/ UNCHANGED <<srv, reg, entered, receiving>>
  BY QuietKeeps
<1> USE DEF given, srvVars
<1>1. CASE WorkerOpens(c)
  BY <1>1 DEF WorkerOpens
<1>2. CASE WorkerFails(c)
  BY <1>2 DEF WorkerFails
<1>3. CASE WorkerReads(c)
  BY <1>3 DEF WorkerReads
<1>4. CASE WorkerSends(c)
  BY <1>4 DEF WorkerSends
<1>5. CASE WorkerEnds(c)
  BY <1>5 DEF WorkerEnds
<1>6. CASE ClientCreates(c)
  BY <1>6 DEF ClientCreates
<1>7. CASE ClientReceives(c)
  BY <1>7 DEF ClientReceives
<1>8. CASE ClientOpens(c)
  BY <1>8 DEF ClientOpens
<1>9. CASE ClientKilled(c)
  BY <1>9 DEF ClientKilled
<1> QED
  BY <1>1, <1>2, <1>3, <1>4, <1>5, <1>6, <1>7, <1>8, <1>9 DEF Worker

\* 52.2.b renews its registration exactly once for each notification, whatever
\* the clients do: mq_notify never finds it taken, and a notified thread finds
\* its request in the queue.
THEOREM NeverBusy == Spec => []NotifyNeverBusy
<1>1. Init => NInv
  BY InitNInv
<1>2. NInv /\ [Next]_vars => NInv'
  <2> SUFFICES ASSUME NInv, [Next]_vars PROVE NInv'
    OBVIOUS
  <2>1. CASE Server
    BY <2>1, ServerKeeps
  <2>2. CASE ServerKilled
    BY <2>2, QuietKeeps DEF ServerKilled, given
  <2>3. ASSUME NEW c \in Clients, Worker(c) \/ Client(c) \/ ClientOpens(c) \/ ClientKilled(c)
        PROVE  NInv'
    BY <2>3, SendKeeps, OthersKeep DEF Client
  <2>4. CASE UNCHANGED vars
    BY <2>4, QuietKeeps DEF vars, given, srvVars
  <2> QED
    BY <2>1, <2>2, <2>3, <2>4 DEF Next
<1>3. NInv => NotifyNeverBusy
  BY DEF NInv
<1> QED
  BY <1>1, <1>2, <1>3, PTL DEF Spec
-----------------------------------------------------------------------------
(* The blocks in a client's queue.  A block is a number from 1 on, every    *)
(* other message is not positive.                                          *)

\* After g blocks have been written the queue q goes on with block g + 1, and
\* every later block in it follows its predecessor.
InOrder(q, g) ==
  /\ \A k \in 1..Len(q) : q[k] > 0 =>
       /\ q[k] > g
       /\ q[k] > g + 1 => \E j \in 1..Len(q) : j < k /\ q[j] = q[k] - 1
  /\ \A j, k \in 1..Len(q) : j < k /\ q[j] > 0 /\ q[k] > 0 => q[j] < q[k]

\* The blocks written and those in q end with block n.
UpTo(q, g, n) ==
  /\ g = n \/ \E k \in 1..Len(q) : q[k] = n
  /\ g <= n
  /\ \A k \in 1..Len(q) : q[k] <= n

\* The blocks c has been sent, or will be by the next mq_send().
Sent(c) == IF worker[c] = "send" THEN pos[c] - 1 ELSE pos[c]

\* Who has no worker that has opened the file has nothing.
Fresh(c) == worker[c] \in {"none", "open"} => pos[c] = 0 /\ Len(got[c]) = 0 /\ Len(cliQ[c]) = 0

\* RESP_FAILE is the answer to a missing file, and its only one.
Refused(c) ==
  /\ \A k \in 1..Len(cliQ[c]) : cliQ[c][k] >= FAILE /\ (cliQ[c][k] = FAILE <=> file[c] = Missing)
  /\ file[c] = Missing => Len(got[c]) = 0 /\ worker[c] \in {"none", "open", "zombie", "gone"}

\* What is written and what is queued are the blocks sent, in order.
Flows(c) ==
  /\ \A b \in 1..Len(got[c]) : got[c][b] = b
  /\ InOrder(cliQ[c], Len(got[c]))
  /\ worker[c] \in Working => UpTo(cliQ[c], Len(got[c]), Sent(c))
  /\ worker[c] = "send" => pos[c] > 0
  /\ worker[c] = "end" => pos[c] = file[c]

\* RESP_END is the last message, and comes after the last block.
EndsWell(c) ==
  \A k \in 1..Len(cliQ[c]) : cliQ[c][k] = END =>
    /\ k = Len(cliQ[c]) /\ worker[c] \in {"zombie", "gone"}
    /\ UpTo(cliQ[c], Len(got[c]), file[c])

\* A client that is done has its file.
IsDone(c) ==
  cpc[c] = "done" => IF file[c] = Missing THEN Len(got[c]) = 0 ELSE Len(got[c]) = file[c]

Stream(c) == Fresh(c) /\ Refused(c) /\ Flows(c) /\ EndsWell(c) /\ IsDone(c)

\* Each client has one request, and a worker only after it has been received.
Requests ==
  /\ \A j, k \in 1..Len(srvQ) : srvQ[j] = srvQ[k] => j = k
  /\ \A k \in 1..Len(srvQ) : worker[srvQ[k]] = "none" /\ cpc[srvQ[k]] \notin {"open", "send"}
  /\ \A c \in Clients : cpc[c] \in {"open", "send"} => worker[c] = "none"

\* The types the argument needs.
StreamTypes ==
  /\ kind \in {"fork", "notify"}
  /\ file \in [Clients -> Files]
  /\ srvQ \in Seq(Clients)
  /\ worker \in [Clients -> Working \cup {"none", "zombie", "gone"}]
  /\ pos \in [Clients -> Nat]
  /\ cpc \in [Clients -> {"open", "send", "create", "receive", "done", "failed"}]
  /\ cliQ \in [Clients -> Seq(Int)]
  /\ got \in [Clients -> Seq(Int)]

StreamInv == StreamTypes /\ Requests /\ \A c \in Clients : Stream(c)

-----------------------------------------------------------------------------
(* Queues of blocks.                                                       *)

\* The messages of a queue after one has been sent to it.
LEMMA Appended ==
  ASSUME NEW q \in Seq(Int), NEW m \in Int, NEW k \in 1..Len(Append(q, m))
  PROVE  \/ Append(q, m)[k] = m
         \/ k \in 1..Len(q) /\ Append(q, m)[k] = q[k]
OBVIOUS

\* The next block sent goes to the end of the queue.
LEMMA NextBlock ==
  ASSUME NEW q \in Seq(Int), NEW g \in Nat, NEW n \in Nat, InOrder(q, g), UpTo(q, g, n)
  PROVE  InOrder(Append(q, n + 1), g) /\ UpTo(Append(q, n + 1), g, n + 1)
<1> DEFINE r == Append(q, n + 1)
<1>1. /\ Len(q) \in Nat /\ Len(r) = Len(q) + 1 /\ r[Len(q) + 1] = n + 1
      /\ \A k \in 1..Len(q) : r[k] = q[k] /\ q[k] \in Int
  OBVIOUS
<1>2. 1..Len(r) = 1..Len(q) \cup {Len(q) + 1}
  BY <1>1
<1> HIDE DEF r
<1>3. \A k \in 1..Len(q) : q[k] <= n
  BY DEF UpTo
<1>4. ASSUME NEW k \in 1..Len(r), r[k] > 0
      PROVE  r[k] > g /\ (r[k] > g + 1 => \E j \in 1..Len(r) : j < k /\ r[j] = r[k] - 1)
  <2>1. CASE k \in 1..Len(q)
    BY <1>1, <1>2, <1>4, <2>1 DEF InOrder
  <2>2. CASE k = Len(q) + 1
    <3>1. r[k] = n + 1 /\ g <= n
      BY <1>1, <2>2 DEF UpTo
    <3>2. g # n => \E j \in 1..Len(q) : q[j] = n
      BY DEF UpTo
    <3>3. g # n => \E j \in 1..Len(r) : j < k /\ r[j] = n
      BY <1>1, <1>2, <2>2, <3>2
    <3>4. QED
      BY <3>1, <3>3
  <2>3. QED
    BY <1>2, <2>1, <2>2
<1>5. ASSUME NEW j \in 1..Len(r), NEW k \in 1..Len(r), j < k, r[j] > 0, r[k] > 0
      PROVE  r[j] < r[k]
  <2>1. j \in 1..Len(q)
    BY <1>1, <1>5
  <2>2. CASE k \in 1..Len(q)
    BY <1>1, <1>5, <2>1, <2>2 DEF InOrder
  <2>3. CASE k = Len(q) + 1
    BY <1>1, <1>3, <2>1, <2>3
  <2>4. QED
    BY <1>2, <2>2, <2>3
<1>6. InOrder(r, g)
  BY <1>4, <1>5 DEF InOrder
<1>7. UpTo(r, g, n + 1)
  <2>1. \E k \in 1..Len(r) : r[k] = n + 1
    BY <1>1, <1>2
  <2>2. \A k \in 1..Len(r) : r[k] <= n + 1
    BY <1>1, <1>2, <1>3
  <2>3. g <= n + 1
    BY DEF UpTo
  <2>4. QED
    BY <2>1, <2>2, <2>3 DEF UpTo
<1>8. QED
  BY <1>6, <1>7 DEF r

\* A message that is no block changes nothing about them.
LEMMA NoBlock ==
  ASSUME NEW q \in Seq(Int), NEW g \in Nat, NEW m \in Int, m <= 0, InOrder(q, g)
  PROVE  /\ InOrder(Append(q, m), g)
         /\ \A n \in Nat : UpTo(q, g, n) => UpTo(Append(q, m), g, n)
<1> DEFINE r == Append(q, m)
<1>1. /\ Len(q) \in Nat /\ Len(r) = Len(q) + 1 /\ r[Len(q) + 1] = m
      /\ \A k \in 1..Len(q) : r[k] = q[k] /\ q[k] \in Int
  OBVIOUS
<1>2. 1..Len(r) = 1..Len(q) \cup {Len(q) + 1}
  BY <1>1
<1> HIDE DEF r
<1>3. \A k \in 1..Len(r) : r[k] > 0 => k \in 1..Len(q)
  BY <1>1, <1>2
<1>4. InOrder(r, g)
  <2>1. ASSUME NEW k \in 1..Len(r), r[k] > 0
        PROVE  r[k] > g /\ (r[k] > g + 1 => \E j \in 1..Len(r) : j < k /\ r[j] = r[k] - 1)
    <3>1. k \in 1..Len(q) /\ r[k] = q[k]
      BY <1>1, <1>3, <2>1
    <3>2. q[k] > g /\ (q[k] > g + 1 => \E j \in 1..Len(q) : j < k /\ q[j] = q[k] - 1)
      BY <2>1, <3>1 DEF InOrder
    <3>3. QED
      BY <1>1, <1>2, <3>1, <3>2
  <2>2. ASSUME NEW j \in 1..Len(r), NEW k \in 1..Len(r), j < k, r[j] > 0, r[k] > 0
        PROVE  r[j] < r[k]
    BY <1>1, <1>3, <2>2 DEF InOrder
  <2>3. QED
    BY <2>1, <2>2 DEF InOrder
<1>5. ASSUME NEW n \in Nat, UpTo(q, g, n)
      PROVE  UpTo(r, g, n)
  <2>1. g = n \/ \E k \in 1..Len(r) : r[k] = n
    BY <1>1, <1>2, <1>5 DEF UpTo
  <2>2. \A k \in 1..Len(r) : r[k] <= n
    BY <1>1, <1>2, <1>5 DEF UpTo
  <2>3. QED
    BY <1>5, <2>1, <2>2 DEF UpTo
<1>6. QED
  BY <1>4, <1>5 DEF r

\* The tail of a queue.
LEMMA TailOf ==
  ASSUME NEW q \in Seq(Int), Len(q) > 0
  PROVE  /\ Tail(q) \in Seq(Int) /\ Len(Tail(q)) = Len(q) - 1 /\ Head(q) = q[1]
         /\ \A k \in 1..Len(Tail(q)) : k + 1 \in 1..Len(q) /\ Tail(q)[k] = q[k + 1]
         /\ \A k \in 1..Len(q) : k = 1 \/ (k - 1 \in 1..Len(Tail(q)) /\ Tail(q)[k - 1] = q[k])
<1>1. /\ q # <<>> /\ Tail(q) \in Seq(Int) /\ Len(Tail(q)) = Len(q) - 1 /\ Head(q) = q[1]
      /\ \A k \in 1..Len(Tail(q)) : Tail(q)[k] = q[k + 1]
  OBVIOUS
<1> DEFINE t == Tail(q)
<1> HIDE DEF t
<1>2. Len(t) = Len(q) - 1 /\ \A k \in 1..Len(t) : t[k] = q[k + 1]
  BY <1>1 DEF t
<1>3. Len(q) \in Nat
  OBVIOUS
<1>4. \A k \in 1..Len(t) : k + 1 \in 1..Len(q)
  BY <1>2, <1>3
<1>5. ASSUME NEW k \in 1..Len(q), k # 1
      PROVE  k - 1 \in 1..Len(t) /\ t[k - 1] = q[k]
  <2>1. k - 1 \in 1..Len(t) /\ (k - 1) + 1 = k
    BY <1>2, <1>3, <1>5
  <2>2. t[k - 1] = q[(k - 1) + 1]
    BY <1>2, <2>1
  <2>3. QED
    BY <2>1, <2>2
<1>6. QED
  BY <1>1, <1>2, <1>4, <1>5 DEF t

\* A block at the head of the queue is the next one.
LEMMA TakeBlock ==
  ASSUME NEW q \in Seq(Int), NEW g \in Nat, InOrder(q, g), Len(q) > 0, q[1] > 0
  PROVE  /\ q[1] = g + 1
         /\ InOrder(Tail(q), g + 1)
         /\ \A n \in Nat : UpTo(q, g, n) => UpTo(Tail(q), g + 1, n)
<1> DEFINE t == Tail(q)
<1>1. /\ Len(q) \in Nat /\ Len(t) = Len(q) - 1
      /\ \A k \in 1..Len(t) : k + 1 \in 1..Len(q) /\ t[k] = q[k + 1]
      /\ \A k \in 1..Len(q) : k = 1 \/ (k - 1 \in 1..Len(t) /\ t[k - 1] = q[k])
      /\ \A k \in 1..Len(q) : q[k] \in Int
  BY TailOf
<1> HIDE DEF t
<1>2. 1 \in 1..Len(q)
  BY <1>1
<1>3. q[1] = g + 1
  <2>1. q[1] \in Int /\ q[1] > g
    BY <1>1, <1>2 DEF InOrder
  <2>2. ASSUME q[1] > g + 1 PROVE FALSE
    <3>1. PICK j \in 1..Len(q) : j < 1 /\ q[j] = q[1] - 1
      BY <1>2, <2>2 DEF InOrder
    <3>2. QED
      BY <3>1
  <2>3. QED
    BY <2>1, <2>2
<1>4. ASSUME NEW k \in 1..Len(t), t[k] > 0
      PROVE  t[k] > g + 1 /\ (t[k] > g + 1 + 1 => \E j \in 1..Len(t) : j < k /\ t[j] = t[k] - 1)
  <2>1. k + 1 \in 1..Len(q) /\ t[k] = q[k + 1] /\ q[k + 1] \in Int
    BY <1>1
  <2>2. q[k + 1] > g + 1
    <3>1. 1 < k + 1
      OBVIOUS
    <3>2. q[1] < q[k + 1]
      BY <1>2, <1>4, <2>1, <3>1 DEF InOrder
    <3>3. QED
      BY <1>3, <3>2
  <2>3. ASSUME t[k] > g + 1 + 1
        PROVE  \E j \in 1..Len(t) : j < k /\ t[j] = t[k] - 1
    <3>1. PICK j \in 1..Len(q) : j < k + 1 /\ q[j] = q[k + 1] - 1
      BY <1>4, <2>1, <2>2, <2>3 DEF InOrder
    <3>2. j # 1
      BY <1>3, <2>1, <2>3, <3>1
    <3>3. j - 1 \in 1..Len(t) /\ t[j - 1] = q[j] /\ j - 1 < k
      BY <1>1, <3>1, <3>2
    <3>4. QED
      BY <2>1, <3>1, <3>3
  <2>4. QED
    BY <2>1, <2>2, <2>3
<1>5. ASSUME NEW j \in 1..Len(t), NEW k \in 1..Len(t), j < k, t[j] > 0, t[k] > 0
      PROVE  t[j] < t[k]
  BY <1>1, <1>5 DEF InOrder
<1>6. ASSUME NEW n \in Nat, UpTo(q, g, n)
      PROVE  UpTo(t, g + 1, n)
  <2>1. g + 1 <= n
    BY <1>2, <1>3, <1>6 DEF UpTo
  <2>2. \A k \in 1..Len(t) : t[k] <= n
    BY <1>1, <1>6 DEF UpTo
  <2>3. g + 1 = n \/ \E k \in 1..Len(t) : t[k] = n
    <3>1. PICK k \in 1..Len(q) : q[k] = n
      BY <1>6, <2>1 DEF UpTo
    <3>2. CASE k = 1
      BY <1>3, <3>1, <3>2
    <3>3. CASE k # 1
      BY <1>1, <3>1, <3>3
    <3>4. QED
      BY <3>2, <3>3
  <2>4. QED
    BY <2>1, <2>2, <2>3 DEF UpTo
<1>7. QED
  BY <1>3, <1>4, <1>5, <1>6 DEF InOrder, t

\* Another message at the head of the queue is taken from before the blocks.
LEMMA TakeOther ==
  ASSUME NEW q \in Seq(Int), NEW g \in Nat, InOrder(q, g), Len(q) > 0, ~(q[1] > 0)
  PROVE  /\ InOrder(Tail(q), g)
         /\ \A n \in Nat : UpTo(q, g, n) => UpTo(Tail(q), g, n)
<1> DEFINE t == Tail(q)
<1>1. /\ Len(q) \in Nat /\ Len(t) = Len(q) - 1
      /\ \A k \in 1..Len(t) : k + 1 \in 1..Len(q) /\ t[k] = q[k + 1]
      /\ \A k \in 1..Len(q) : k = 1 \/ (k - 1 \in 1..Len(t) /\ t[k - 1] = q[k])
      /\ \A k \in 1..Len(q) : q[k] \in Int
  BY TailOf
<1> HIDE DEF t
<1>4. ASSUME NEW k \in 1..Len(t), t[k] > 0
      PROVE  t[k] > g /\ (t[k] > g + 1 => \E j \in 1..Len(t) : j < k /\ t[j] = t[k] - 1)
  <2>1. k + 1 \in 1..Len(q) /\ t[k] = q[k + 1] /\ q[k + 1] \in Int
    BY <1>1
  <2>2. q[k + 1] > g
    BY <1>4, <2>1 DEF InOrder
  <2>3. ASSUME t[k] > g + 1
        PROVE  \E j \in 1..Len(t) : j < k /\ t[j] = t[k] - 1
    <3>1. PICK j \in 1..Len(q) : j < k + 1 /\ q[j] = q[k + 1] - 1
      BY <1>4, <2>1, <2>3 DEF InOrder
    <3>2. j # 1
      BY <2>1, <2>3, <3>1
    <3>3. j - 1 \in 1..Len(t) /\ t[j - 1] = q[j] /\ j - 1 < k
      BY <1>1, <3>1, <3>2
    <3>4. QED
      BY <2>1, <3>1, <3>3
  <2>4. QED
    BY <2>1, <2>2, <2>3
<1>5. ASSUME NEW j \in 1..Len(t), NEW k \in 1..Len(t), j < k, t[j] > 0, t[k] > 0
      PROVE  t[j] < t[k]
  BY <1>1, <1>5 DEF InOrder
<1>6. ASSUME NEW n \in Nat, UpTo(q, g, n)
      PROVE  UpTo(t, g, n)
  <2>2. \A k \in 1..Len(t) : t[k] <= n
    BY <1>1, <1>6 DEF UpTo
  <2>3. g = n \/ \E k \in 1..Len(t) : t[k] = n
    <3>1. ASSUME g # n PROVE \E k \in 1..Len(t) : t[k] = n
      <4>1. PICK k \in 1..Len(q) : q[k] = n
        BY <1>6, <3>1 DEF UpTo
      <4>2. k # 1
        BY <1>6, <3>1, <4>1 DEF UpTo
      <4>3. QED
        BY <1>1, <4>1, <4>2
    <3>2. QED
      BY <3>1
  <2>4. QED
    BY <1>6, <2>2, <2>3 DEF UpTo
<1>7. QED
  BY <1>4, <1>5, <1>6 DEF InOrder, t

-----------------------------------------------------------------------------
(* Every step keeps the streams.                                           *)

\* Nothing of d's stream changes, but for its worker, which may be over, and its
\* client, which may go on but not be done.
Rests(d) ==
  /\ file'[d] = file[d] /\ pos'[d] = pos[d] /\ cliQ'[d] = cliQ[d] /\ got'[d] = got[d]
  /\ cpc'[d] = "done" => cpc[d] = "done"
  /\ worker'[d] = worker[d] \/ (worker[d] # "none" /\ worker'[d] \in {"zombie", "gone"})

\* A stream that rests stays as it should be.
LEMMA RestsKeeps ==
  ASSUME NEW d \in Clients, Stream(d), Rests(d)
  PROVE  Stream(d)'
<1> USE DEF Stream, Rests
<1>1. Fresh(d)' /\ IsDone(d)'
  BY DEF Fresh, IsDone
<1>2. Refused(d)'
  BY DEF Refused
<1>3. Flows(d)'
  BY DEF Flows, InOrder, UpTo, Sent, Working
<1>4. EndsWell(d)'
  BY DEF EndsWell, UpTo
<1>5. QED
  BY <1>1, <1>2, <1>3, <1>4

\* The requests stay distinct and without a worker.
LEMMA RequestsKeep ==
  ASSUME Requests, srvQ' = srvQ, \A d \in Clients : worker[d] = "none" => worker'[d] = "none",
         \A d \in Clients : cpc'[d] \in {"open", "send"} => cpc[d] \in {"open", "send"},
         srvQ \in Seq(Clients)
  PROVE  Requests'
<1>1. \A k \in 1..Len(srvQ) : srvQ[k] \in Clients
  OBVIOUS
<1>2. QED
  BY <1>1 DEF Requests

\* What a step that is about one stream has to show.
LEMMA OneMoves ==
  ASSUME StreamInv, NEW c \in Clients, StreamTypes', Requests', Stream(c)',
         \A d \in Clients \ {c} : Rests(d)
  PROVE  StreamInv'
BY RestsKeeps DEF StreamInv

\* Every stream rests at first.
LEMMA InitStream == Init => StreamInv
<1> SUFFICES ASSUME Init PROVE StreamInv
  OBVIOUS
<1> USE DEF Init
<1>1. Len(<<>>) = 0 /\ <<>> \in Seq(Int) /\ <<>> \in Seq(Clients)
  OBVIOUS
<1>2. StreamTypes /\ Requests
  BY <1>1, MqAssumption DEF StreamTypes, Requests
<1>3. ASSUME NEW c \in Clients PROVE Stream(c)
  <2>1. /\ cliQ[c] = <<>> /\ got[c] = <<>> /\ pos[c] = 0 /\ cpc[c] = "open" /\ worker[c] = "none"
    OBVIOUS
  <2>2. Fresh(c) /\ Refused(c) /\ IsDone(c)
    BY <1>1, <2>1 DEF Fresh, Refused, IsDone
  <2>3. Flows(c) /\ EndsWell(c)
    BY <1>1, <2>1 DEF Flows, EndsWell, InOrder, Working
  <2>4. QED
    BY <2>2, <2>3 DEF Stream
<1>4. QED
  BY <1>2, <1>3 DEF StreamInv

\* Steps of the server and the clients that move no message.
LEMMA NothingFlows ==
  ASSUME StreamInv, UNCHANGED <<kind, file, pos, cliQ, got, srvQ>>, StreamTypes',
         \A d \in Clients : /\ cpc'[d] = "done" => cpc[d] = "done"
                            /\ cpc'[d] \in {"open", "send"} => cpc[d] \in {"open", "send"},
         \A d \in Clients :
           worker'[d] = worker[d] \/ (worker[d] # "none" /\ worker'[d] \in {"zombie", "gone"})
  PROVE  StreamInv'
<1>1. \A d \in Clients : Rests(d)
  BY DEF Rests
<1>2. Requests'
  BY RequestsKeep DEF StreamInv, StreamTypes
<1>3. QED
  BY <1>1, <1>2, RestsKeeps DEF StreamInv

\* The child or thread for a request starts with nothing read or sent.
LEMMA Dequeues ==
  ASSUME StreamInv, UNCHANGED <<kind, file, pos, cliQ, got, cpc>>, srvQ # <<>>, srvQ' = Tail(srvQ),
         worker' = worker \/ worker' = [worker EXCEPT ![Head(srvQ)] = "open"]
  PROVE  StreamInv'
<1>0. PICK c \in Clients : c = Head(srvQ)
  BY DEF StreamInv, StreamTypes
<1>1. /\ srvQ \in Seq(Clients) /\ Len(srvQ) > 0 /\ Len(srvQ) \in Nat
      /\ StreamTypes /\ Requests /\ c = srvQ[1]
  BY <1>0 DEF StreamInv, StreamTypes
<1>2. /\ srvQ' \in Seq(Clients) /\ Len(srvQ') = Len(srvQ) - 1
      /\ \A k \in 1..Len(srvQ') : srvQ'[k] = srvQ[k + 1]
  BY <1>1
<1>3. worker[c] = "none" /\ cpc[c] \notin {"open", "send"}
  BY <1>1 DEF Requests
<1>4. \A k \in 1..Len(srvQ') : k + 1 \in 1..Len(srvQ) /\ srvQ'[k] # c
  BY <1>1, <1>2 DEF Requests
<1>5. worker' \in [Clients -> Working \cup {"none", "zombie", "gone"}]
  BY <1>1 DEF StreamTypes, Working
<1>6. worker'[c] \in {"none", "open"} /\ \A d \in Clients \ {c} : worker'[d] = worker[d]
  BY <1>0, <1>1, <1>3 DEF StreamTypes
<1>7. StreamTypes'
  BY <1>1, <1>2, <1>5 DEF StreamTypes
<1>8. Requests'
  <2>1. \A j, k \in 1..Len(srvQ') : srvQ'[j] = srvQ'[k] => j = k
    BY <1>1, <1>2, <1>4 DEF Requests
  <2>2. \A k \in 1..Len(srvQ') : srvQ'[k] \in Clients
    BY <1>2
  <2>3. \A k \in 1..Len(srvQ') : worker'[srvQ'[k]] = "none" /\ cpc'[srvQ'[k]] \notin {"open", "send"}
    BY <1>1, <1>2, <1>4, <1>6, <2>2 DEF Requests
  <2>4. \A d \in Clients : cpc'[d] \in {"open", "send"} => worker'[d] = "none"
    BY <1>1, <1>3, <1>6 DEF Requests
  <2>5. QED
    BY <2>1, <2>3, <2>4 DEF Requests
<1>9. Stream(c)'
  <2>1. Stream(c)
    BY <1>1 DEF StreamInv
  <2>2. Len(got[c]) = 0 /\ Len(cliQ[c]) = 0 /\ pos[c] = 0
    BY <1>3, <2>1 DEF Stream, Fresh
  <2>3. Fresh(c)' /\ Refused(c)' /\ IsDone(c)'
    BY <1>6, <2>1, <2>2 DEF Stream, Fresh, Refused, IsDone
  <2>4. EndsWell(c)'
    BY <2>2 DEF EndsWell
  <2>5. Flows(c)'
    BY <1>6, <2>2 DEF Flows, InOrder, UpTo, Sent
  <2>6. QED
    BY <2>3, <2>4, <2>5 DEF Stream
<1>10. \A d \in Clients \ {c} : Rests(d)
  BY <1>6 DEF Rests
<1>11. QED
  BY <1>1, <1>7, <1>8, <1>9, <1>10, OneMoves

\* A request is queued by a client that has none and no worker.
LEMMA RequestArrives ==
  ASSUME StreamInv, NEW c \in Clients, ClientSends(c)
  PROVE  StreamInv'
<1> USE DEF ClientSends, given, workVars
<1>1. /\ srvQ \in Seq(Clients) /\ Len(srvQ) \in Nat /\ StreamTypes /\ Requests
      /\ worker[c] = "none"
  BY DEF StreamInv, StreamTypes, Requests
<1>2. /\ srvQ' \in Seq(Clients) /\ Len(srvQ') = Len(srvQ) + 1 /\ srvQ'[Len(srvQ) + 1] = c
      /\ \A k \in 1..Len(srvQ) : srvQ'[k] = srvQ[k] /\ srvQ[k] \in Clients
  BY <1>1
<1>3. 1..Len(srvQ') = 1..Len(srvQ) \cup {Len(srvQ) + 1} /\ \A k \in 1..Len(srvQ) : srvQ[k] # c
  BY <1>1, <1>2 DEF Requests
<1>4. cpc'[c] = "create" /\ \A d \in Clients \ {c} : cpc'[d] = cpc[d]
  BY <1>1 DEF StreamTypes
<1>5. StreamTypes'
  BY <1>1, <1>2 DEF StreamTypes
<1>6. Requests'
  <2>1. \A j, k \in 1..Len(srvQ') : srvQ'[j] = srvQ'[k] => j = k
    BY <1>1, <1>2, <1>3 DEF Requests
  <2>2. \A k \in 1..Len(srvQ') : worker'[srvQ'[k]] = "none" /\ cpc'[srvQ'[k]] \notin {"open", "send"}
    BY <1>1, <1>2, <1>3, <1>4 DEF Requests
  <2>3. \A d \in Clients : cpc'[d] \in {"open", "send"} => worker'[d] = "none"
    BY <1>1, <1>4 DEF Requests
  <2>4. QED
    BY <2>1, <2>2, <2>3 DEF Requests
<1>7. \A d \in Clients : Rests(d)
  BY <1>4 DEF Rests
<1>8. QED
  BY <1>5, <1>6, <1>7, RestsKeeps DEF StreamInv

\* A step of a worker leaves the requests and the other streams alone.
LEMMA WorkerMoves ==
  ASSUME StreamInv, NEW c \in Clients, UNCHANGED <<kind, file, srvQ, cpc, got>>,
         worker' = [worker EXCEPT ![c] = worker'[c]], worker[c] # "none",
         worker'[c] \in Working \cup {"zombie", "gone"},
         pos' = [pos EXCEPT ![c] = pos'[c]], pos'[c] \in Nat,
         cliQ' = [cliQ EXCEPT ![c] = cliQ'[c]], cliQ'[c] \in Seq(Int),
         Stream(c)'
  PROVE  StreamInv'
<1>1. StreamTypes'
  <2>1. StreamTypes
    BY DEF StreamInv
  <2>2. worker' \in [Clients -> Working \cup {"none", "zombie", "gone"}]
    BY <2>1 DEF StreamTypes
  <2>3. pos' \in [Clients -> Nat] /\ cliQ' \in [Clients -> Seq(Int)]
    BY <2>1 DEF StreamTypes
  <2>4. QED
    BY <2>1, <2>2, <2>3 DEF StreamTypes
<1>2. Requests'
  <2>1. \A d \in Clients : worker[d] = "none" => worker'[d] = "none"
    BY DEF StreamInv, StreamTypes
  <2>2. QED
    BY <2>1, RequestsKeep DEF StreamInv, StreamTypes
<1>3. \A d \in Clients \ {c} : Rests(d)
  BY DEF Rests, StreamInv, StreamTypes
<1>4. QED
  BY <1>1, <1>2, <1>3, OneMoves

\* open() of a file that is there.
LEMMA OpensKeep ==
  ASSUME StreamInv, NEW c \in Clients, WorkerOpens(c)
  PROVE  StreamInv'
<1> USE DEF WorkerOpens, given, srvVars, cliVars
<1>1. Stream(c) /\ StreamTypes
  BY DEF StreamInv
<1>2. worker'[c] = "read" /\ Len(got[c]) = 0 /\ Len(cliQ[c]) = 0 /\ pos[c] = 0
  BY <1>1 DEF Stream, Fresh, StreamTypes
<1>3. Fresh(c)' /\ Refused(c)' /\ IsDone(c)' /\ EndsWell(c)'
  BY <1>1, <1>2 DEF Stream, Fresh, Refused, IsDone, EndsWell
<1>4. Flows(c)'
  BY <1>1, <1>2 DEF Flows, InOrder, UpTo, Sent
<1>5. Stream(c)'
  BY <1>3, <1>4 DEF Stream
<1>6. QED
  BY <1>1, <1>2, <1>5, WorkerMoves DEF StreamTypes, Working

\* RESP_FAILE, and the end of the child or of the whole server.
LEMMA FailsKeep ==
  ASSUME StreamInv, NEW c \in Clients, WorkerFails(c)
  PROVE  StreamInv'
<1> USE DEF WorkerFails, given, cliVars
<1>1. /\ Stream(c) /\ StreamTypes /\ Requests /\ worker[c] = "open" /\ file[c] = Missing
      /\ kind' = kind /\ file' = file /\ srvQ' = srvQ /\ cpc' = cpc /\ pos' = pos /\ got' = got
  BY DEF StreamInv, srvVars
<1>2. Len(got[c]) = 0 /\ Len(cliQ[c]) = 0 /\ cliQ[c] \in Seq(Int)
  BY <1>1 DEF Stream, Fresh, StreamTypes
<1>3. /\ cliQ' = [cliQ EXCEPT ![c] = cliQ'[c]] /\ cliQ'[c] \in Seq(Int)
      /\ Len(cliQ'[c]) = 1 /\ cliQ'[c][1] = FAILE
  BY <1>1, <1>2 DEF StreamTypes, FAILE
<1>4. /\ worker' \in [Clients -> Working \cup {"none", "zombie", "gone"}]
      /\ worker'[c] \in {"zombie", "gone"}
      /\ \A d \in Clients : d = c \/ worker'[d] = worker[d]
                            \/ (worker[d] # "none" /\ worker'[d] \in {"zombie", "gone"})
  <2>1. CASE kind = "fork"
    <3>1. \E to \in {"zombie", "gone"} : worker' = [worker EXCEPT ![c] = to]
      BY <2>1 DEF Exits
    <3>2. QED
      BY <1>1, <3>1 DEF StreamTypes
  <2>2. CASE kind # "fork"
    <3>1. worker' = Orphans
      BY <2>2
    <3>2. \A d \in Clients : \/ worker'[d] = worker[d] /\ (kind # "notify" \/ worker[d] \notin Working)
                             \/ worker[d] \in Working /\ worker'[d] = "gone"
      BY <3>1 DEF Orphans
    <3>3. kind = "notify" => worker'[c] = "gone"
      BY <1>1, <3>2 DEF Working
    <3>4. QED
      BY <1>1, <2>2, <3>1, <3>2, <3>3 DEF StreamTypes, Orphans, Working
  <2>3. QED
    BY <2>1, <2>2
<1>5. Fresh(c)' /\ IsDone(c)'
  BY <1>1, <1>4 DEF Stream, Fresh, IsDone
<1>6. Refused(c)' /\ EndsWell(c)'
  BY <1>1, <1>2, <1>3, <1>4 DEF Refused, EndsWell, FAILE, END
<1>7. Flows(c)'
  BY <1>1, <1>2, <1>3, <1>4 DEF Flows, InOrder, FAILE, Working
<1>8. Stream(c)'
  BY <1>5, <1>6, <1>7 DEF Stream
<1>9. StreamTypes'
  BY <1>1, <1>3, <1>4 DEF StreamTypes
<1>10. \A d \in Clients : worker[d] = "none" => worker'[d] = "none"
  BY <1>1, <1>4
<1>11. Requests'
  BY <1>1, <1>10, RequestsKeep DEF StreamTypes
<1>12. \A d \in Clients \ {c} : Rests(d)
  BY <1>1, <1>3, <1>4 DEF Rests, StreamTypes
<1>13. QED
  BY <1>8, <1>9, <1>11, <1>12, OneMoves

\* read() takes the next block, finds the end of the file, or fails.
LEMMA ReadsKeep ==
  ASSUME StreamInv, NEW c \in Clients, WorkerReads(c)
  PROVE  StreamInv'
<1> USE DEF WorkerReads, given, srvVars, cliVars
<1>1. /\ Stream(c) /\ StreamTypes /\ worker[c] = "read" /\ pos[c] \in Nat
      /\ UNCHANGED <<kind, file, srvQ, cpc, got, cliQ>>
  BY DEF StreamInv, StreamTypes
<1>2. \/ worker'[c] = "send" /\ pos'[c] = pos[c] + 1
      \/ worker'[c] = "end" /\ pos'[c] = pos[c] /\ pos[c] = file[c]
      \/ worker'[c] = "sendBad" /\ pos'[c] = pos[c]
  BY <1>1 DEF StreamTypes
<1>3. /\ worker' = [worker EXCEPT ![c] = worker'[c]] /\ pos' = [pos EXCEPT ![c] = pos'[c]]
      /\ cliQ' = [cliQ EXCEPT ![c] = cliQ'[c]] /\ cliQ'[c] \in Seq(Int)
  BY <1>1 DEF StreamTypes
<1>4. worker'[c] \in {"send", "sendBad", "end"} /\ pos'[c] \in Nat /\ Sent(c)' = Sent(c)
  BY <1>1, <1>2 DEF Sent
<1>5. Fresh(c)' /\ Refused(c)' /\ IsDone(c)' /\ EndsWell(c)'
  BY <1>1, <1>4 DEF Stream, Fresh, Refused, IsDone, EndsWell
<1>6. Flows(c)'
  <2>1. InOrder(cliQ[c], Len(got[c])) /\ UpTo(cliQ[c], Len(got[c]), Sent(c))
    BY <1>1 DEF Stream, Flows, Working
  <2>2. InOrder(cliQ[c], Len(got[c]))' /\ UpTo(cliQ[c], Len(got[c]), Sent(c))'
    BY <1>1, <1>4, <2>1 DEF InOrder, UpTo
  <2>3. \A b \in 1..Len(got'[c]) : got'[c][b] = b
    BY <1>1 DEF Stream, Flows
  <2>4. (worker'[c] = "send" => pos'[c] > 0) /\ (worker'[c] = "end" => pos'[c] = file'[c])
    BY <1>1, <1>2
  <2>5. QED
    BY <2>2, <2>3, <2>4 DEF Flows
<1>7. Stream(c)'
  BY <1>5, <1>6 DEF Stream
<1>8. QED
  BY <1>1, <1>3, <1>4, <1>7, WorkerMoves DEF Working

\* mq_send() of the block in hand, or of a read error.
LEMMA SendsKeep ==
  ASSUME StreamInv, NEW c \in Clients, WorkerSends(c)
  PROVE  StreamInv'
<1> USE DEF WorkerSends, given, srvVars, cliVars
<1>1. /\ Stream(c) /\ StreamTypes /\ worker[c] \in {"send", "sendBad"} /\ pos[c] \in Nat
      /\ UNCHANGED <<kind, file, srvQ, cpc, got, pos>> /\ worker'[c] = "read"
      /\ cliQ[c] \in Seq(Int) /\ Len(got[c]) \in Nat
  BY DEF StreamInv, StreamTypes
<1>2. /\ file[c] # Missing /\ InOrder(cliQ[c], Len(got[c])) /\ UpTo(cliQ[c], Len(got[c]), Sent(c))
      /\ worker[c] = "send" => pos[c] > 0
      /\ \A b \in 1..Len(got[c]) : got[c][b] = b
      /\ \A k \in 1..Len(cliQ[c]) : cliQ[c][k] \notin {FAILE, END} /\ cliQ[c][k] >= FAILE
  BY <1>1 DEF Stream, Flows, Refused, EndsWell, Working
<1>3. PICK m \in Int : /\ m = IF worker[c] = "send" THEN pos[c] ELSE Bad
                       /\ cliQ' = [cliQ EXCEPT ![c] = Append(@, m)]
  <2> DEFINE message == IF worker[c] = "send" THEN pos[c] ELSE Bad
  <2>1. message \in Int
    BY <1>1 DEF Bad
  <2>2. cliQ' = [cliQ EXCEPT ![c] = Append(@, message)]
    OBVIOUS
  <2> HIDE DEF message
  <2>3. \E m \in Int : m = message /\ cliQ' = [cliQ EXCEPT ![c] = Append(@, m)]
    BY <2>1, <2>2
  <2>4. QED
    BY <2>3 DEF message
<1>4. cliQ'[c] = Append(cliQ[c], m) /\ cliQ'[c] \in Seq(Int)
  BY <1>1, <1>3 DEF StreamTypes
<1>5. InOrder(cliQ'[c], Len(got[c])) /\ UpTo(cliQ'[c], Len(got[c]), pos[c])
  <2>1. CASE worker[c] = "send"
    <3>1. Sent(c) \in Nat /\ m = Sent(c) + 1 /\ m = pos[c]
      BY <1>1, <1>2, <1>3, <2>1 DEF Sent
    <3>2. QED
      BY <1>1, <1>2, <1>4, <3>1, NextBlock
  <2>2. CASE worker[c] = "sendBad"
    <3>1. Sent(c) = pos[c] /\ m <= 0
      BY <1>1, <1>3, <2>2 DEF Sent, Bad
    <3>2. QED
      BY <1>1, <1>2, <1>4, <3>1, NoBlock
  <2>3. QED
    BY <1>1, <2>1, <2>2
<1>6. \A k \in 1..Len(cliQ'[c]) : cliQ'[c][k] \notin {FAILE, END} /\ cliQ'[c][k] >= FAILE
  <2>1. m \notin {FAILE, END} /\ m >= FAILE
    <3>1. CASE worker[c] = "send"
      BY <1>1, <1>2, <1>3, <3>1 DEF FAILE, END
    <3>2. CASE worker[c] # "send"
      BY <1>3, <3>2 DEF FAILE, END, Bad
    <3>3. QED
      BY <3>1, <3>2
  <2>2. \A k \in 1..Len(cliQ'[c]) : \/ cliQ'[c][k] = m
                                    \/ k \in 1..Len(cliQ[c]) /\ cliQ'[c][k] = cliQ[c][k]
    BY <1>1, <1>4, Appended
  <2>3. QED
    BY <1>2, <2>1, <2>2
<1>7. Fresh(c)' /\ IsDone(c)'
  BY <1>1 DEF Stream, Fresh, IsDone
<1>8. Refused(c)' /\ EndsWell(c)'
  BY <1>1, <1>2, <1>6 DEF Refused, EndsWell
<1>9. Flows(c)'
  <2>1. Sent(c)' = pos[c]
    BY <1>1 DEF Sent
  <2>2. InOrder(cliQ[c], Len(got[c]))' /\ UpTo(cliQ[c], Len(got[c]), Sent(c))'
    BY <1>1, <1>5, <2>1 DEF InOrder, UpTo
  <2>3. QED
    BY <1>1, <1>2, <2>2 DEF Flows
<1>10. Stream(c)'
  BY <1>7, <1>8, <1>9 DEF Stream
<1>11. worker' = [worker EXCEPT ![c] = worker'[c]] /\ cliQ' = [cliQ EXCEPT ![c] = cliQ'[c]]
       /\ pos' = [pos EXCEPT ![c] = pos'[c]] /\ pos'[c] \in Nat
  BY <1>1, <1>4 DEF StreamTypes
<1>12. QED
  BY <1>1, <1>4, <1>10, <1>11, WorkerMoves DEF Working

\* RESP_END is sent once, after the last block.
LEMMA EndsKeep ==
  ASSUME StreamInv, NEW c \in Clients, WorkerEnds(c)
  PROVE  StreamInv'
<1> USE DEF WorkerEnds, given, srvVars, cliVars
<1>1. /\ Stream(c) /\ StreamTypes /\ worker[c] = "end" /\ pos[c] \in Nat
      /\ UNCHANGED <<kind, file, srvQ, cpc, got, pos>>
      /\ cliQ[c] \in Seq(Int) /\ Len(got[c]) \in Nat
  BY DEF StreamInv, StreamTypes
<1>2. /\ file[c] # Missing /\ pos[c] = file[c]
      /\ InOrder(cliQ[c], Len(got[c])) /\ UpTo(cliQ[c], Len(got[c]), pos[c])
      /\ \A b \in 1..Len(got[c]) : got[c][b] = b
      /\ \A k \in 1..Len(cliQ[c]) : cliQ[c][k] \notin {FAILE, END} /\ cliQ[c][k] >= FAILE
  BY <1>1 DEF Stream, Flows, Refused, EndsWell, Working, Sent
<1>3. worker' = [worker EXCEPT ![c] = worker'[c]] /\ worker'[c] \in {"zombie", "gone"}
  <2>1. \E to \in {"zombie", "gone"} : worker' = [worker EXCEPT ![c] = to]
    BY DEF Exits
  <2>2. QED
    BY <1>1, <2>1 DEF StreamTypes
<1>4. END \in Int /\ END <= 0 /\ END # FAILE /\ END >= FAILE
  BY DEF END, FAILE
<1>5. cliQ'[c] = Append(cliQ[c], END) /\ cliQ'[c] \in Seq(Int)
  BY <1>1, <1>4 DEF StreamTypes
<1>6. InOrder(cliQ'[c], Len(got[c])) /\ UpTo(cliQ'[c], Len(got[c]), file[c])
  BY <1>1, <1>2, <1>4, <1>5, NoBlock
<1>7. \A k \in 1..Len(cliQ'[c]) :
        \/ k = Len(cliQ'[c]) /\ cliQ'[c][k] = END
        \/ k \in 1..Len(cliQ[c]) /\ cliQ'[c][k] = cliQ[c][k]
  BY <1>1, <1>5
<1>8. Fresh(c)' /\ IsDone(c)'
  BY <1>1, <1>3 DEF Stream, Fresh, IsDone
<1>9. Refused(c)'
  BY <1>1, <1>2, <1>4, <1>7 DEF Refused
<1>10. EndsWell(c)'
  <2>1. UpTo(cliQ[c], Len(got[c]), file[c])'
    BY <1>1, <1>6 DEF UpTo
  <2>2. QED
    BY <1>2, <1>3, <1>7, <2>1 DEF EndsWell
<1>11. Flows(c)'
  <2>1. InOrder(cliQ[c], Len(got[c]))'
    BY <1>1, <1>6 DEF InOrder
  <2>2. QED
    BY <1>1, <1>2, <1>3, <2>1 DEF Flows, Working
<1>12. Stream(c)'
  BY <1>8, <1>9, <1>10, <1>11 DEF Stream
<1>13. /\ cliQ' = [cliQ EXCEPT ![c] = cliQ'[c]]
       /\ pos' = [pos EXCEPT ![c] = pos'[c]] /\ pos'[c] \in Nat
  BY <1>1, <1>5 DEF StreamTypes
<1>14. QED
  BY <1>1, <1>3, <1>5, <1>12, <1>13, WorkerMoves DEF Working

\* What a client takes from its queue is the next block, a read error that it
\* does not write, or the last message.
LEMMA ReceiveKeeps ==
  ASSUME StreamInv, NEW c \in Clients, ClientReceives(c)
  PROVE  StreamInv'
<1> USE DEF given, srvVars, workVars
<1>1. /\ Stream(c) /\ StreamTypes /\ Requests /\ cpc[c] = "receive" /\ Len(cliQ[c]) > 0
      /\ UNCHANGED <<kind, file, srvQ, worker, pos>>
      /\ cliQ[c] \in Seq(Int) /\ got[c] \in Seq(Int) /\ Len(got[c]) \in Nat
      /\ file[c] = Missing \/ file[c] \in Nat
  <2>1. \A q \in Seq(Int) : q # <<>> => Len(q) > 0
    OBVIOUS
  <2>2. file[c] \in Files
    BY DEF StreamInv, StreamTypes
  <2>3. file[c] = Missing \/ file[c] \in Nat
    <3>1. MaxBlocks \in Nat /\ Files \subseteq 0..MaxBlocks \cup {Missing}
      BY MqAssumption
    <3>2. \A x \in 0..MaxBlocks : x \in Nat
      BY <3>1
    <3>3. QED
      BY <2>2, <3>1, <3>2
  <2>4. QED
    BY <2>1, <2>3 DEF ClientReceives, StreamInv, StreamTypes
<1>2. PICK m \in Int : m = cliQ[c][1] /\ m = Head(cliQ[c])
  BY <1>1, TailOf
<1>3. /\ cliQ' = [cliQ EXCEPT ![c] = Tail(@)] /\ cliQ'[c] = Tail(cliQ[c])
      /\ cliQ'[c] \in Seq(Int) /\ Len(cliQ'[c]) = Len(cliQ[c]) - 1
      /\ \A k \in 1..Len(cliQ'[c]) : k + 1 \in 1..Len(cliQ[c]) /\ cliQ'[c][k] = cliQ[c][k + 1]
  BY <1>1, TailOf DEF ClientReceives, StreamTypes
<1>4. /\ InOrder(cliQ[c], Len(got[c])) /\ \A b \in 1..Len(got[c]) : got[c][b] = b
      /\ worker[c] \in Working => UpTo(cliQ[c], Len(got[c]), Sent(c)) /\ Sent(c) \in Nat
      /\ worker[c] = "send" => pos[c] > 0
      /\ worker[c] = "end" => pos[c] = file[c]
      /\ 1 \in 1..Len(cliQ[c])
  BY <1>1 DEF Stream, Flows, StreamTypes, Sent
<1>5. /\ cpc' \in [Clients -> {"open", "send", "create", "receive", "done", "failed"}]
      /\ cpc'[c] \in {"receive", "done"} /\ \A d \in Clients \ {c} : cpc'[d] = cpc[d]
  BY <1>1 DEF ClientReceives, StreamTypes
<1>6. Requests'
  <2>1. \A d \in Clients : cpc'[d] \in {"open", "send"} => cpc[d] \in {"open", "send"}
    BY <1>5
  <2>2. QED
    BY <1>1, <2>1, RequestsKeep DEF StreamTypes
\* What remains to be shown of each kind of message.
<1>7. ASSUME got' \in [Clients -> Seq(Int)], \A d \in Clients \ {c} : got'[d] = got[d],
             InOrder(cliQ'[c], Len(got'[c])), \A b \in 1..Len(got'[c]) : got'[c][b] = b,
             \A n \in Nat : UpTo(cliQ[c], Len(got[c]), n) => UpTo(cliQ'[c], Len(got'[c]), n),
             file[c] = Missing => Len(got'[c]) = 0,
             cpc'[c] = "done" => IF file[c] = Missing THEN Len(got'[c]) = 0
                                 ELSE Len(got'[c]) = file[c]
      PROVE  StreamInv'
  <2>1. StreamTypes'
    BY <1>1, <1>3, <1>5, <1>7 DEF StreamTypes
  <2>2. Fresh(c)'
    <3>1. worker[c] \notin {"none", "open"}
      BY <1>1 DEF Stream, Fresh
    <3>2. QED
      BY <1>1, <3>1 DEF Fresh
  <2>3. Refused(c)'
    BY <1>1, <1>3, <1>7 DEF Stream, Refused
  <2>4. Flows(c)'
    <3>1. InOrder(cliQ[c], Len(got[c]))' /\ Sent(c)' = Sent(c)
      BY <1>1, <1>7 DEF InOrder, Sent
    <3>2. worker[c] \in Working => UpTo(cliQ[c], Len(got[c]), Sent(c))'
      BY <1>4, <1>7, <3>1 DEF UpTo
    <3>3. QED
      BY <1>1, <1>4, <1>7, <3>1, <3>2 DEF Flows
  <2>5. EndsWell(c)'
    <3>1. SUFFICES ASSUME NEW k \in 1..Len(cliQ'[c]), cliQ'[c][k] = END
                   PROVE  /\ k = Len(cliQ'[c]) /\ worker'[c] \in {"zombie", "gone"}
                          /\ UpTo(cliQ[c], Len(got[c]), file[c])'
      BY DEF EndsWell
    <3>2. k + 1 \in 1..Len(cliQ[c]) /\ cliQ[c][k + 1] = END
      BY <1>3, <3>1
    <3>3. /\ k + 1 = Len(cliQ[c]) /\ worker[c] \in {"zombie", "gone"}
          /\ UpTo(cliQ[c], Len(got[c]), file[c])
      BY <1>1, <3>2 DEF Stream, EndsWell
    <3>4. file[c] # Missing
      <4>1. END # FAILE
        BY DEF END, FAILE
      <4>2. QED
        BY <1>1, <3>2, <4>1 DEF Stream, Refused
    <3>5. UpTo(cliQ[c], Len(got[c]), file[c])'
      BY <1>1, <1>7, <3>3, <3>4 DEF UpTo
    <3>6. k = Len(cliQ'[c])
      BY <1>1, <1>3, <3>3
    <3>7. QED
      BY <1>1, <3>3, <3>5, <3>6
  <2>6. IsDone(c)'
    BY <1>1, <1>7 DEF IsDone
  <2>7. Stream(c)'
    BY <2>2, <2>3, <2>4, <2>5, <2>6 DEF Stream
  <2>8. \A d \in Clients \ {c} : Rests(d)
    BY <1>1, <1>3, <1>5, <1>7 DEF Rests, StreamTypes
  <2>9. QED
    BY <1>6, <2>1, <2>7, <2>8, OneMoves
<1>8. CASE m > 0
  <2>1. m \notin {END, FAILE, Bad}
    BY <1>8 DEF END, FAILE, Bad
  <2>2. got' = [got EXCEPT ![c] = Append(@, m)] /\ cpc' = cpc
    BY <1>2, <2>1 DEF ClientReceives
  <2>3. /\ m = Len(got[c]) + 1 /\ InOrder(cliQ'[c], Len(got[c]) + 1)
        /\ \A n \in Nat : UpTo(cliQ[c], Len(got[c]), n) => UpTo(cliQ'[c], Len(got[c]) + 1, n)
    BY <1>1, <1>2, <1>3, <1>4, <1>8, TakeBlock
  <2>4. got'[c] = Append(got[c], m) /\ got' \in [Clients -> Seq(Int)]
    BY <1>1, <2>2 DEF StreamTypes
  <2>5. /\ Len(got'[c]) = Len(got[c]) + 1 /\ got'[c][Len(got[c]) + 1] = m
        /\ \A b \in 1..Len(got[c]) : got'[c][b] = got[c][b]
    BY <1>1, <2>4
  <2>6. \A b \in 1..Len(got'[c]) : got'[c][b] = b
    <3>1. \A b \in 1..Len(got'[c]) : b \in 1..Len(got[c]) \/ b = Len(got[c]) + 1
      BY <1>1, <2>5
    <3>2. QED
      BY <1>4, <2>3, <2>5, <3>1
  <2>7. file[c] # Missing
    BY <1>1, <1>2, <1>4, <2>1 DEF Stream, Refused
  <2>8. \A d \in Clients \ {c} : got'[d] = got[d]
    BY <1>1, <2>2 DEF StreamTypes
  <2>9. cpc'[c] # "done"
    BY <1>1, <2>2
  <2>10. QED
    BY <1>7, <2>3, <2>4, <2>5, <2>6, <2>7, <2>8, <2>9
<1>9. CASE ~(m > 0)
  <2>1. /\ InOrder(cliQ'[c], Len(got[c]))
        /\ \A n \in Nat : UpTo(cliQ[c], Len(got[c]), n) => UpTo(cliQ'[c], Len(got[c]), n)
    BY <1>1, <1>2, <1>3, <1>4, <1>9, TakeOther
  <2>2. got' = got
    <3>1. CASE m \in {END, FAILE}
      BY <1>2, <3>1 DEF ClientReceives
    <3>2. CASE m = Bad /\ m \notin {END, FAILE}
      BY <1>1, <1>2, <3>2 DEF ClientReceives, StreamTypes
    <3>3. CASE m \notin {END, FAILE, Bad}
      <4>1. got' = [got EXCEPT ![c] = Append(@, m)]
        BY <1>2, <3>3 DEF ClientReceives
      <4>2. m >= FAILE
        BY <1>1, <1>2, <1>4 DEF Stream, Refused
      <4>3. QED
        BY <1>9, <3>3, <4>2 DEF FAILE, Bad, END
    <3>4. QED
      BY <3>1, <3>2, <3>3
  <2>3. cpc'[c] = "done" => IF file[c] = Missing THEN Len(got[c]) = 0 ELSE Len(got[c]) = file[c]
    <3>1. cpc'[c] = "done" => m \in {END, FAILE}
      BY <1>1, <1>2 DEF ClientReceives
    <3>2. CASE m = FAILE
      BY <1>1, <1>2, <1>4, <3>2 DEF Stream, Refused
    <3>3. CASE m = END
      <4>1. m # FAILE /\ m <= 0
        BY <3>3 DEF FAILE, END
      <4>2. file[c] # Missing /\ Len(cliQ[c]) = 1 /\ UpTo(cliQ[c], Len(got[c]), file[c])
        BY <1>1, <1>2, <1>4, <3>3, <4>1 DEF Stream, Refused, EndsWell
      <4>3. \A k \in 1..Len(cliQ[c]) : cliQ[c][k] <= 0
        BY <1>2, <4>1, <4>2
      <4>4. Len(got[c]) = file[c]
        BY <1>1, <4>2, <4>3 DEF UpTo
      <4>5. QED
        BY <4>2, <4>4
    <3>4. QED
      BY <3>1, <3>2, <3>3
  <2>4. file[c] = Missing => Len(got[c]) = 0
    BY <1>1 DEF Stream, Refused
  <2>5. QED
    BY <1>1, <1>4, <1>7, <2>1, <2>2, <2>3, <2>4 DEF StreamTypes
<1>10. QED
  BY <1>8, <1>9

\* Every step keeps the streams.
LEMMA NextStream == StreamInv /\ [Next]_vars => StreamInv'
<1> SUFFICES ASSUME StreamInv, [Next]_vars PROVE StreamInv'
  OBVIOUS
<1> USE DEF given, srvVars, workVars, cliVars
<1>0. StreamTypes
  BY DEF StreamInv
<1>1. CASE ServerForks \/ ThreadReceives
  BY <1>1, Dequeues DEF ServerForks, ThreadReceives
<1>2. CASE \/ ServerStarts \/ ServerRegisters \/ ServerReaps \/ ThreadRegisters \/ ServerKilled
           \/ UNCHANGED vars
  <2>1. UNCHANGED <<kind, file, pos, cliQ, got, srvQ, cpc>>
    BY <1>2 DEF ServerStarts, ServerRegisters, ServerReaps, ThreadRegisters, ServerKilled, vars
  <2>2. /\ \A d \in Clients :
             worker'[d] = worker[d] \/ (worker[d] # "none" /\ worker'[d] \in {"zombie", "gone"})
        /\ worker' \in [Clients -> Working \cup {"none", "zombie", "gone"}]
    <3>1. CASE UNCHANGED worker
      BY <1>0, <3>1 DEF StreamTypes
    <3>2. CASE ServerReaps
      BY <1>0, <3>2 DEF StreamTypes, ServerReaps
    <3>3. CASE ServerKilled
      BY <1>0, <3>3 DEF StreamTypes, ServerKilled, Orphans, Working
    <3>4. QED
      BY <1>2, <3>1, <3>2, <3>3 DEF ServerStarts, ServerRegisters, ThreadRegisters, vars
  <2>3. StreamTypes'
    BY <1>0, <2>1, <2>2 DEF StreamTypes
  <2>4. QED
    BY <2>1, <2>2, <2>3, NothingFlows
<1>3. ASSUME NEW c \in Clients, Worker(c)
      PROVE  StreamInv'
  BY <1>3, OpensKeep, FailsKeep, ReadsKeep, SendsKeep, EndsKeep DEF Worker
<1>4. ASSUME NEW c \in Clients, ClientCreates(c) \/ ClientOpens(c) \/ ClientKilled(c)
      PROVE  StreamInv'
  <2>1. UNCHANGED <<kind, file, pos, cliQ, got, srvQ, worker>>
    BY <1>4 DEF ClientCreates, ClientOpens, ClientKilled
  <2>2. CASE ClientOpens(c)
    <3>1. PICK to \in {"send", "failed"} : cpc' = [cpc EXCEPT ![c] = to] /\ cpc[c] = "open"
      BY <2>2 DEF ClientOpens
    <3>2. StreamTypes'
      BY <1>0, <2>1, <3>1 DEF StreamTypes
    <3>3. QED
      BY <1>0, <2>1, <3>1, <3>2, NothingFlows DEF StreamTypes
  <2>3. CASE ClientCreates(c) \/ ClientKilled(c)
    <3>1. PICK to \in {"receive", "failed"} : cpc' = [cpc EXCEPT ![c] = to]
      BY <2>3 DEF ClientCreates, ClientKilled
    <3>2. StreamTypes'
      BY <1>0, <2>1, <3>1 DEF StreamTypes
    <3>3. QED
      BY <1>0, <2>1, <3>1, <3>2, NothingFlows DEF StreamTypes
  <2>4. QED
    BY <1>4, <2>2, <2>3
<1>5. ASSUME NEW c \in Clients, Client(c)
      PROVE  StreamInv'
  BY <1>4, <1>5, RequestArrives, ReceiveKeeps DEF Client
<1>6. QED
  BY <1>1, <1>2, <1>3, <1>4, <1>5 DEF Next, Server

\* A client that prints "receive end!" has its file, every block of it in order,
\* for files and queues of any size, any number of clients, and whatever fails.
THEOREM EndMeansWholeFile == Spec => []EndIsTheWholeFile
<1>1. StreamInv => EndIsTheWholeFile
  <2> SUFFICES ASSUME StreamInv, NEW c \in Clients, cpc[c] = "done"
               PROVE  got[c] = [b \in 1..(IF file[c] = Missing THEN 0 ELSE file[c]) |-> b]
    BY DEF EndIsTheWholeFile
  <2>1. /\ got[c] \in Seq(Int) /\ \A b \in 1..Len(got[c]) : got[c][b] = b
        /\ Len(got[c]) = IF file[c] = Missing THEN 0 ELSE file[c]
    BY DEF StreamInv, StreamTypes, Stream, Flows, IsDone
  <2>2. got[c] = [b \in 1..Len(got[c]) |-> b]
    BY <2>1
  <2>3. QED
    BY <2>1, <2>2
<1>2. QED
  BY <1>1, InitStream, NextStream, PTL DEF Spec

-----------------------------------------------------------------------------
(* The ranges of the variables.                                            *)

\* Nothing a step of the server does concerns the blocks; each request it
\* takes, each client it has, keeps its room.
LEMMA ServerTypes ==
  ASSUME StreamTypes, TypeOK, Server \/ ServerKilled \/ UNCHANGED vars, StreamTypes'
  PROVE  TypeOK'
<1> USE DEF TypeOK, given, srvVars, workVars, cliVars
<1>1. UNCHANGED <<kind, mishap, file, pos, errors, cpc, cliNamed, got, cliQ>>
  BY DEF Server, ServerStarts, ServerRegisters, ServerForks, ServerReaps, ThreadRegisters,
     ThreadReceives, ServerKilled, vars
<1>2. srvQ' = srvQ \/ (srvQ # <<>> /\ srvQ' = Tail(srvQ))
  BY DEF Server, ServerStarts, ServerRegisters, ServerForks, ServerReaps, ThreadRegisters,
     ThreadReceives, ServerKilled, vars
<1>3. Len(srvQ') <= QueueCap
  <2>1. CASE srvQ # <<>> /\ srvQ' = Tail(srvQ)
    <3>1. Len(srvQ') = Len(srvQ) - 1 /\ Len(srvQ) \in Nat
      BY <2>1
    <3>2. QED
      BY <3>1, MqAssumption
  <2>2. QED
    BY <1>2, <2>1
<1>4. /\ srv' \in {"none", "notify", "run", "down"} /\ srvName' \in {"yes", "no"}
      /\ reg' \in {"set", "unset"} /\ sigchld' \in {"yes", "no"}
  BY DEF Server, ServerStarts, ServerRegisters, ServerForks, ServerReaps, ThreadRegisters,
     ThreadReceives, ServerKilled, Ends, vars
<1>5. entered' \in Nat /\ receiving' \in Nat
  BY DEF Server, ServerStarts, ServerRegisters, ServerForks, ServerReaps, ThreadRegisters,
     ThreadReceives, ServerKilled, Ends, vars
<1>6. QED
  BY <1>1, <1>3, <1>4, <1>5 DEF StreamTypes

\* A worker reads no further than the end of its file, and sends a message only
\* when the client's queue has room for it.
LEMMA WorkerTypes ==
  ASSUME StreamInv, TypeOK, NEW c \in Clients, Worker(c), StreamTypes'
  PROVE  TypeOK'
<1> USE DEF TypeOK, given, srvVars, workVars, cliVars
<1>0. UNCHANGED <<kind, mishap, file, srvQ, cpc, cliNamed, got>>
  BY DEF Worker, WorkerOpens, WorkerFails, WorkerReads, WorkerSends, WorkerEnds, Ends
<1>1. /\ srv' \in {"none", "notify", "run", "down"} /\ srvName' \in {"yes", "no"}
      /\ reg' \in {"set", "unset"} /\ sigchld' \in {"yes", "no"}
      /\ entered' \in Nat /\ receiving' \in Nat
  BY DEF Worker, WorkerOpens, WorkerFails, WorkerReads, WorkerSends, WorkerEnds, Ends, Exits
<1>2. pos' \in [Clients -> 0..MaxBlocks] /\ errors' \in 0..MaxErrors
  <2>1. CASE WorkerReads(c)
    <3>1. file[c] \in 0..MaxBlocks
      <4>1. file[c] \in Files /\ file[c] # Missing
        BY <2>1 DEF WorkerReads, StreamInv, Stream, Refused
      <4>2. QED
        BY <4>1, MqAssumption
    <3>2. pos' = pos \/ (pos[c] < file[c] /\ pos' = [pos EXCEPT ![c] = @ + 1])
      BY <2>1 DEF WorkerReads
    <3>3. pos[c] < file[c] => pos[c] + 1 \in 0..MaxBlocks
      BY <3>1, MqAssumption
    <3>4. errors' \in 0..MaxErrors
      BY <2>1, MqAssumption DEF WorkerReads
    <3>5. QED
      BY <3>2, <3>3, <3>4
  <2>2. CASE WorkerOpens(c) \/ WorkerFails(c) \/ WorkerSends(c) \/ WorkerEnds(c)
    BY <2>2 DEF WorkerOpens, WorkerFails, WorkerSends, WorkerEnds
  <2>3. QED
    BY <2>1, <2>2 DEF Worker
<1>3. cliQ' \in [Clients -> Seq(FAILE..MaxBlocks)] /\ \A d \in Clients : Len(cliQ'[d]) <= QueueCap
  <2>1. CASE cliQ' = cliQ
    BY <2>1
  <2>2. ASSUME NEW m \in FAILE..MaxBlocks, HasRoom(c), cliQ' = [cliQ EXCEPT ![c] = Append(@, m)]
        PROVE  /\ cliQ' \in [Clients -> Seq(FAILE..MaxBlocks)]
               /\ \A d \in Clients : Len(cliQ'[d]) <= QueueCap
    <3>1. /\ cliQ[c] \in Seq(FAILE..MaxBlocks) /\ Len(cliQ[c]) \in Nat
          /\ Append(cliQ[c], m) \in Seq(FAILE..MaxBlocks)
          /\ Len(Append(cliQ[c], m)) = Len(cliQ[c]) + 1
      OBVIOUS
    <3>2. Len(cliQ[c]) + 1 <= QueueCap
      BY <2>2, <3>1, MqAssumption DEF HasRoom
    <3>3. QED
      BY <2>2, <3>1, <3>2
  <2>3. FAILE \in FAILE..MaxBlocks /\ END \in FAILE..MaxBlocks /\ Bad \in FAILE..MaxBlocks
        /\ pos[c] \in FAILE..MaxBlocks
    BY MqAssumption DEF FAILE, END, Bad
  <2>4. CASE WorkerFails(c)
    BY <2>2, <2>3, <2>4 DEF WorkerFails
  <2>5. CASE WorkerSends(c)
    BY <2>2, <2>3, <2>5 DEF WorkerSends
  <2>6. CASE WorkerEnds(c)
    BY <2>2, <2>3, <2>6 DEF WorkerEnds
  <2>7. QED
    BY <2>1, <2>4, <2>5, <2>6 DEF Worker, WorkerOpens, WorkerReads
<1>4. QED
  BY <1>0, <1>1, <1>2, <1>3 DEF StreamTypes

\* A client waits for room in the server's queue, and writes only blocks.
LEMMA ClientTypes ==
  ASSUME StreamTypes, TypeOK, NEW c \in Clients, StreamTypes',
         Client(c) \/ ClientOpens(c) \/ ClientKilled(c)
  PROVE  TypeOK'
<1> USE DEF TypeOK, given, srvVars, workVars, cliVars
<1>1. UNCHANGED <<kind, mishap, file, srv, srvName, receiving, worker, pos, errors, sigchld>>
  BY DEF Client, ClientSends, ClientCreates, ClientReceives, ClientOpens, ClientKilled
<1>2. /\ reg' \in {"set", "unset"} /\ entered' \in Nat /\ cliNamed' \subseteq Clients
  <2>1. \/ UNCHANGED <<reg, entered>>
        \/ reg' = "unset" /\ entered' = entered + 1
    BY DEF Client, ClientSends, ClientCreates, ClientReceives, ClientOpens, ClientKilled
  <2>2. cliNamed' \in {cliNamed, cliNamed \cup {c}, cliNamed \ {c}}
    BY DEF Client, ClientSends, ClientCreates, ClientReceives, ClientOpens, ClientKilled
  <2>3. QED
    BY <2>1, <2>2
<1>3. Len(srvQ') <= QueueCap
  <2>1. CASE ClientSends(c)
    <3>1. Len(srvQ') = Len(srvQ) + 1 /\ Len(srvQ) \in Nat /\ Len(srvQ) < QueueCap
      BY <2>1 DEF ClientSends
    <3>2. QED
      BY <3>1, MqAssumption
  <2>2. QED
    BY <2>1 DEF Client, ClientCreates, ClientReceives, ClientOpens, ClientKilled
<1>4. /\ cliQ' \in [Clients -> Seq(FAILE..MaxBlocks)]
      /\ \A d \in Clients : Len(cliQ'[d]) <= QueueCap
      /\ got' \in [Clients -> Seq(1..MaxBlocks)]
  <2>1. CASE ClientReceives(c)
    <3>1. /\ cliQ[c] \in Seq(FAILE..MaxBlocks) /\ cliQ[c] # <<>>
          /\ cliQ' = [cliQ EXCEPT ![c] = Tail(@)]
      BY <2>1 DEF ClientReceives
    <3>2. /\ Tail(cliQ[c]) \in Seq(FAILE..MaxBlocks) /\ Head(cliQ[c]) \in FAILE..MaxBlocks
          /\ Len(Tail(cliQ[c])) = Len(cliQ[c]) - 1 /\ Len(cliQ[c]) \in Nat
      <4> DEFINE q == cliQ[c]
                 M == FAILE..MaxBlocks
      <4>1. q \in Seq(M) /\ q # <<>>
        BY <3>1
      <4> HIDE DEF q, M
      <4>2. Tail(q) \in Seq(M) /\ Head(q) \in M /\ Len(Tail(q)) = Len(q) - 1 /\ Len(q) \in Nat
        BY <4>1
      <4>3. QED
        BY <4>2 DEF q, M
    <3>3. Len(cliQ[c]) - 1 <= QueueCap
      BY <3>2, MqAssumption
    <3>4. got' = got \/ (/\ Head(cliQ[c]) \notin {END, FAILE, Bad}
                         /\ got' = [got EXCEPT ![c] = Append(@, Head(cliQ[c]))])
      BY <2>1 DEF ClientReceives
    <3>5. Head(cliQ[c]) \notin {END, FAILE, Bad} => Head(cliQ[c]) \in 1..MaxBlocks
      BY <3>2, MqAssumption DEF END, FAILE, Bad
    <3>6. /\ cliQ' \in [Clients -> Seq(FAILE..MaxBlocks)]
          /\ \A d \in Clients : Len(cliQ'[d]) <= QueueCap
      BY <3>1, <3>2, <3>3
    <3>7. ASSUME NEW m \in 1..MaxBlocks PROVE Append(got[c], m) \in Seq(1..MaxBlocks)
      OBVIOUS
    <3>8. got' \in [Clients -> Seq(1..MaxBlocks)]
      BY <3>4, <3>5, <3>7
    <3>9. QED
      BY <3>6, <3>8
  <2>2. CASE ~ClientReceives(c)
    BY <2>2 DEF Client, ClientSends, ClientCreates, ClientOpens, ClientKilled
  <2>3. QED
    BY <2>1, <2>2
<1>5. QED
  BY <1>1, <1>2, <1>3, <1>4 DEF StreamTypes

\* How far a transfer has come: nobody has read, queued or written more of a file
\* than it has blocks, and nobody anything of a missing one.
Reach(c) ==
  /\ pos[c] <= IF file[c] = Missing THEN 0 ELSE file[c]
  /\ \A k \in 1..Len(cliQ[c]) : cliQ[c][k] <= pos[c]
  /\ Len(got[c]) <= pos[c]

\* The worker reads one block more only if there is one, and sends what it read.
LEMMA WorkerReach ==
  ASSUME StreamInv, NEW c \in Clients, Reach(c), Worker(c), StreamTypes'
  PROVE  Reach(c)'
<1>1. /\ pos[c] \in Nat /\ cliQ[c] \in Seq(Int) /\ got[c] \in Seq(Int) /\ pos'[c] \in Nat
      /\ Len(got[c]) \in Nat /\ file' = file /\ got' = got /\ file[c] \in Files
  BY DEF StreamInv, StreamTypes, given, cliVars, Worker, WorkerOpens, WorkerFails, WorkerReads,
         WorkerSends, WorkerEnds
<1>2. CASE WorkerReads(c)
  <2>1. file[c] # Missing /\ file[c] \in Int
    <3>1. worker[c] = "read" /\ Refused(c)
      BY <1>2 DEF WorkerReads, StreamInv, Stream
    <3>2. file[c] # Missing
      BY <3>1 DEF Refused
    <3>3. file[c] \in Files
      BY <1>1
    <3>4. file[c] \in 0..MaxBlocks
      BY <3>2, <3>3, MqAssumption
    <3>5. QED
      BY <3>2, <3>4
  <2>2. cliQ' = cliQ /\ pos[c] <= pos'[c] /\ pos'[c] <= file[c]
    BY <1>1, <1>2, <2>1 DEF WorkerReads, Reach, StreamInv, StreamTypes
  <2>3. \A k \in 1..Len(cliQ[c]) : cliQ[c][k] <= pos'[c]
    BY <1>1, <2>2 DEF Reach
  <2>4. Len(got[c]) <= pos'[c]
    BY <1>1, <2>2 DEF Reach
  <2>5. QED
    BY <1>1, <2>1, <2>2, <2>3, <2>4 DEF Reach
<1>3. CASE WorkerOpens(c)
  BY <1>1, <1>3 DEF WorkerOpens, Reach
<1>4. ASSUME NEW m \in Int, m <= pos[c], cliQ' = [cliQ EXCEPT ![c] = Append(@, m)], pos' = pos
      PROVE  Reach(c)'
  <2>1. cliQ'[c] = Append(cliQ[c], m)
    BY <1>4 DEF StreamInv, StreamTypes
  <2>2. \A k \in 1..Len(cliQ'[c]) : cliQ'[c][k] <= pos[c]
    BY <1>1, <1>4, <2>1, Appended DEF Reach
  <2>3. QED
    BY <1>1, <1>4, <2>2 DEF Reach
<1>5. CASE WorkerSends(c)
  <2>1. CASE worker[c] = "send"
    <3>1. cliQ' = [cliQ EXCEPT ![c] = Append(@, pos[c])] /\ pos' = pos
      BY <1>5, <2>1 DEF WorkerSends
    <3>2. pos[c] \in Int /\ pos[c] <= pos[c]
      BY <1>1
    <3>3. QED
      BY <1>4, <3>1, <3>2
  <2>2. CASE worker[c] # "send"
    <3>1. cliQ' = [cliQ EXCEPT ![c] = Append(@, -1)] /\ pos' = pos
      BY <1>5, <2>2 DEF WorkerSends, Bad
    <3>2. -1 \in Int /\ -1 <= pos[c]
      BY <1>1
    <3>3. QED
      BY <1>4, <3>1, <3>2
  <2>3. QED
    BY <2>1, <2>2
<1>6. CASE WorkerEnds(c)
  <2>1. cliQ' = [cliQ EXCEPT ![c] = Append(@, 0)] /\ pos' = pos
    BY <1>6 DEF WorkerEnds, END
  <2>2. 0 \in Int /\ 0 <= pos[c]
    BY <1>1
  <2>3. QED
    BY <1>4, <2>1, <2>2
<1>7. CASE WorkerFails(c)
  <2>1. cliQ' = [cliQ EXCEPT ![c] = Append(@, -2)] /\ pos' = pos
    BY <1>7 DEF WorkerFails, FAILE
  <2>2. -2 \in Int /\ -2 <= pos[c]
    BY <1>1
  <2>3. QED
    BY <1>4, <2>1, <2>2
<1>8. QED
  BY <1>2, <1>3, <1>5, <1>6, <1>7 DEF Worker

\* The client writes what it takes from its queue, and as a block b is its b-th
\* it has then not written more than the worker had read.
LEMMA ClientReach ==
  ASSUME StreamInv, NEW c \in Clients, Reach(c), StreamInv',
         Client(c) \/ ClientOpens(c) \/ ClientKilled(c)
  PROVE  Reach(c)'
<1>1. /\ pos[c] \in Nat /\ cliQ[c] \in Seq(Int) /\ got[c] \in Seq(Int) /\ Len(got[c]) \in Nat
      /\ file' = file /\ pos' = pos /\ got'[c] \in Seq(Int)
  BY DEF StreamInv, StreamTypes, given, workVars, Client, ClientSends, ClientCreates,
         ClientReceives, ClientOpens, ClientKilled
<1>2. CASE ClientReceives(c)
  <2> DEFINE m == Head(cliQ[c])
  <2>1. m \in Int /\ m <= pos[c] /\ cliQ'[c] = Tail(cliQ[c]) /\ cliQ[c] # <<>>
    <3>1. cliQ[c] # <<>> /\ cliQ'[c] = Tail(cliQ[c])
      BY <1>2 DEF ClientReceives, StreamInv, StreamTypes
    <3>2. 1 \in 1..Len(cliQ[c]) /\ m = cliQ[c][1]
      BY <1>1, <3>1
    <3>3. m \in Int
      BY <1>1, <3>2
    <3>4. QED
      BY <3>1, <3>2, <3>3 DEF Reach
  <2>2. \A k \in 1..Len(cliQ'[c]) : cliQ'[c][k] <= pos[c]
    <3>1. /\ Len(Tail(cliQ[c])) = Len(cliQ[c]) - 1 /\ Len(cliQ[c]) \in Nat
          /\ \A k \in 1..Len(Tail(cliQ[c])) : Tail(cliQ[c])[k] = cliQ[c][k + 1]
      BY <1>1, <2>1
    <3>2. \A k \in 1..Len(Tail(cliQ[c])) : k + 1 \in 1..Len(cliQ[c])
      BY <3>1
    <3>3. QED
      BY <2>1, <3>1, <3>2 DEF Reach
  <2>3. \/ got'[c] = got[c]
        \/ got'[c] = Append(got[c], m)
    BY <1>2 DEF ClientReceives, StreamInv, StreamTypes
  <2>4. \A b \in 1..Len(got'[c]) : got'[c][b] = b
    BY DEF StreamInv, Stream, Flows
  <2>5. Len(got'[c]) <= pos[c]
    <3>1. CASE got'[c] = Append(got[c], m)
      <4>1. Len(got'[c]) = Len(got[c]) + 1 /\ got'[c][Len(got[c]) + 1] = m
        BY <1>1, <2>1, <3>1
      <4>2. Len(got[c]) + 1 \in 1..Len(got'[c])
        BY <1>1, <4>1
      <4>3. m = Len(got[c]) + 1
        BY <2>4, <4>1, <4>2
      <4>4. QED
        BY <2>1, <4>1, <4>3
    <3>2. QED
      BY <2>3, <3>1 DEF Reach
  <2>6. QED
    BY <1>1, <2>2, <2>5 DEF Reach
<1>3. CASE ~ClientReceives(c)
  BY <1>1, <1>3 DEF Client, ClientSends, ClientCreates, ClientOpens, ClientKilled, Reach
<1>4. QED
  BY <1>2, <1>3

\* Only c's own worker and c itself touch its file, its queue and its blocks.
LEMMA OthersReach ==
  ASSUME StreamTypes, NEW c \in Clients, Reach(c), [Next]_vars,
         ~Worker(c), ~(Client(c) \/ ClientOpens(c) \/ ClientKilled(c))
  PROVE  Reach(c)'
<1>1. SUFFICES file' = file /\ pos'[c] = pos[c] /\ cliQ'[c] = cliQ[c] /\ got'[c] = got[c]
  BY DEF Reach
<1> USE DEF StreamTypes, given, workVars, cliVars
<1>2. CASE Server \/ ServerKilled
  BY <1>2 DEF Server, ServerStarts, ServerRegisters, ServerForks, ServerReaps, ThreadRegisters,
              ThreadReceives, ServerKilled, Ends
<1>3. ASSUME NEW d \in Clients \ {c}, Worker(d) PROVE <1>1!1
  BY <1>3 DEF Worker, WorkerOpens, WorkerFails, WorkerReads, WorkerSends, WorkerEnds
<1>4. ASSUME NEW d \in Clients \ {c}, Client(d) \/ ClientOpens(d) \/ ClientKilled(d) PROVE <1>1!1
  BY <1>4 DEF Client, ClientSends, ClientCreates, ClientReceives, ClientOpens, ClientKilled
<1>5. CASE UNCHANGED vars
  BY <1>5 DEF vars
<1>6. QED
  BY <1>2, <1>3, <1>4, <1>5 DEF Next

\* What a client has written is a prefix of its file, block by block, and no longer
\* than what its worker has read of it, which is no longer than the file.
WithinFile ==
  \A c \in Clients :
    /\ got[c] = [b \in 1..Len(got[c]) |-> b] /\ Len(got[c]) <= pos[c]
    /\ pos[c] <= IF file[c] = Missing THEN 0 ELSE file[c]

\* Every variable keeps its range for any number of clients and files of any
\* length: no queue ever holds more than mq_maxmsg messages, no worker reads past
\* the end of its file, and what a client has written is, at every moment, a
\* prefix of the file it asked for, and nothing if there is no such file.
THEOREM QueuesKeepTheirBound == Spec => [](TypeOK /\ WithinFile)
<1> DEFINE Reaches == \A c \in Clients : Reach(c)
<1>1. Init => TypeOK /\ Reaches
  <2> SUFFICES ASSUME Init PROVE TypeOK /\ Reaches
    OBVIOUS
  <2>1. 0 \in 0..MaxBlocks /\ 0 \in 0..MaxErrors /\ 0 <= QueueCap
    BY MqAssumption
  <2>2. TypeOK
    BY <2>1 DEF Init, TypeOK, Working
  <2>3. ASSUME NEW c \in Clients PROVE Reach(c)
    <3>1. /\ pos[c] = 0 /\ Len(cliQ[c]) = 0 /\ Len(got[c]) = 0
          /\ file[c] \in 0..MaxBlocks \cup {Missing}
      BY MqAssumption DEF Init
    <3>2. QED
      BY <3>1, MqAssumption DEF Reach
  <2>4. QED
    BY <2>2, <2>3
<1>2. StreamInv /\ TypeOK /\ [Next]_vars /\ StreamInv' => TypeOK'
  <2> SUFFICES ASSUME StreamInv, TypeOK, [Next]_vars, StreamTypes' PROVE TypeOK'
    BY DEF StreamInv
  <2>1. StreamTypes
    BY DEF StreamInv
  <2>2. ASSUME NEW c \in Clients, Worker(c) PROVE TypeOK'
    BY <2>2, WorkerTypes
  <2>3. ASSUME NEW c \in Clients, Client(c) \/ ClientOpens(c) \/ ClientKilled(c) PROVE TypeOK'
    BY <2>1, <2>3, ClientTypes
  <2>4. QED
    BY <2>1, <2>2, <2>3, ServerTypes DEF Next
<1>3. StreamInv /\ Reaches /\ [Next]_vars /\ StreamInv' => Reaches'
  <2> SUFFICES ASSUME StreamInv, [Next]_vars, StreamInv', NEW c \in Clients, Reach(c)
               PROVE  Reach(c)'
    OBVIOUS
  <2>1. StreamTypes /\ StreamTypes'
    BY DEF StreamInv
  <2>2. QED
    BY <2>1, WorkerReach, ClientReach, OthersReach
<1>4. StreamInv /\ Reaches => WithinFile
  <2> SUFFICES ASSUME StreamInv, Reaches, NEW c \in Clients
               PROVE  /\ got[c] = [b \in 1..Len(got[c]) |-> b] /\ Len(got[c]) <= pos[c]
                      /\ pos[c] <= IF file[c] = Missing THEN 0 ELSE file[c]
    BY DEF WithinFile
  <2>1. got[c] \in Seq(Int) /\ \A b \in 1..Len(got[c]) : got[c][b] = b
    BY DEF StreamInv, StreamTypes, Stream, Flows
  <2>2. got[c] = [b \in 1..Len(got[c]) |-> b]
    BY <2>1
  <2>3. QED
    BY <2>2 DEF Reach
<1>5. QED
  BY <1>1, <1>2, <1>3, <1>4, InitStream, NextStream, PTL DEF Spec
=============================================================================
