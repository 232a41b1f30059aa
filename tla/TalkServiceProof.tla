-------------------------- MODULE TalkServiceProof --------------------------
(***************************************************************************)
(* Proofs about the server's table, for any number of clients, slots and   *)
(* messages, and whatever is interrupted or killed:                        *)
(*   - a client has one slot;                                              *)
(*   - one that has left is forgotten once its messages are read;          *)
(*   - one that is at work is known as soon as its REGISTER is read.       *)
(***************************************************************************)
EXTENDS TalkService, SequenceTheorems, WellFoundedInduction, TLAPS

-----------------------------------------------------------------------------
(* Messages in a queue, by position.                                       *)

\* m is in the queue q; it is there at most once; every m is before every n.
In(q, m) == \E k \in 1..Len(q) : q[k] = m
Once(q, m) == \A j, k \in 1..Len(q) : q[j] = m /\ q[k] = m => j = k
Before(q, m, n) == \A j, k \in 1..Len(q) : q[j] = m /\ q[k] = n => j < k

\* A process of c has been through the first half of onExit.
HasLeft(c) == \E p \in {Main(c), Recv(c)} : pc[p] \in {"remove", "exited"}

\* Both processes of c are at work.
AtWork(c) == pc[Main(c)] = "talk" /\ pc[Recv(c)] = "wait"

\* Before c has registered there is no trace of it in the service.
Unknown(c) ==
  pc[Main(c)] \in {"off", "register"} =>
    /\ pc[Recv(c)] = "off"
    /\ ~In(srvQ, Register(c)) /\ ~In(srvQ, Delete(c)) /\ ~IsMember(c)

\* c registers once, and before any of its processes leaves.
RegistersOnce(c) ==
  /\ Once(srvQ, Register(c)) /\ Before(srvQ, Register(c), Delete(c))
  /\ In(srvQ, Register(c)) => ~IsMember(c)

\* As long as c is or will be in the table the DELETE of one that left is queued.
LeaverIsAnnounced(c) ==
  HasLeft(c) /\ ServerAlive /\ (IsMember(c) \/ In(srvQ, Register(c))) => In(srvQ, Delete(c))

\* A client at work is or will be in the table, and nobody has asked to remove it.
WorkerIsKnown(c) ==
  AtWork(c) /\ ServerAlive =>
    ~In(srvQ, Delete(c)) /\ (IsMember(c) \/ In(srvQ, Register(c)))

Booked(c) == Unknown(c) /\ RegistersOnce(c) /\ LeaverIsAnnounced(c) /\ WorkerIsKnown(c)

\* The types the argument needs.
Messages ==
  {Register(c) : c \in Clients} \cup {Delete(c) : c \in Clients} \cup {Talk(t) : t \in Targets}

TalkTypes ==
  /\ spc \in {"recv", "send", "exited"}
  /\ srvQ \in Seq(Messages)
  /\ slots \in [Slots -> Clients \cup {None}]
  /\ pc \in [Procs -> {"off", "register", "talk", "wait", "delete", "remove", "exited", "killed"}]

TalkInv == TalkTypes /\ OneSlotPerClient /\ \A c \in Clients : Booked(c)

-----------------------------------------------------------------------------
(* Operators.                                                              *)

\* The first of some positions is one of them.
LEMMA FirstIsOne ==
  ASSUME NEW S, S \subseteq Nat, NEW s \in S
  PROVE  First(S) \in S
<1> DEFINE R == {ij \in Nat \X Nat : ij[1] < ij[2]}
<1>1. IsWellFoundedOn(R, Nat)
  <2>1. OpToRel(<, Nat) = R
    BY DEF OpToRel
  <2>2. QED
    BY <2>1, NatLessThanWellFounded
<1>2. \A i, j \in Nat : <<i, j>> \in R <=> i < j
  OBVIOUS
<1> HIDE DEF R
<1>3. PICK x \in S : \A y \in S : ~(<<y, x>> \in R)
  BY <1>1, WFMin
<1>4. x \in Nat /\ \A y \in S : y \in Nat
  OBVIOUS
<1>5. \A y \in S : ~(y < x)
  BY <1>2, <1>3, <1>4
<1>6. \A y \in S : x <= y
  BY <1>4, <1>5
<1>7. QED
  BY <1>6 DEF First

\* A message sent.
LEMMA SendIn ==
  ASSUME NEW q \in Seq(Messages), NEW m \in Messages
  PROVE  /\ Append(q, m) \in Seq(Messages)
         /\ \A x : In(Append(q, m), x) <=> In(q, x) \/ x = m
         /\ \A x : Once(q, x) /\ (x # m \/ ~In(q, x)) => Once(Append(q, m), x)
         /\ \A x, y : Before(q, x, y) /\ x # m => Before(Append(q, m), x, y)
         /\ \A x, y : ~In(q, y) /\ y # m => Before(Append(q, m), x, y)
<1> DEFINE r == Append(q, m)
<1>1. /\ Len(q) \in Nat /\ r \in Seq(Messages) /\ Len(r) = Len(q) + 1 /\ r[Len(q) + 1] = m
      /\ \A k \in 1..Len(q) : r[k] = q[k]
  OBVIOUS
<1> HIDE DEF r
<1>2. 1..Len(r) = 1..Len(q) \cup {Len(q) + 1}
  BY <1>1
<1>3. \A k \in 1..Len(q) : k \in 1..Len(r) /\ k < Len(q) + 1
  BY <1>1
<1>4. \A x : In(r, x) <=> In(q, x) \/ x = m
  BY <1>1, <1>2 DEF In
<1>5. ASSUME NEW x, Once(q, x), x # m \/ ~In(q, x)
      PROVE  Once(r, x)
  BY <1>1, <1>2, <1>5 DEF Once, In
<1>6. ASSUME NEW x, NEW y, Before(q, x, y), x # m
      PROVE  Before(r, x, y)
  <2>1. SUFFICES ASSUME NEW j \in 1..Len(r), NEW k \in 1..Len(r), r[j] = x, r[k] = y
                 PROVE  j < k
    BY DEF Before
  <2>2. j \in 1..Len(q) /\ q[j] = x
    BY <1>1, <1>2, <1>6, <2>1
  <2>3. CASE k \in 1..Len(q)
    BY <1>1, <1>6, <2>1, <2>2, <2>3 DEF Before
  <2>4. CASE k = Len(q) + 1
    BY <1>3, <2>2, <2>4
  <2>5. QED
    BY <1>2, <2>3, <2>4
<1>7. ASSUME NEW x, NEW y, ~In(q, y), y # m
      PROVE  Before(r, x, y)
  BY <1>1, <1>2, <1>7 DEF Before, In
<1>8. QED
  BY <1>1, <1>4, <1>5, <1>6, <1>7 DEF r

\* The first message received.
LEMMA ReceiveIn ==
  ASSUME NEW q \in Seq(Messages), q # <<>>
  PROVE  /\ Tail(q) \in Seq(Messages) /\ Head(q) \in Messages /\ In(q, Head(q))
         /\ \A x : In(Tail(q), x) => In(q, x)
         /\ \A x : In(q, x) => In(Tail(q), x) \/ x = Head(q)
         /\ \A x : Once(q, x) => Once(Tail(q), x) /\ (x = Head(q) => ~In(Tail(q), x))
         /\ \A x, y : Before(q, x, y) => Before(Tail(q), x, y) /\ (y = Head(q) => ~In(q, x))
<1> DEFINE t == Tail(q)
<1>1. /\ Len(q) \in Nat /\ t \in Seq(Messages) /\ Len(t) = Len(q) - 1
      /\ Head(q) = q[1] /\ \A k \in 1..Len(t) : t[k] = q[k + 1]
  OBVIOUS
<1>2. Len(q) > 0 /\ 1 \in 1..Len(q) /\ Head(q) \in Messages
  <2>1. Len(q) # 0
    OBVIOUS
  <2>2. QED
    BY <1>1, <2>1
<1> HIDE DEF t
<1>3. \A k \in 1..Len(t) : k + 1 \in 1..Len(q) /\ t[k] = q[k + 1] /\ k + 1 # 1
  BY <1>1
<1>4. ASSUME NEW k \in 1..Len(q), k # 1
      PROVE  k - 1 \in 1..Len(t) /\ t[k - 1] = q[k]
  <2>1. k - 1 \in 1..Len(t) /\ (k - 1) + 1 = k
    BY <1>1, <1>4
  <2>2. t[k - 1] = q[(k - 1) + 1]
    BY <1>1, <2>1
  <2>3. QED
    BY <2>1, <2>2
<1>5. \A x : In(t, x) => In(q, x)
  BY <1>3 DEF In
<1>6. \A x : In(q, x) => In(t, x) \/ x = Head(q)
  BY <1>1, <1>4 DEF In
<1>7. ASSUME NEW x, Once(q, x)
      PROVE  Once(t, x) /\ (x = Head(q) => ~In(t, x))
  <2>1. Once(t, x)
    <3>1. SUFFICES ASSUME NEW j \in 1..Len(t), NEW k \in 1..Len(t), t[j] = x, t[k] = x
                   PROVE  j = k
      BY DEF Once
    <3>2. j + 1 = k + 1
      BY <1>3, <1>7, <3>1 DEF Once
    <3>3. QED
      BY <3>2
  <2>2. x = Head(q) => ~In(t, x)
    BY <1>1, <1>2, <1>3, <1>7 DEF Once, In
  <2>3. QED
    BY <2>1, <2>2
<1>8. ASSUME NEW x, NEW y, Before(q, x, y)
      PROVE  Before(t, x, y) /\ (y = Head(q) => ~In(q, x))
  <2>1. Before(t, x, y)
    <3>1. SUFFICES ASSUME NEW j \in 1..Len(t), NEW k \in 1..Len(t), t[j] = x, t[k] = y
                   PROVE  j < k
      BY DEF Before
    <3>2. j + 1 < k + 1
      BY <1>3, <1>8, <3>1 DEF Before
    <3>3. QED
      BY <3>2
  <2>2. ASSUME y = Head(q), In(q, x) PROVE FALSE
    <3>1. PICK j \in 1..Len(q) : q[j] = x
      BY <2>2 DEF In
    <3>2. j < 1
      BY <1>1, <1>2, <1>8, <2>2, <3>1 DEF Before
    <3>3. QED
      BY <3>2
  <2>3. QED
    BY <2>1, <2>2
<1>9. In(q, Head(q))
  BY <1>1, <1>2 DEF In
<1>10. QED
  BY <1>1, <1>2, <1>5, <1>6, <1>7, <1>8, <1>9 DEF t

\* A queue r that is q without its message at k.
LEMMA TakeIn ==
  ASSUME NEW q \in Seq(Messages), NEW r \in Seq(Messages), NEW k \in 1..Len(q),
         Len(r) = Len(q) - 1,
         \A i \in 1..Len(r) : r[i] = IF i < k THEN q[i] ELSE q[i + 1]
  PROVE  /\ \A x : x # q[k] => (In(r, x) <=> In(q, x))
         /\ \A x : Once(q, x) => Once(r, x)
         /\ \A x, y : Before(q, x, y) => Before(r, x, y)
<1>1. Len(q) \in Nat /\ Len(r) \in Nat /\ k \in Nat /\ 1 <= k /\ k <= Len(q)
  OBVIOUS
\* Where the message at position i of r was in q.
<1> DEFINE was(i) == IF i < k THEN i ELSE i + 1
<1>2. \A i \in 1..Len(r) : was(i) \in 1..Len(q) /\ was(i) # k
  BY <1>1
<1>3. \A i \in 1..Len(r) : r[i] = q[was(i)]
  OBVIOUS
<1>4. \A i, j \in 1..Len(r) : (was(i) = was(j) => i = j) /\ (was(i) < was(j) => i < j)
  BY <1>1
<1>5. ASSUME NEW l \in 1..Len(q), l # k
      PROVE  \E i \in 1..Len(r) : was(i) = l
  <2>1. CASE l < k
    <3>1. l \in 1..Len(r) /\ was(l) = l
      BY <1>1, <2>1
    <3>2. QED
      BY <3>1
  <2>2. CASE ~(l < k)
    <3>1. l - 1 \in 1..Len(r) /\ ~(l - 1 < k) /\ (l - 1) + 1 = l
      BY <1>1, <1>5, <2>2
    <3>2. was(l - 1) = l
      BY <3>1
    <3>3. QED
      BY <3>1, <3>2
  <2>3. QED
    BY <2>1, <2>2
<1> HIDE DEF was
<1>6. ASSUME NEW x, x # q[k]
      PROVE  In(r, x) <=> In(q, x)
  <2>1. In(r, x) => In(q, x)
    BY <1>2, <1>3 DEF In
  <2>2. ASSUME In(q, x) PROVE In(r, x)
    <3>1. PICK l \in 1..Len(q) : q[l] = x
      BY <2>2 DEF In
    <3>2. PICK i \in 1..Len(r) : was(i) = l
      BY <1>5, <1>6, <3>1
    <3>3. r[i] = x
      BY <1>3, <3>1, <3>2
    <3>4. QED
      BY <3>3 DEF In
  <2>3. QED
    BY <2>1, <2>2
<1>7. ASSUME NEW x, Once(q, x) PROVE Once(r, x)
  <2>1. SUFFICES ASSUME NEW i \in 1..Len(r), NEW j \in 1..Len(r), r[i] = x, r[j] = x
                 PROVE  i = j
    BY DEF Once
  <2>2. was(i) = was(j)
    <3>1. was(i) \in 1..Len(q) /\ was(j) \in 1..Len(q) /\ q[was(i)] = x /\ q[was(j)] = x
      BY <1>2, <1>3, <2>1
    <3>2. QED
      BY <1>7, <3>1 DEF Once
  <2>3. QED
    BY <1>4, <2>2
<1>8. ASSUME NEW x, NEW y, Before(q, x, y) PROVE Before(r, x, y)
  <2>1. SUFFICES ASSUME NEW i \in 1..Len(r), NEW j \in 1..Len(r), r[i] = x, r[j] = y
                 PROVE  i < j
    BY DEF Before
  <2>2. was(i) < was(j)
    BY <1>2, <1>3, <1>8, <2>1 DEF Before
  <2>3. QED
    BY <1>4, <2>2
<1>9. QED
  BY <1>6, <1>7, <1>8

\* What msgrcv() with a type leaves of the queue.
LEMMA Without ==
  ASSUME NEW q \in Seq(Messages), NEW k \in 1..Len(q)
  PROVE  LET r == SubSeq(q, 1, k - 1) \o SubSeq(q, k + 1, Len(q)) IN
         /\ r \in Seq(Messages) /\ Len(r) = Len(q) - 1
         /\ \A i \in 1..Len(r) : r[i] = IF i < k THEN q[i] ELSE q[i + 1]
<1> DEFINE a == SubSeq(q, 1, k - 1)
           b == SubSeq(q, k + 1, Len(q))
           r == a \o b
<1>1. /\ Len(q) \in Nat /\ k \in Nat /\ 1 <= k /\ k <= Len(q)
      /\ \A i \in 1..Len(q) : q[i] \in Messages
  OBVIOUS
<1>2. /\ a \in Seq(Messages) /\ Len(a) = k - 1
      /\ \A i \in 1..(k - 1) : a[i] = q[i]
  BY <1>1
<1>3. /\ b \in Seq(Messages) /\ Len(b) = Len(q) - k
      /\ \A i \in 1..(Len(q) - k) : b[i] = q[k + i]
  BY <1>1
<1> HIDE DEF a, b
<1>4. /\ r \in Seq(Messages) /\ Len(r) = Len(a) + Len(b)
      /\ \A i \in 1..(Len(a) + Len(b)) : r[i] = IF i <= Len(a) THEN a[i] ELSE b[i - Len(a)]
  BY <1>2, <1>3, ConcatProperties
<1> HIDE DEF r
<1>5. Len(r) = Len(q) - 1
  BY <1>1, <1>2, <1>3, <1>4
<1>6. ASSUME NEW i \in 1..Len(r)
      PROVE  r[i] = IF i < k THEN q[i] ELSE q[i + 1]
  <2>1. CASE i < k
    <3>1. i \in 1..(k - 1) /\ i <= Len(a) /\ i \in 1..(Len(a) + Len(b))
      BY <1>1, <1>2, <1>3, <1>4, <2>1
    <3>2. r[i] = q[i]
      BY <1>2, <1>4, <3>1
    <3>3. QED
      BY <2>1, <3>2
  <2>2. CASE ~(i < k)
    <3>1. /\ ~(i <= Len(a)) /\ i \in 1..(Len(a) + Len(b)) /\ i - Len(a) \in 1..(Len(q) - k)
          /\ k + (i - Len(a)) = i + 1
      BY <1>1, <1>2, <1>3, <1>4, <2>2
    <3>2. r[i] = b[i - Len(a)] /\ b[i - Len(a)] = q[k + (i - Len(a))]
      BY <1>3, <1>4, <3>1
    <3>3. QED
      BY <2>2, <3>1, <3>2
  <2>3. QED
    BY <2>1, <2>2
<1>7. QED
  BY <1>4, <1>5, <1>6 DEF r, a, b

\* Messages are told apart by mtype and by whom they are about.
LEMMA MessagesDiffer ==
  ASSUME NEW c \in Clients, NEW d
  PROVE  /\ Register(c) \in Messages /\ Delete(c) \in Messages
         /\ Register(c) # Delete(d) /\ Register(c) # Talk(d) /\ Delete(c) # Talk(d)
         /\ d # c => Register(c) # Register(d) /\ Delete(c) # Delete(d)
BY DEF Messages, Register, Delete, Talk

\* What a message of some mtype is.
LEMMA MessageKinds ==
  ASSUME NEW m \in Messages
  PROVE  /\ m.mtype = "REGISTER" => \E c \in Clients : m = Register(c)
         /\ m.mtype = "DELETE" => \E c \in Clients : m = Delete(c)
         /\ m.mtype = "TALK" => \A c \in Clients : m # Register(c) /\ m # Delete(c)
BY DEF Messages, Register, Delete, Talk

-----------------------------------------------------------------------------
(* A client that a step does not concern.                                  *)

\* The messages by which c registers and leaves lie in the queue as before.
QueueKept(c) ==
  /\ In(srvQ', Register(c)) <=> In(srvQ, Register(c))
  /\ In(srvQ', Delete(c)) <=> In(srvQ, Delete(c))
  /\ Once(srvQ, Register(c)) => Once(srvQ', Register(c))
  /\ Before(srvQ, Register(c), Delete(c)) => Before(srvQ', Register(c), Delete(c))

\* No process of c starts, registers or goes through onExit.
PcKept(c) ==
  /\ pc'[Main(c)] \in {"off", "register"} =>
       pc[Main(c)] \in {"off", "register"} /\ pc'[Recv(c)] = pc[Recv(c)]
  /\ HasLeft(c)' => HasLeft(c)
  /\ AtWork(c)' => AtWork(c)

\* Such a client stays booked while the server goes on, ...
LEMMA Undisturbed ==
  ASSUME NEW c \in Clients, Booked(c), QueueKept(c), PcKept(c),
         IsMember(c)' <=> IsMember(c), ServerAlive' => ServerAlive
  PROVE  Booked(c)'
<1>1. Unknown(c)'
  BY DEF Booked, Unknown, QueueKept, PcKept
<1>2. RegistersOnce(c)'
  BY DEF Booked, RegistersOnce, QueueKept
<1>3. LeaverIsAnnounced(c)'
  BY DEF Booked, LeaverIsAnnounced, QueueKept, PcKept
<1>4. WorkerIsKnown(c)'
  BY DEF Booked, WorkerIsKnown, QueueKept, PcKept
<1>5. QED
  BY <1>1, <1>2, <1>3, <1>4 DEF Booked

\* ... and when it is gone with its queue.
LEMMA ServerGone ==
  ASSUME NEW c \in Clients, Booked(c), spc' = "exited", srvQ' = <<>>, UNCHANGED <<slots, pc>>
  PROVE  Booked(c)'
<1>1. \A m : ~In(srvQ', m)
  BY DEF In
<1>2. Once(srvQ', Register(c)) /\ Before(srvQ', Register(c), Delete(c))
  BY <1>1 DEF Once, Before, In
<1>3. Unknown(c)'
  BY <1>1 DEF Booked, Unknown, IsMember
<1>4. QED
  BY <1>1, <1>2, <1>3 DEF Booked, RegistersOnce, LeaverIsAnnounced, WorkerIsKnown, ServerAlive

\* A queue that is not touched.
LEMMA SameQueue ==
  ASSUME NEW c \in Clients, srvQ' = srvQ
  PROVE  QueueKept(c)
BY DEF QueueKept

\* A message of c's neighbour, or a TALK message, is sent.
LEMMA OtherSent ==
  ASSUME NEW c \in Clients, srvQ \in Seq(Messages), NEW m \in Messages, srvQ' = Append(srvQ, m),
         m # Register(c), m # Delete(c)
  PROVE  QueueKept(c)
BY SendIn DEF QueueKept

\* The same for receiving.
LEMMA OtherReceived ==
  ASSUME NEW c \in Clients, srvQ \in Seq(Messages), srvQ # <<>>, srvQ' = Tail(srvQ),
         Head(srvQ) # Register(c), Head(srvQ) # Delete(c)
  PROVE  QueueKept(c)
BY ReceiveIn DEF QueueKept

\* The processes are told apart.
LEMMA ProcsDiffer ==
  ASSUME NEW c \in Clients, NEW d \in Clients
  PROVE  /\ Main(c) \in Procs /\ Recv(c) \in Procs /\ Main(c) # Recv(d)
         /\ c # d => Main(c) # Main(d) /\ Recv(c) # Recv(d)
BY DEF Main, Recv, Procs

\* What a step that gives one process another pc means for the others.
LEMMA OtherMoved ==
  ASSUME NEW c \in Clients, pc'[Main(c)] = pc[Main(c)], pc'[Recv(c)] = pc[Recv(c)]
  PROVE  PcKept(c)
BY DEF PcKept, HasLeft, AtWork

\* exit() is called where no client is off or about to register.
LEMMA ExitCalled ==
  ASSUME NEW c \in Clients, NEW p \in Procs,
         pc \in [Procs -> {"off", "register", "talk", "wait", "delete", "remove", "exited", "killed"}],
         NEW s \in {"delete", "killed"}, pc' = [pc EXCEPT ![p] = s],
         Unknown(c), pc[p] # "off"
  PROVE  PcKept(c)
<1>1. CASE p = Main(c)
  <2>1. pc'[Main(c)] = s /\ pc'[Recv(c)] = pc[Recv(c)]
    BY <1>1, ProcsDiffer
  <2>2. QED
    BY <2>1 DEF PcKept, HasLeft, AtWork
<1>2. CASE p = Recv(c)
  <2>1. pc'[Recv(c)] = s /\ pc'[Main(c)] = pc[Main(c)]
    BY <1>2, ProcsDiffer
  <2>2. pc[Main(c)] \notin {"off", "register"}
    BY <1>2 DEF Unknown
  <2>3. QED
    BY <2>1, <2>2 DEF PcKept, HasLeft, AtWork
<1>3. CASE p # Main(c) /\ p # Recv(c)
  <2>1. pc'[Main(c)] = pc[Main(c)] /\ pc'[Recv(c)] = pc[Recv(c)]
    BY <1>3, ProcsDiffer
  <2>2. QED
    BY <2>1, OtherMoved
<1>4. QED
  BY <1>1, <1>2, <1>3

-----------------------------------------------------------------------------
(* The initial state and the server's steps.                               *)

\* Nobody is known and nobody is at work.
LEMMA InitTalk == Init => TalkInv
<1> SUFFICES ASSUME Init
             PROVE  TalkInv
  OBVIOUS
<1>1. TalkTypes
  BY DEF Init, TalkTypes, Procs, Slots
<1>2. OneSlotPerClient
  BY DEF Init, OneSlotPerClient
<1>3. ASSUME NEW c \in Clients
      PROVE  Booked(c)
  <2>1. \A m : ~In(srvQ, m)
    BY DEF Init, In
  <2>2. Once(srvQ, Register(c)) /\ Before(srvQ, Register(c), Delete(c))
    BY DEF Init, Once, Before
  <2>3. ~IsMember(c)
    BY TalkAssumption DEF Init, IsMember
  <2>4. pc[Main(c)] = "off" /\ pc[Recv(c)] = "off"
    BY ProcsDiffer DEF Init
  <2>5. QED
    BY <2>1, <2>2, <2>3, <2>4
    DEF Booked, Unknown, RegistersOnce, LeaverIsAnnounced, WorkerIsKnown, HasLeft, AtWork
<1>4. QED
  BY <1>1, <1>2, <1>3 DEF TalkInv

\* REGISTER: one that is registering is not in the table yet, and will be.
LEMMA RegisterKeeps ==
  ASSUME TalkInv, ServerRegisters
  PROVE  TalkInv'
<1>1. /\ spc = "recv" /\ srvQ # <<>> /\ Head(srvQ).mtype = "REGISTER"
      /\ UNCHANGED pc
  BY DEF ServerRegisters
<1>2. TalkTypes /\ srvQ \in Seq(Messages) /\ OneSlotPerClient /\ \A c \in Clients : Booked(c)
  BY DEF TalkInv, TalkTypes
<1> DEFINE free == {i \in Slots : slots[i] = None}
<1>3. CASE free = {}
  <2>1. spc' = "exited" /\ srvQ' = <<>> /\ UNCHANGED slots
    BY <1>3 DEF ServerRegisters, ServerExits
  <2>2. TalkTypes' /\ OneSlotPerClient'
    BY <1>1, <1>2, <2>1 DEF TalkTypes, OneSlotPerClient
  <2>3. \A c \in Clients : Booked(c)'
    BY <1>1, <1>2, <2>1, ServerGone
  <2>4. QED
    BY <2>2, <2>3 DEF TalkInv
<1>4. CASE free # {}
  <2>1. PICK d \in Clients : Head(srvQ) = Register(d)
    BY <1>1, <1>2, ReceiveIn, MessageKinds
  <2>2. First(free) \in free
    BY <1>4, FirstIsOne DEF Slots
  <2>3. PICK i \in Slots : slots[i] = None /\ slots' = [slots EXCEPT ![i] = d]
    <3>1. slots' = [slots EXCEPT ![First(free)] = Head(srvQ).who]
      BY <1>4 DEF ServerRegisters
    <3>2. Head(srvQ).who = d
      BY <2>1 DEF Register
    <3>3. QED
      BY <2>2, <3>1, <3>2
  <2>4. srvQ' = Tail(srvQ) /\ UNCHANGED spc
    BY <1>4 DEF ServerRegisters
  <2> HIDE DEF free
  <2>5. In(srvQ, Register(d)) /\ Tail(srvQ) \in Seq(Messages)
    BY <1>1, <1>2, <2>1, ReceiveIn
  <2>6. ~IsMember(d) /\ d # None
    BY <1>2, <2>5, TalkAssumption DEF Booked, RegistersOnce
  <2>7. TalkTypes'
    BY <1>1, <1>2, <2>3, <2>4, <2>5 DEF TalkTypes
  <2>8. OneSlotPerClient'
    BY <1>2, <2>3, <2>6 DEF OneSlotPerClient, IsMember, TalkTypes
  <2>9. Booked(d)'
    <3>1. /\ ~In(srvQ', Register(d)) /\ (In(srvQ', Delete(d)) <=> In(srvQ, Delete(d)))
          /\ Once(srvQ', Register(d)) /\ Before(srvQ', Register(d), Delete(d))
      BY <1>1, <1>2, <2>1, <2>4, ReceiveIn, MessagesDiffer DEF Booked, RegistersOnce
    <3>2. pc[Main(d)] \notin {"off", "register"}
      BY <1>2, <2>5 DEF Booked, Unknown
    <3>3. IsMember(d)'
      BY <1>2, <2>3 DEF IsMember, TalkTypes
    <3>4. Unknown(d)' /\ RegistersOnce(d)'
      BY <1>1, <3>1, <3>2 DEF Unknown, RegistersOnce
    <3>5. LeaverIsAnnounced(d)'
      BY <1>1, <1>2, <2>4, <2>5, <3>1 DEF Booked, LeaverIsAnnounced, HasLeft, ServerAlive
    <3>6. WorkerIsKnown(d)'
      BY <1>1, <1>2, <2>4, <3>1, <3>3 DEF Booked, WorkerIsKnown, AtWork, ServerAlive
    <3>7. QED
      BY <3>4, <3>5, <3>6 DEF Booked
  <2>10. ASSUME NEW c \in Clients, c # d
         PROVE  Booked(c)'
    <3>1. QueueKept(c)
      BY <1>1, <1>2, <2>1, <2>4, <2>10, OtherReceived, MessagesDiffer
    <3>2. IsMember(c)' <=> IsMember(c)
      BY <1>2, <2>3, <2>10, TalkAssumption DEF IsMember, TalkTypes
    <3>3. PcKept(c)
      BY <1>1, OtherMoved
    <3>4. QED
      BY <1>2, <2>4, <3>1, <3>2, <3>3, Undisturbed DEF ServerAlive
  <2>11. QED
    BY <2>7, <2>8, <2>9, <2>10 DEF TalkInv
<1>5. QED
  BY <1>3, <1>4

\* DELETE: the only slot of the client is freed, and it cannot register again.
LEMMA DeleteKeeps ==
  ASSUME TalkInv, ServerDeletes
  PROVE  TalkInv'
<1>1. /\ spc = "recv" /\ srvQ # <<>> /\ Head(srvQ).mtype = "DELETE"
      /\ srvQ' = Tail(srvQ) /\ UNCHANGED <<spc, pc>>
  BY DEF ServerDeletes
<1>2. TalkTypes /\ srvQ \in Seq(Messages) /\ OneSlotPerClient /\ \A c \in Clients : Booked(c)
  BY DEF TalkInv, TalkTypes
<1>3. PICK d \in Clients : Head(srvQ) = Delete(d)
  BY <1>1, <1>2, ReceiveIn, MessageKinds
<1>4. d # None
  BY TalkAssumption
<1> DEFINE held == {i \in Slots : slots[i] = d}
<1>5. slots' = IF held = {} THEN slots ELSE [slots EXCEPT ![First(held)] = None]
  <2>1. Head(srvQ).who = d
    BY <1>3 DEF Delete
  <2>2. QED
    BY <2>1 DEF ServerDeletes
<1>6. /\ slots' \in [Slots -> Clients \cup {None}]
      /\ \A i \in Slots : slots'[i] = slots[i] \/ (slots[i] = d /\ slots'[i] = None)
      /\ \A i \in Slots : slots'[i] # d
  <2>1. CASE held = {}
    BY <1>2, <1>5, <2>1 DEF TalkTypes
  <2>2. CASE held # {}
    <3>1. First(held) \in held
      BY <2>2, FirstIsOne DEF Slots
    <3>2. PICK i \in Slots : slots[i] = d /\ slots' = [slots EXCEPT ![i] = None]
      BY <1>5, <2>2, <3>1
    <3>3. QED
      BY <1>2, <1>4, <3>2 DEF OneSlotPerClient, TalkTypes
  <2>3. QED
    BY <2>1, <2>2
<1> HIDE DEF held
<1>7. In(srvQ, Delete(d)) /\ Tail(srvQ) \in Seq(Messages)
  BY <1>1, <1>2, <1>3, ReceiveIn
<1>8. TalkTypes'
  BY <1>1, <1>2, <1>6, <1>7 DEF TalkTypes
<1>9. OneSlotPerClient'
  BY <1>2, <1>6 DEF OneSlotPerClient
<1>10. Booked(d)'
  <2>1. /\ ~In(srvQ', Register(d))
        /\ Once(srvQ', Register(d)) /\ Before(srvQ', Register(d), Delete(d))
    BY <1>1, <1>2, <1>3, ReceiveIn DEF Booked, RegistersOnce
  <2>2. pc[Main(d)] \notin {"off", "register"} /\ ~AtWork(d)
    BY <1>1, <1>2, <1>7 DEF Booked, Unknown, WorkerIsKnown, ServerAlive
  <2>3. ~IsMember(d)'
    BY <1>6 DEF IsMember
  <2>4. QED
    BY <1>1, <2>1, <2>2, <2>3
    DEF Booked, Unknown, RegistersOnce, LeaverIsAnnounced, WorkerIsKnown, AtWork
<1>11. ASSUME NEW c \in Clients, c # d
       PROVE  Booked(c)'
  <2>1. QueueKept(c)
    BY <1>1, <1>2, <1>3, <1>11, OtherReceived, MessagesDiffer
  <2>2. IsMember(c)' <=> IsMember(c)
    BY <1>6, <1>11, TalkAssumption DEF IsMember
  <2>3. PcKept(c)
    BY <1>1, OtherMoved
  <2>4. QED
    BY <1>1, <1>2, <2>1, <2>2, <2>3, Undisturbed DEF ServerAlive
<1>12. QED
  BY <1>8, <1>9, <1>10, <1>11 DEF TalkInv

\* The server's other steps leave the table alone.
LEMMA ServerKeeps ==
  ASSUME TalkInv, ServerLooksUp \/ ServerForwards \/ ServerInterrupted
  PROVE  TalkInv'
<1>1. TalkTypes /\ srvQ \in Seq(Messages) /\ OneSlotPerClient /\ \A c \in Clients : Booked(c)
  BY DEF TalkInv, TalkTypes
<1>2. UNCHANGED <<slots, pc>>
  BY DEF ServerLooksUp, ServerForwards, ServerInterrupted
<1>3. OneSlotPerClient' /\ \A c \in Clients : (IsMember(c)' <=> IsMember(c)) /\ PcKept(c)
  BY <1>1, <1>2, OtherMoved DEF OneSlotPerClient, IsMember
<1>4. CASE ServerLooksUp
  <2>1. /\ spc = "recv" /\ srvQ # <<>> /\ Head(srvQ).mtype = "TALK" /\ srvQ' = Tail(srvQ)
        /\ spc' \in {"recv", "send"}
    BY <1>4 DEF ServerLooksUp, IsTalk
  <2>2. TalkTypes'
    BY <1>1, <1>2, <2>1, ReceiveIn DEF TalkTypes
  <2>3. \A c \in Clients : QueueKept(c)
    BY <1>1, <2>1, ReceiveIn, MessageKinds, OtherReceived
  <2>4. \A c \in Clients : Booked(c)'
    BY <1>1, <1>3, <2>1, <2>3, Undisturbed DEF ServerAlive
  <2>5. QED
    BY <1>3, <2>2, <2>4 DEF TalkInv
<1>5. CASE ServerForwards
  <2>1. spc = "send" /\ spc' = "recv" /\ UNCHANGED srvQ
    BY <1>5 DEF ServerForwards
  <2>2. TalkTypes'
    BY <1>1, <1>2, <2>1 DEF TalkTypes
  <2>3. \A c \in Clients : Booked(c)'
    BY <1>1, <1>3, <2>1, SameQueue, Undisturbed DEF ServerAlive
  <2>4. QED
    BY <1>3, <2>2, <2>3 DEF TalkInv
<1>6. CASE ServerInterrupted
  <2>1. spc' = "exited" /\ srvQ' = <<>>
    BY <1>6 DEF ServerInterrupted, ServerExits
  <2>2. TalkTypes'
    BY <1>1, <1>2, <2>1 DEF TalkTypes
  <2>3. \A c \in Clients : Booked(c)'
    BY <1>1, <1>2, <2>1, ServerGone
  <2>4. QED
    BY <1>3, <2>2, <2>3 DEF TalkInv
<1>7. QED
  BY <1>4, <1>5, <1>6

-----------------------------------------------------------------------------
(* The clients' steps.                                                     *)

\* REGISTER is the first that the server's queue hears of c.
LEMMA RegisteringKeeps ==
  ASSUME TalkInv, NEW c \in Clients, ClientRegisters(c)
  PROVE  TalkInv'
<1>1. TalkTypes /\ srvQ \in Seq(Messages) /\ OneSlotPerClient /\ \A d \in Clients : Booked(d)
  BY DEF TalkInv, TalkTypes
<1>2. pc[Main(c)] = "register" /\ UNCHANGED <<spc, slots>>
  BY DEF ClientRegisters, serverVars
<1>3. OneSlotPerClient' /\ \A d \in Clients : (IsMember(d)' <=> IsMember(d)) /\ (ServerAlive' => ServerAlive)
  BY <1>1, <1>2 DEF OneSlotPerClient, IsMember, ServerAlive
<1>4. /\ pc[Recv(c)] = "off" /\ ~In(srvQ, Register(c)) /\ ~In(srvQ, Delete(c)) /\ ~IsMember(c)
  BY <1>1, <1>2 DEF Booked, Unknown
<1>5. CASE ServerAlive
  <2>1. srvQ' = Append(srvQ, Register(c))
    BY <1>5 DEF ClientRegisters
  <2>2. \/ pc' = [pc EXCEPT ![Main(c)] = "talk", ![Recv(c)] = "wait"]
        \/ pc' = [pc EXCEPT ![Main(c)] = "delete"]
    BY <1>5 DEF ClientRegisters, Exiting
  <2>3. /\ pc' \in [Procs -> {"off", "register", "talk", "wait", "delete", "remove", "exited", "killed"}]
        /\ pc'[Main(c)] \in {"talk", "delete"} /\ pc'[Recv(c)] \in {"off", "wait"}
        /\ \A p \in Procs : p # Main(c) /\ p # Recv(c) => pc'[p] = pc[p]
    <3>1. Main(c) \in Procs /\ Recv(c) \in Procs /\ Main(c) # Recv(c)
      BY ProcsDiffer
    <3>2. QED
      BY <1>1, <1>4, <2>2, <3>1 DEF TalkTypes
  <2>4. Register(c) \in Messages /\ Register(c) # Delete(c)
    BY MessagesDiffer
  <2>5. TalkTypes'
    BY <1>1, <1>2, <2>1, <2>3, <2>4, SendIn DEF TalkTypes
  <2>6. Booked(c)'
    <3>1. /\ In(srvQ', Register(c)) /\ ~In(srvQ', Delete(c))
          /\ Once(srvQ', Register(c)) /\ Before(srvQ', Register(c), Delete(c))
      BY <1>1, <1>4, <2>1, <2>4, SendIn DEF Booked, RegistersOnce
    <3>2. QED
      BY <1>3, <1>4, <2>3, <3>1
      DEF Booked, Unknown, RegistersOnce, LeaverIsAnnounced, WorkerIsKnown, HasLeft, AtWork
  <2>7. ASSUME NEW d \in Clients, d # c
        PROVE  Booked(d)'
    <3>1. QueueKept(d)
      BY <1>1, <2>1, <2>4, <2>7, OtherSent, MessagesDiffer
    <3>2. PcKept(d)
      BY <2>3, <2>7, ProcsDiffer, OtherMoved
    <3>3. QED
      BY <1>1, <1>3, <3>1, <3>2, Undisturbed
  <2>8. QED
    BY <1>3, <2>5, <2>6, <2>7 DEF TalkInv
<1>6. CASE ~ServerAlive
  <2>1. pc' = [pc EXCEPT ![Main(c)] = "delete"] /\ UNCHANGED srvQ
    BY <1>6 DEF ClientRegisters, Exiting
  <2>2. TalkTypes'
    BY <1>1, <1>2, <2>1, ProcsDiffer DEF TalkTypes
  <2>3. \A d \in Clients : PcKept(d)
    BY <1>1, <1>2, <2>1, ProcsDiffer, ExitCalled DEF TalkTypes, Booked
  <2>4. QED
    BY <1>1, <1>3, <2>1, <2>2, <2>3, SameQueue, Undisturbed DEF TalkInv
<1>7. QED
  BY <1>5, <1>6

\* A TALK message is sent or read, or exit() is called: c stays booked.
LEMMA ClientKeeps ==
  ASSUME TalkInv, NEW c \in Clients, ClientStarts(c) \/ ClientTalks(c) \/ ReceiverReads(c)
  PROVE  TalkInv'
<1>1. TalkTypes /\ srvQ \in Seq(Messages) /\ OneSlotPerClient /\ \A d \in Clients : Booked(d)
  BY DEF TalkInv, TalkTypes
<1>2. UNCHANGED <<spc, slots>>
  BY DEF ClientStarts, ClientTalks, ReceiverReads, serverVars
<1>3. OneSlotPerClient' /\ \A d \in Clients : (IsMember(d)' <=> IsMember(d)) /\ (ServerAlive' => ServerAlive)
  BY <1>1, <1>2 DEF OneSlotPerClient, IsMember, ServerAlive
<1>4. Main(c) \in Procs /\ Recv(c) \in Procs
  BY ProcsDiffer
<1>5. CASE ClientStarts(c)
  <2>1. /\ pc[Main(c)] = "off" /\ pc' = [pc EXCEPT ![Main(c)] = "register"] /\ UNCHANGED srvQ
    BY <1>5 DEF ClientStarts
  <2>2. TalkTypes'
    BY <1>1, <1>2, <1>4, <2>1 DEF TalkTypes
  <2>3. ASSUME NEW d \in Clients
        PROVE  PcKept(d)
    <3>1. pc'[Recv(d)] = pc[Recv(d)] /\ (d # c => pc'[Main(d)] = pc[Main(d)])
      BY <2>1, <2>3, ProcsDiffer
    <3>2. pc'[Main(c)] = "register"
      BY <1>1, <1>4, <2>1 DEF TalkTypes
    <3>3. QED
      BY <2>1, <3>1, <3>2 DEF PcKept, HasLeft, AtWork
  <2>4. QED
    BY <1>1, <1>3, <2>1, <2>2, <2>3, SameQueue, Undisturbed DEF TalkInv
<1>6. CASE ~ServerAlive /\ UNCHANGED srvQ /\ \E p \in {Main(c), Recv(c)} :
             pc[p] \in {"talk", "wait"} /\ pc' = [pc EXCEPT ![p] = "delete"]
  <2>1. PICK p \in Procs : pc[p] \in {"talk", "wait"} /\ pc' = [pc EXCEPT ![p] = "delete"]
    BY <1>4, <1>6
  <2>2. TalkTypes'
    BY <1>1, <1>2, <1>6, <2>1 DEF TalkTypes
  <2>3. \A d \in Clients : PcKept(d)
    BY <1>1, <2>1, ExitCalled DEF TalkTypes, Booked
  <2>4. QED
    BY <1>1, <1>3, <1>6, <2>2, <2>3, SameQueue, Undisturbed DEF TalkInv
<1>7. CASE UNCHANGED pc /\ srvQ' \in Seq(Messages) /\ \A d \in Clients : QueueKept(d)
  <2>1. TalkTypes'
    BY <1>1, <1>2, <1>7 DEF TalkTypes
  <2>2. \A d \in Clients : PcKept(d)
    BY <1>7, OtherMoved
  <2>3. QED
    BY <1>1, <1>3, <1>7, <2>1, <2>2, Undisturbed DEF TalkInv
<1>8. CASE ClientTalks(c)
  <2>1. CASE ~ServerAlive /\ Exiting(Main(c)) /\ UNCHANGED srvQ
    BY <1>6, <1>8, <2>1 DEF ClientTalks, Exiting
  <2>2. ASSUME NEW target \in Targets, srvQ' = Append(srvQ, Talk(target)), UNCHANGED pc
        PROVE  TalkInv'
    <3>1. Talk(target) \in Messages
      BY DEF Messages
    <3>2. \A d \in Clients : Talk(target) # Register(d) /\ Talk(target) # Delete(d)
      BY MessagesDiffer
    <3>3. QED
      BY <1>1, <1>7, <2>2, <3>1, <3>2, SendIn, OtherSent
  <2>3. QED
    BY <1>8, <2>1, <2>2 DEF ClientTalks
<1>9. CASE ReceiverReads(c)
  <2>1. CASE ~ServerAlive /\ Exiting(Recv(c)) /\ UNCHANGED srvQ
    BY <1>6, <1>9, <2>1 DEF ReceiverReads, Exiting
  <2> DEFINE talking == {k \in 1..Len(srvQ) : IsTalk(srvQ[k])}
  <2>2. CASE /\ UNCHANGED pc /\ talking # {}
             /\ srvQ' = SubSeq(srvQ, 1, First(talking) - 1)
                          \o SubSeq(srvQ, First(talking) + 1, Len(srvQ))
    <3>1. First(talking) \in talking
      <4>1. talking \subseteq Nat
        OBVIOUS
      <4>2. QED
        BY <2>2, <4>1, FirstIsOne
    <3>2. PICK k \in 1..Len(srvQ) : /\ srvQ[k].mtype = "TALK"
                                    /\ srvQ' = SubSeq(srvQ, 1, k - 1) \o SubSeq(srvQ, k + 1, Len(srvQ))
      BY <2>2, <3>1 DEF IsTalk
    <3>3. /\ srvQ' \in Seq(Messages) /\ Len(srvQ') = Len(srvQ) - 1
          /\ \A i \in 1..Len(srvQ') : srvQ'[i] = IF i < k THEN srvQ[i] ELSE srvQ[i + 1]
      BY <1>1, <3>2, Without
    <3>4. srvQ[k] \in Messages
      BY <1>1
    <3>5. \A d \in Clients : srvQ[k] # Register(d) /\ srvQ[k] # Delete(d)
      BY <3>2 DEF Register, Delete
    <3>6. /\ \A x : x # srvQ[k] => (In(srvQ', x) <=> In(srvQ, x))
          /\ \A x : Once(srvQ, x) => Once(srvQ', x)
          /\ \A x, y : Before(srvQ, x, y) => Before(srvQ', x, y)
      BY <1>1, <3>3, TakeIn
    <3>7. \A d \in Clients : QueueKept(d)
      BY <3>5, <3>6 DEF QueueKept
    <3>8. QED
      BY <1>7, <2>2, <3>3, <3>7
  <2>3. QED
    BY <1>9, <2>1, <2>2 DEF ReceiverReads
<1>10. QED
  BY <1>5, <1>8, <1>9

\* onExit, first half: c has left from now on, and its DELETE is queued.
LEMMA LeavingKeeps ==
  ASSUME TalkInv, NEW p \in Procs, ExitDeletes(p)
  PROVE  TalkInv'
<1>1. TalkTypes /\ srvQ \in Seq(Messages) /\ OneSlotPerClient /\ \A d \in Clients : Booked(d)
  BY DEF TalkInv, TalkTypes
<1>2. /\ pc[p] = "delete" /\ pc' = [pc EXCEPT ![p] = "remove"] /\ UNCHANGED <<spc, slots>>
      /\ srvQ' = IF ServerAlive THEN Append(srvQ, Delete(p[1])) ELSE srvQ
  BY DEF ExitDeletes, serverVars
<1>3. OneSlotPerClient' /\ \A d \in Clients : (IsMember(d)' <=> IsMember(d)) /\ (ServerAlive' <=> ServerAlive)
  BY <1>1, <1>2 DEF OneSlotPerClient, IsMember, ServerAlive
<1>4. PICK c \in Clients : p[1] = c /\ (p = Main(c) \/ p = Recv(c))
  BY DEF Procs, Main, Recv
<1>5. Delete(c) \in Messages /\ Register(c) # Delete(c)
  BY MessagesDiffer
<1>6. TalkTypes'
  BY <1>1, <1>2, <1>4, <1>5, SendIn DEF TalkTypes
<1>7. Booked(c)'
  <2>1. /\ In(srvQ', Register(c)) <=> In(srvQ, Register(c))
        /\ Once(srvQ', Register(c)) /\ Before(srvQ', Register(c), Delete(c))
    BY <1>1, <1>2, <1>4, <1>5, SendIn DEF Booked, RegistersOnce
  <2>2. ServerAlive => In(srvQ', Delete(c))
    BY <1>1, <1>2, <1>4, <1>5, SendIn
  <2>3. pc'[Main(c)] \notin {"off", "register"}
    <3>1. CASE p = Main(c)
      BY <1>1, <1>2, <3>1, ProcsDiffer DEF TalkTypes
    <3>2. CASE p = Recv(c)
      <4>1. pc[Main(c)] \notin {"off", "register"}
        BY <1>1, <1>2, <3>2 DEF Booked, Unknown
      <4>2. pc'[Main(c)] = pc[Main(c)]
        BY <1>2, <3>2, ProcsDiffer
      <4>3. QED
        BY <4>1, <4>2
    <3>3. QED
      BY <1>4, <3>1, <3>2
  <2>4. ~AtWork(c)'
    BY <1>1, <1>2, <1>4, ProcsDiffer DEF AtWork, TalkTypes
  <2>5. Unknown(c)' /\ WorkerIsKnown(c)' /\ LeaverIsAnnounced(c)'
    BY <1>3, <2>2, <2>3, <2>4 DEF Unknown, WorkerIsKnown, LeaverIsAnnounced
  <2>6. RegistersOnce(c)'
    BY <1>1, <1>3, <2>1 DEF Booked, RegistersOnce
  <2>7. QED
    BY <2>5, <2>6 DEF Booked
<1>8. ASSUME NEW d \in Clients, d # c
      PROVE  Booked(d)'
  <2>1. QueueKept(d)
    <3>1. Delete(c) # Register(d) /\ Delete(c) # Delete(d)
      BY <1>8, MessagesDiffer
    <3>2. QED
      BY <1>1, <1>2, <1>4, <1>5, <3>1, OtherSent, SameQueue
  <2>2. PcKept(d)
    <3>1. p # Main(d) /\ p # Recv(d)
      BY <1>4, <1>8, ProcsDiffer
    <3>2. pc'[Main(d)] = pc[Main(d)] /\ pc'[Recv(d)] = pc[Recv(d)]
      BY <1>2, <3>1, ProcsDiffer
    <3>3. QED
      BY <3>2, OtherMoved
  <2>3. QED
    BY <1>1, <1>3, <2>1, <2>2, Undisturbed
<1>9. QED
  BY <1>3, <1>6, <1>7, <1>8 DEF TalkInv

\* onExit, second half, and signals: nothing the server would notice.
LEMMA EndingKeeps ==
  ASSUME TalkInv, NEW p \in Procs, ExitRemoves(p) \/ ClientSignalled(p)
  PROVE  TalkInv'
<1>1. TalkTypes /\ srvQ \in Seq(Messages) /\ OneSlotPerClient /\ \A d \in Clients : Booked(d)
  BY DEF TalkInv, TalkTypes
<1>2. UNCHANGED <<spc, slots, srvQ>>
  BY DEF ExitRemoves, ClientSignalled, serverVars
<1>3. OneSlotPerClient' /\ \A d \in Clients : (IsMember(d)' <=> IsMember(d)) /\ (ServerAlive' => ServerAlive)
  BY <1>1, <1>2 DEF OneSlotPerClient, IsMember, ServerAlive
<1>4. TalkTypes' /\ \A d \in Clients : PcKept(d)
  <2>1. CASE ExitRemoves(p)
    <3>1. pc[p] = "remove" /\ pc' = [pc EXCEPT ![p] = "exited"]
      BY <2>1 DEF ExitRemoves
    <3>2. TalkTypes'
      BY <1>1, <1>2, <3>1 DEF TalkTypes
    <3>3. ASSUME NEW d \in Clients
          PROVE  PcKept(d)
      <4>1. Main(d) \in Procs /\ Recv(d) \in Procs /\ Main(d) # Recv(d)
        BY ProcsDiffer
      <4>2. /\ pc'[Main(d)] = pc[Main(d)] \/ (pc[Main(d)] = "remove" /\ pc'[Main(d)] = "exited")
            /\ pc'[Recv(d)] = pc[Recv(d)] \/ (pc[Recv(d)] = "remove" /\ pc'[Recv(d)] = "exited")
        BY <1>1, <3>1, <4>1 DEF TalkTypes
      <4>3. pc[Main(d)] \in {"off", "register"} => pc[Recv(d)] = "off"
        BY <1>1 DEF Booked, Unknown
      <4>4. QED
        BY <4>2, <4>3 DEF PcKept, HasLeft, AtWork
    <3>4. QED
      BY <3>2, <3>3
  <2>2. CASE ClientSignalled(p)
    <3>1. PICK s \in {"delete", "killed"} : pc' = [pc EXCEPT ![p] = s]
      BY <2>2 DEF ClientSignalled, Exiting
    <3>2. pc[p] # "off"
      BY <2>2 DEF ClientSignalled
    <3>3. TalkTypes'
      BY <1>1, <1>2, <3>1 DEF TalkTypes
    <3>4. QED
      BY <1>1, <3>1, <3>2, <3>3, ExitCalled DEF TalkTypes, Booked
  <2>3. QED
    BY <2>1, <2>2
<1>5. QED
  BY <1>1, <1>2, <1>3, <1>4, SameQueue, Undisturbed DEF TalkInv

-----------------------------------------------------------------------------
(* The theorems.                                                           *)

\* Every step of the service keeps the table and the queue in agreement.
LEMMA TalkInvKept == TalkInv /\ [Next]_vars => TalkInv'
<1> SUFFICES ASSUME TalkInv, [Next]_vars
             PROVE  TalkInv'
  OBVIOUS
<1>1. CASE ServerStep
  BY <1>1, RegisterKeeps, DeleteKeeps, ServerKeeps DEF ServerStep
<1>2. CASE ServerInterrupted
  BY <1>2, ServerKeeps
<1>3. ASSUME NEW c \in Clients,
             ClientStarts(c) \/ ClientRegisters(c) \/ ClientTalks(c) \/ ReceiverReads(c)
      PROVE  TalkInv'
  BY <1>3, RegisteringKeeps, ClientKeeps
<1>4. ASSUME NEW p \in Procs, ExitDeletes(p) \/ ExitRemoves(p) \/ ClientSignalled(p)
      PROVE  TalkInv'
  BY <1>4, LeavingKeeps, EndingKeeps
<1>5. CASE UNCHANGED vars
  <2>1. UNCHANGED <<spc, srvQ, slots, pc>>
    BY <1>5 DEF vars, serverVars
  <2>2. TalkTypes /\ OneSlotPerClient /\ \A c \in Clients : Booked(c)
    BY DEF TalkInv
  <2>3. \A c \in Clients : PcKept(c) /\ (IsMember(c)' <=> IsMember(c)) /\ (ServerAlive' => ServerAlive)
    BY <2>1, OtherMoved DEF IsMember, ServerAlive
  <2>4. TalkTypes' /\ OneSlotPerClient'
    BY <2>1, <2>2 DEF TalkTypes, OneSlotPerClient
  <2>5. QED
    BY <2>1, <2>2, <2>3, <2>4, SameQueue, Undisturbed DEF TalkInv
<1>6. QED
  BY <1>1, <1>2, <1>3, <1>4, <1>5 DEF Next

\* The invariant holds whatever the clients and signals do.
LEMMA TalkInvHolds == Spec => []TalkInv
<1>1. QED
  BY InitTalk, TalkInvKept, PTL DEF Spec

\* A client is in the table at most once, however registrations, deletions and
\* the reuse of freed slots interleave (server lines 116-161).
THEOREM OneSlotEach == Spec => []OneSlotPerClient
<1>1. TalkInv => OneSlotPerClient
  BY DEF TalkInv
<1>2. QED
  BY <1>1, TalkInvHolds, PTL

\* A client that has left is forgotten once the server has read its messages:
\* its DELETE neither overtakes its REGISTER nor is undone by it, whichever of
\* its processes leaves first (client lines 35-44 and 108-114).
THEOREM LeaversForgotten == Spec => []LeaversAreForgotten
<1>1. TalkInv => LeaversAreForgotten
  <2>1. SUFFICES ASSUME TalkInv, NEW c \in Clients, HasLeft(c), ServerAlive,
                        ~Queued(Register(c)), ~Queued(Delete(c))
                 PROVE  ~IsMember(c)
    BY DEF LeaversAreForgotten, HasLeft
  <2>2. LeaverIsAnnounced(c)
    BY <2>1 DEF TalkInv, Booked
  <2>3. QED
    BY <2>1, <2>2 DEF LeaverIsAnnounced, Queued, In
<1>2. QED
  BY <1>1, TalkInvHolds, PTL

\* A client at work is in the table as soon as its REGISTER has been read, and
\* stays there: nobody else's DELETE frees its slot.
THEOREM WorkersAreMembers == Spec => []MembersStayKnown
<1>1. TalkInv => MembersStayKnown
  <2>1. SUFFICES ASSUME TalkInv, NEW c \in Clients, AtWork(c), ServerAlive, ~Queued(Register(c))
                 PROVE  IsMember(c)
    BY DEF MembersStayKnown, AtWork
  <2>2. WorkerIsKnown(c)
    BY <2>1 DEF TalkInv, Booked
  <2>3. QED
    BY <2>1, <2>2 DEF WorkerIsKnown, Queued, In
<1>2. QED
  BY <1>1, TalkInvHolds, PTL

=============================================================================
