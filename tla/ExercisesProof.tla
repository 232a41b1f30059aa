--------------------------- MODULE ExercisesProof ---------------------------
(***************************************************************************)
(* Proofs about the programs of Exercises.  One invariant for each program  *)
(* is kept by its steps, and by all others because they leave its variables *)
(* alone; Next is a disjunction over the programs.  The last part is about  *)
(* a program that is not among them, the game of AlienInvasion.             *)
(***************************************************************************)
EXTENDS Exercises, AlienInvasion, SequenceTheorems, FiniteSetTheorems, WellFoundedInduction, TLAPS

-----------------------------------------------------------------------------
(* practice/55.4: locks are those of the two arguments, held by who works.  *)

ProbeInv ==
  /\ probe \in [Provers -> {"off", "try", "hold", "wait", "ended"}]
  /\ probeArgs = <<>> \/ probeArgs \in LockArgs \X LockArgs
  /\ probe["first"] \in {"off", "try", "hold"} => probe["again"] = "off"
  /\ probeArgs = <<>> => reports = {} /\ probeLocks = {} /\ \A p \in Provers : probe[p] = "off"
  /\ \A l \in probeLocks : /\ l.owner \in Provers /\ l.lock = probeArgs[TurnOf(l.owner)]
                           /\ probe[l.owner] \in {"hold", "wait"}
  /\ ReportsAreExplained

\* Nobody has forked yet.
LEMMA InitProbe == ProbeInit => ProbeInv
BY DEF ProbeInit, ProbeInv, ReportsAreExplained, Provers

\* The second lock is refused for a reason that the report's reader is told.
LEMMA NextProbe == ProbeInv /\ [ProbeNext]_probeVars => ProbeInv'
<1> SUFFICES ASSUME ProbeInv, [ProbeNext]_probeVars
             PROVE  ProbeInv'
  OBVIOUS
<1> USE DEF Provers
<1>1. CASE ProbeForks
  <2>1. probeArgs' \in LockArgs \X LockArgs /\ probeArgs' # <<>>
    <3>1. PICK a \in LockArgs, b \in LockArgs : probeArgs' = <<a, b>>
      BY <1>1 DEF ProbeForks
    <3>2. Len(<<a, b>>) = 2 /\ Len(<<>>) = 0
      OBVIOUS
    <3>3. QED
      BY <1>1, <3>1, <3>2 DEF ProbeForks
  <2>2. reports = {} /\ probeLocks = {} /\ UNCHANGED <<reports, probeLocks>>
    BY <1>1 DEF ProbeForks, ProbeInv
  <2>3. probe' \in [Provers -> {"off", "try", "hold", "wait", "ended"}] /\ probe'["again"] = "off"
    BY <1>1 DEF ProbeForks, ProbeInv
  <2>4. QED
    BY <2>1, <2>2, <2>3 DEF ProbeInv, ReportsAreExplained
<1>2. CASE ProbeGoesOn
  <2>1. /\ probe["first"] = "hold" /\ probe' = [probe EXCEPT !["first"] = "wait", !["again"] = "try"]
        /\ UNCHANGED <<probeArgs, probeLocks, reports>>
    BY <1>2 DEF ProbeGoesOn
  <2>2. probe["again"] = "off"
    BY <2>1 DEF ProbeInv
  <2>3. probe' \in [Provers -> {"off", "try", "hold", "wait", "ended"}] /\ probe'["again"] = "try"
        /\ probe'["first"] = "wait" /\ probe'["second"] = probe["second"]
    BY <2>1 DEF ProbeInv
  <2>4. QED
    BY <2>1, <2>2, <2>3 DEF ProbeInv, ReportsAreExplained
<1>3. ASSUME NEW p \in Provers, ProbeTakes(p)
      PROVE  ProbeInv'
  BY <1>3 DEF ProbeTakes, ProbeInv, ReportsAreExplained, LockFor
<1>4. ASSUME NEW p \in Provers, ProbeFails(p)
      PROVE  ProbeInv'
  <2>1. /\ probe[p] = "try" /\ probe' = [probe EXCEPT ![p] = "ended"]
        /\ UNCHANGED <<probeArgs, probeLocks>>
    BY <1>4 DEF ProbeFails
  <2>2. PICK l \in probeLocks : Conflict(l.lock, probeArgs[TurnOf(p)])
    BY <1>4 DEF ProbeFails, Refused, LockFor
  <2>3. /\ l.owner \in Provers /\ l.owner # p /\ l.lock = probeArgs[TurnOf(l.owner)]
        /\ probe[l.owner] \in {"hold", "wait"}
    BY <2>1, <2>2 DEF ProbeInv
  <2>4. ASSUME TurnOf(p) = 2
        PROVE  \/ Conflict(probeArgs[1], probeArgs[2])
               \/ Conflict(probeArgs[2], probeArgs[2]) /\ probe["again"] # "off"
    BY <2>1, <2>2, <2>3, <2>4 DEF TurnOf
  <2>5. reports' = IF TurnOf(p) = 2 THEN reports \cup {p} ELSE reports
    BY <1>4 DEF ProbeFails
  <2>6. ReportsAreExplained'
    <3>1. probe["again"] # "off" => probe'["again"] # "off"
      BY <2>1 DEF ProbeInv
    <3>2. CASE TurnOf(p) = 2
      BY <2>1, <2>4, <3>1, <3>2 DEF ReportsAreExplained
    <3>3. CASE TurnOf(p) # 2
      BY <2>1, <2>5, <3>1, <3>3 DEF ReportsAreExplained, ProbeInv
    <3>4. QED
      BY <3>2, <3>3
  <2>7. QED
    BY <2>1, <2>3, <2>6 DEF ProbeInv
<1>5. ASSUME NEW p \in Provers, ProbeExits(p)
      PROVE  ProbeInv'
  BY <1>5 DEF ProbeExits, ProbeInv, ReportsAreExplained
<1>6. CASE UNCHANGED probeVars
  BY <1>6 DEF probeVars, ProbeInv, ReportsAreExplained
<1>7. QED
  BY <1>1, <1>2, <1>3, <1>4, <1>5, <1>6 DEF ProbeNext

-----------------------------------------------------------------------------
(* practice/5.3: where a process that seeks is going to write.              *)

AppendInv ==
  /\ appendPc \in [Writers -> {"off", "loop", "write", "ended"}]
  /\ uselseek \in [Writers -> BOOLEAN]
  /\ bytes \in [Writers -> Nat] /\ written \in [Writers -> Nat] /\ offset \in [Writers -> Nat]
  /\ oldLength \in Nat /\ length \in Nat
  /\ \A w \in Writers : appendPc[w] = "off" => written[w] = 0 /\ ~uselseek[w]
  /\ \A w \in Writers : appendPc[w] = "write" => bytes[w] > 0
  /\ \A w \in Writers : appendPc[w] = "write" /\ uselseek[w] =>
       oldLength + written[w] <= offset[w] /\ offset[w] <= length
  /\ \A w \in Writers : oldLength + written[w] <= length
  /\ length <= oldLength + written["one"] + written["two"]
  /\ ~uselseek["one"] /\ ~uselseek["two"] => length = oldLength + written["one"] + written["two"]

\* Neither process has been started.
LEMMA InitAppend == AppendInit => AppendInv
BY DEF AppendInit, AppendInv, Writers

\* Every byte goes to the end of the file or to an offset behind all one's own.
LEMMA NextAppend == AppendInv /\ [AppendNext]_appendVars => AppendInv'
<1> SUFFICES ASSUME AppendInv, [AppendNext]_appendVars
             PROVE  AppendInv'
  OBVIOUS
<1> USE BytesAssumption DEF Writers, AppendInv
<1>1. CASE FileExists
  BY <1>1 DEF FileExists
<1>2. ASSUME NEW w \in Writers, AppendOpens(w)
      PROVE  AppendInv'
  <2>1. PICK n \in 0..MaxBytes, seek \in BOOLEAN :
          bytes' = [bytes EXCEPT ![w] = n] /\ uselseek' = [uselseek EXCEPT ![w] = seek]
    BY <1>2 DEF AppendOpens
  <2>2. appendPc[w] = "off" /\ appendPc' = [appendPc EXCEPT ![w] = "loop"]
        /\ UNCHANGED <<written, offset, oldLength, length>>
    BY <1>2 DEF AppendOpens
  <2>3. ~uselseek'["one"] /\ ~uselseek'["two"] => ~uselseek["one"] /\ ~uselseek["two"]
    BY <2>1, <2>2
  <2>4. uselseek' \in [Writers -> BOOLEAN] /\ bytes' \in [Writers -> Nat]
    BY <2>1
  <2>5. QED
    BY <2>1, <2>2, <2>3, <2>4
<1>3. ASSUME NEW w \in Writers, AppendSeeks(w)
      PROVE  AppendInv'
  <2>1. /\ appendPc[w] = "loop" /\ appendPc' \in [Writers -> {"off", "loop", "write", "ended"}]
        /\ appendPc'[w] \in {"write", "ended"} /\ \A v \in Writers \ {w} : appendPc'[v] = appendPc[v]
        /\ UNCHANGED <<uselseek, bytes, written, oldLength, length>>
        /\ appendPc'[w] = "write" => bytes[w] > 0
    BY <1>3 DEF AppendSeeks
  <2>2. CASE offset' = [offset EXCEPT ![w] = length]
    BY <2>1, <2>2
  <2>3. CASE offset' = offset /\ (appendPc'[w] = "write" => ~uselseek[w])
    BY <2>1, <2>3
  <2>4. offset' = [offset EXCEPT ![w] = length] \/ (offset' = offset /\ (~uselseek[w] \/ ~(bytes[w] > 0)))
    BY <1>3 DEF AppendSeeks
  <2>5. bytes[w] = 0 => appendPc'[w] = "ended"
    BY <1>3 DEF AppendSeeks
  <2>6. QED
    BY <2>1, <2>2, <2>3, <2>4, <2>5
<1>4. ASSUME NEW w \in Writers, AppendWrites(w)
      PROVE  AppendInv'
  <2>1. CASE appendPc' = [appendPc EXCEPT ![w] = "ended"] /\ UNCHANGED <<bytes, written, offset, length>>
    BY <1>4, <2>1 DEF AppendWrites
  <2>2. CASE /\ appendPc[w] = "write" /\ appendPc' = [appendPc EXCEPT ![w] = "loop"]
             /\ written' = [written EXCEPT ![w] = @ + 1]
    <3>1. PICK at \in Nat : /\ at = IF uselseek[w] THEN offset[w] ELSE length
                            /\ length' = IF at = length THEN length + 1 ELSE length
                            /\ offset' = [offset EXCEPT ![w] = at + 1]
      BY <1>4, <2>2 DEF AppendWrites, Flags
    <3>2. oldLength + written[w] <= at /\ at <= length
      BY <2>2, <3>1
    <3>3. /\ length' \in Nat /\ length <= length' /\ length' <= length + 1
          /\ oldLength + (written[w] + 1) <= length' /\ (~uselseek[w] => length' = length + 1)
      BY <2>2, <3>1, <3>2
    <3>4. /\ UNCHANGED <<uselseek, oldLength>> /\ bytes' \in [Writers -> Nat]
          /\ \A v \in Writers \ {w} : bytes'[v] = bytes[v]
      BY <1>4, <2>2 DEF AppendWrites
    <3>5. CASE w = "one"
      BY <2>2, <3>1, <3>3, <3>4, <3>5
    <3>6. CASE w = "two"
      BY <2>2, <3>1, <3>3, <3>4, <3>6
    <3>7. QED
      BY <3>5, <3>6
  <2>3. QED
    BY <1>4, <2>1, <2>2 DEF AppendWrites
<1>5. CASE UNCHANGED appendVars
  BY <1>5 DEF appendVars
<1>6. QED
  BY <1>1, <1>2, <1>3, <1>4, <1>5 DEF AppendNext

-----------------------------------------------------------------------------
(* practice/19.1: what the kernel watches, the events on their way and the  *)
(* table agree, until the monitor's own removal code has run.               *)

\* What an event reports and the names it may carry.
Masks == {"create", "delete", "other"}
Labels == Objects \cup {""}
Events == [wd : Nat \ {0}, mask : Masks, name : Labels]
Waiting(q, e) == \E k \in 1..Len(q) : q[k] = e

\* The program has an entry of this descriptor.
Known(wd) == \E i \in 1..Slots : table[i].wd = wd
Working == monPc \in {"walk", "read"}
Listed(o) == \E i \in 1..Slots : table[i] = [wd |-> wdOf[o], name |-> o]

MonitorTypes ==
  /\ tree \subseteq Objects /\ wdOf \in [Objects -> Nat] /\ lastWd \in Nat
  /\ queue \in Seq(Events)
  /\ table \in [1..Slots -> [wd : Nat, name : Objects \cup {""}]]
  /\ \A i \in 1..Slots : table[i].name = "" => table[i].wd = 0

WatchesKnown ==
  /\ \A o \in Objects : wdOf[o] # 0 => Known(wdOf[o])
  /\ \A e \in Events : Waiting(queue, e) => Known(e.wd)

\* As long as nothing was deleted or moved: what is named exists, ...
NamesExist ==
  /\ "R" \in tree
  /\ \A o \in Objects : <<"visit", o>> \in toWalk => o \in tree
  /\ \A e \in Events : Waiting(queue, e) =>
       e.mask # "delete" /\ (e.mask = "create" => e.name \in tree \cap Moveable)

\* ... and a file of a watched directory is listed or will be.
Reported(o) ==
  \/ Listed(o)
  \/ <<"list", DirOf[o]>> \in toWalk \/ <<"visit", o>> \in toWalk
  \/ \E e \in Events : Waiting(queue, e) /\ e.mask = "create" /\ e.name = o

FilesReported == \A o \in tree \cap Moveable : wdOf[DirOf[o]] # 0 => Reported(o)

MonitorInv ==
  /\ calm \in BOOLEAN /\ purged \in BOOLEAN
  /\ monPc \in {"off", "walk", "read", "exit", "undefined"}
  /\ monPc = "off" => ~purged /\ queue = <<>> /\ \A o \in Objects : wdOf[o] = 0
  /\ monPc = "read" => toWalk = {}
  /\ monPc = "exit" => ~calm
  /\ monPc = "undefined" => purged \/ Free = {}
  /\ purged => ~calm
  /\ ~purged => MonitorTypes
  /\ ~purged /\ Working => WatchesKnown
  /\ calm /\ monPc # "off" => NamesExist
  /\ calm /\ Working => FilesReported

\* The objects by name.
LEMMA TheObjects ==
  /\ Objects = {"R", "S", "a", "b", "c"} /\ "" \notin Objects
  /\ Moveable \subseteq Objects \ {"R", "S"} /\ "R" \in Objects /\ "S" \in Objects
  /\ \A o \in Objects \ {"R"} : DirOf[o] \in {"R", "S"}
BY DEF Objects, DirOf, Moveable

\* The first of some positions is one of them.
LEMMA Min1IsOne ==
  ASSUME NEW S, S \subseteq Nat, NEW s \in S
  PROVE  Min1(S) \in S
<1> DEFINE R == {ij \in Nat \X Nat : ij[1] < ij[2]}
<1>1. IsWellFoundedOn(R, Nat)
  BY NatLessThanWellFounded, Zenon DEF OpToRel
<1>2. \A i, j \in Nat : <<i, j>> \in R <=> i < j
  OBVIOUS
<1> HIDE DEF R
<1>3. PICK x \in S : \A y \in S : ~(<<y, x>> \in R)
  <2>1. S # {}
    OBVIOUS
  <2>2. QED
    BY <1>1, <2>1, WFMin, Zenon
<1>4. x \in Nat /\ \A y \in S : y \in Nat
  OBVIOUS
<1>5. \A y \in S : x <= y
  <2>1. \A y \in S : ~(y < x)
    BY <1>2, <1>3, <1>4
  <2>2. QED
    BY <1>4, <2>1
<1>6. QED
  BY <1>5 DEF Min1

\* Events that join others in the queue.
LEMMA WaitingJoins ==
  ASSUME NEW q \in Seq(Events), NEW r \in Seq(Events)
  PROVE  /\ q \o r \in Seq(Events)
         /\ \A e : Waiting(q \o r, e) <=> Waiting(q, e) \/ Waiting(r, e)
<1> DEFINE s == q \o r
<1>1. /\ s \in Seq(Events) /\ Len(s) = Len(q) + Len(r)
      /\ \A i \in 1..(Len(q) + Len(r)) : s[i] = IF i <= Len(q) THEN q[i] ELSE r[i - Len(q)]
      /\ Len(q) \in Nat /\ Len(r) \in Nat
  BY ConcatProperties
<1> HIDE DEF s
<1>2. \A i \in 1..Len(q) : i \in 1..Len(s) /\ s[i] = q[i]
  BY <1>1
<1>3. ASSUME NEW i \in 1..Len(r)
      PROVE  Len(q) + i \in 1..Len(s) /\ s[Len(q) + i] = r[i]
  <2>1. Len(q) + i \in 1..(Len(q) + Len(r)) /\ ~(Len(q) + i <= Len(q)) /\ (Len(q) + i) - Len(q) = i
    BY <1>1
  <2>2. QED
    BY <1>1, <2>1
<1>4. ASSUME NEW k \in 1..Len(s)
      PROVE  \/ k \in 1..Len(q) /\ s[k] = q[k]
             \/ k - Len(q) \in 1..Len(r) /\ s[k] = r[k - Len(q)]
  BY <1>1
<1>5. \A e : Waiting(s, e) <=> Waiting(q, e) \/ Waiting(r, e)
  <2>1. ASSUME NEW e, Waiting(s, e) PROVE Waiting(q, e) \/ Waiting(r, e)
    BY <1>4, <2>1 DEF Waiting
  <2>2. ASSUME NEW e, Waiting(q, e) PROVE Waiting(s, e)
    BY <1>2, <2>2 DEF Waiting
  <2>3. ASSUME NEW e, Waiting(r, e) PROVE Waiting(s, e)
    BY <1>3, <2>3 DEF Waiting
  <2>4. QED
    BY <2>1, <2>2, <2>3
<1>6. QED
  BY <1>1, <1>5 DEF s

\* The first event is taken from the queue.
LEMMA WaitingLeaves ==
  ASSUME NEW q \in Seq(Events), q # <<>>
  PROVE  /\ Tail(q) \in Seq(Events) /\ Head(q) \in Events /\ Waiting(q, Head(q))
         /\ \A e : Waiting(Tail(q), e) => Waiting(q, e)
         /\ \A e : Waiting(q, e) => Waiting(Tail(q), e) \/ e = Head(q)
<1> DEFINE t == Tail(q)
<1>1. /\ Len(q) \in Nat /\ t \in Seq(Events) /\ Len(t) = Len(q) - 1
      /\ Head(q) = q[1] /\ \A k \in 1..Len(t) : t[k] = q[k + 1]
  OBVIOUS
<1>2. Len(q) > 0 /\ 1 \in 1..Len(q) /\ Head(q) \in Events
  <2>1. Len(q) # 0
    OBVIOUS
  <2>2. QED
    BY <1>1, <2>1
<1> HIDE DEF t
<1>3. \A k \in 1..Len(t) : k + 1 \in 1..Len(q) /\ t[k] = q[k + 1]
  BY <1>1
<1>4. ASSUME NEW k \in 1..Len(q), k # 1
      PROVE  k - 1 \in 1..Len(t) /\ t[k - 1] = q[k]
  <2>1. k - 1 \in 1..Len(t) /\ (k - 1) + 1 = k
    BY <1>1, <1>4
  <2>2. t[k - 1] = q[(k - 1) + 1]
    BY <1>1, <2>1
  <2>3. QED
    BY <2>1, <2>2
<1>5. \A e : Waiting(t, e) => Waiting(q, e)
  BY <1>3 DEF Waiting
<1>6. \A e : Waiting(q, e) => Waiting(t, e) \/ e = Head(q)
  BY <1>1, <1>4 DEF Waiting
<1>7. QED
  BY <1>1, <1>2, <1>5, <1>6 DEF t, Waiting

\* An empty queue has no events.
LEMMA NothingWaits == <<>> \in Seq(Events) /\ \A e : ~Waiting(<<>>, e)
<1>1. Len(<<>>) = 0 /\ 1..0 = {}
  OBVIOUS
<1>2. \A e : ~Waiting(<<>>, e)
  BY <1>1, Zenon DEF Waiting
<1>3. QED
  BY <1>2

\* The positions of a queue of one event.
LEMMA OneIsOne == 1..1 = {1}
OBVIOUS

\* A queue of one event.
LEMMA OneEvent ==
  ASSUME NEW v \in Events
  PROVE  <<v>> \in Seq(Events) /\ Len(<<v>>) = 1 /\ <<v>>[1] = v
<1> DEFINE S == Events
<1> HIDE DEF S
<1>1. v \in S
  BY DEF S
<1>2. <<v>> \in Seq(S) /\ Len(<<v>>) = 1 /\ <<v>>[1] = v
  BY <1>1
<1>3. QED
  BY <1>2 DEF S

\* What a change of o gives to whoever watches it.
LEMMA EventWaits ==
  wdOf \in [Objects -> Nat] =>
    \A o \in Objects, mask \in Masks, n \in Labels :
      /\ Event(o, mask, n) \in Seq(Events)
      /\ \A e : Waiting(Event(o, mask, n), e) <=>
                  wdOf[o] # 0 /\ e = [wd |-> wdOf[o], mask |-> mask, name |-> n]
<1> SUFFICES ASSUME wdOf \in [Objects -> Nat], NEW o \in Objects,
                    NEW mask \in Masks, NEW n \in Labels
             PROVE  /\ Event(o, mask, n) \in Seq(Events)
                    /\ \A e : Waiting(Event(o, mask, n), e) <=>
                                wdOf[o] # 0 /\ e = [wd |-> wdOf[o], mask |-> mask, name |-> n]
  OBVIOUS
<1> DEFINE v == [wd |-> wdOf[o], mask |-> mask, name |-> n]
<1>1. CASE wdOf[o] = 0
  <2>1. Event(o, mask, n) = <<>>
    BY <1>1 DEF Event
  <2>2. <<>> \in Seq(Events) /\ \A e : ~Waiting(<<>>, e)
    BY NothingWaits
  <2>3. QED
    BY <1>1, <2>1, <2>2
<1>2. CASE wdOf[o] # 0
  <2>1. v \in Events
    BY <1>2 DEF Events
  <2> HIDE DEF v
  <2>2. <<v>> \in Seq(Events) /\ Len(<<v>>) = 1 /\ <<v>>[1] = v
    BY <2>1, OneEvent
  <2>3. Event(o, mask, n) = <<v>>
    BY <1>2 DEF Event, v
  <2>4. \A e : Waiting(<<v>>, e) <=> e = v
    BY <2>2, OneIsOne, Zenon DEF Waiting
  <2>5. QED
    BY <1>2, <2>2, <2>3, <2>4 DEF v
<1>3. QED
  BY <1>1, <1>2

\* Only watches that the program knows report anything.
LEMMA KnownEvents ==
  ASSUME MonitorTypes, WatchesKnown, NEW p \in Objects,
         NEW mask \in Masks, NEW n \in Labels
  PROVE  /\ Event(p, mask, n) \in Seq(Events)
         /\ \A e \in Events : Waiting(Event(p, mask, n), e) => Known(e.wd)
<1>1. wdOf \in [Objects -> Nat]
  BY DEF MonitorTypes
<1>2. /\ Event(p, mask, n) \in Seq(Events)
      /\ \A e : Waiting(Event(p, mask, n), e) <=>
                  wdOf[p] # 0 /\ e = [wd |-> wdOf[p], mask |-> mask, name |-> n]
  BY <1>1, EventWaits
<1>3. wdOf[p] # 0 => Known(wdOf[p])
  BY DEF WatchesKnown
<1>4. ASSUME NEW e \in Events, Waiting(Event(p, mask, n), e)
      PROVE Known(e.wd)
  <2>1. wdOf[p] # 0 /\ e = [wd |-> wdOf[p], mask |-> mask, name |-> n]
    BY <1>2, <1>4
  <2>2. e.wd = wdOf[p]
    BY <2>1
  <2>3. QED BY <2>1, <2>2, <1>3
<1>5. QED
  BY <1>2, <1>4

-----------------------------------------------------------------------------
(* The steps of the monitor and of its tree.                               *)

\* What every step leaves as it is, or changes in one direction only.
LEMMA MonitorFrame ==
  ASSUME MonitorInv, [MonitorNext]_monitorVars
  PROVE  /\ calm' \in BOOLEAN /\ purged' \in BOOLEAN /\ (calm' => calm) /\ (purged => purged')
         /\ monPc' \in {"off", "walk", "read", "exit", "undefined"}
         /\ monPc' = "read" => toWalk' = {}
<1>1. CASE MonitorStarts
  BY <1>1 DEF MonitorStarts, MonitorInv
<1>2. CASE WalkEnds
  BY <1>2 DEF WalkEnds, MonitorInv, treeVars
<1>3. ASSUME NEW o \in Objects, WalkVisits(o) \/ WalkLists(o)
      PROVE  /\ UNCHANGED <<calm, purged>> /\ monPc = "walk"
             /\ monPc' \in {"walk", "exit", "undefined"}
  BY <1>3 DEF WalkVisits, WalkLists, treeVars, Adds, Vanished
<1>4. CASE MonitorHandles
  <2>1. monPc = "read" /\ UNCHANGED <<calm, toWalk>>
    BY <1>4 DEF MonitorHandles, treeVars
  <2>2. monPc' \in {"read", "exit", "undefined"} /\ (purged' = purged \/ purged' = TRUE)
    BY <1>4 DEF MonitorHandles, Removes, Adds, Vanished
  <2>3. (monPc = "read" => toWalk = {}) /\ calm \in BOOLEAN /\ purged \in BOOLEAN
    BY DEF MonitorInv
  <2>4. QED
    BY <2>1, <2>2, <2>3
<1>5. CASE TreeChanges
  <2>1. UNCHANGED <<monPc, toWalk, purged>> /\ (calm' = calm \/ calm' = FALSE)
    BY <1>5 DEF TreeChanges, Create, Unlink, Move, Change
  <2>2. (monPc = "read" => toWalk = {}) /\ calm \in BOOLEAN /\ purged \in BOOLEAN
        /\ monPc \in {"off", "walk", "read", "exit", "undefined"}
    BY DEF MonitorInv
  <2>3. calm' \in BOOLEAN /\ (calm' => calm)
    <3>1. CASE calm' = calm
      BY <2>2, <3>1
    <3>2. CASE calm' = FALSE
      BY <3>2
    <3>3. QED
      BY <2>1, <3>1, <3>2
  <2>4. purged' \in BOOLEAN /\ (purged => purged')
    BY <2>1, <2>2
  <2>5. monPc' = monPc /\ toWalk' = toWalk
    BY <2>1
  <2>6. QED
    BY <2>2, <2>3, <2>4, <2>5
<1>6. CASE UNCHANGED monitorVars
  BY <1>6 DEF monitorVars, MonitorInv
<1>7. QED
  BY <1>1, <1>2, <1>3, <1>4, <1>5, <1>6 DEF MonitorNext, MonitorStep, MonitorInv

\* A new entry, in a free slot: all others stay.
LEMMA AddsEntry ==
  ASSUME MonitorTypes, NEW o \in Objects, Adds(o)
  PROVE  /\ wdOf' \in [Objects -> Nat] /\ lastWd' \in Nat
         /\ table' \in [1..Slots -> [wd : Nat, name : Objects \cup {""}]]
         /\ \A i \in 1..Slots : table'[i].name = "" => table'[i].wd = 0
         /\ \/ monPc' = "undefined" /\ Free' = {}
            \/ /\ UNCHANGED monPc /\ Listed(o)' /\ Known(wdOf[o])'
               /\ \A wd \in Nat \ {0} : Known(wd) => Known(wd)'
               /\ \A p \in Objects : p # o => wdOf'[p] = wdOf[p] /\ (Listed(p) => Listed(p)')
               /\ wdOf'[o] # 0
<1> DEFINE n == wdOf'[o]
<1>1. /\ wdOf' \in [Objects -> Nat] /\ lastWd' \in Nat /\ n \in Nat /\ n # 0
      /\ \A p \in Objects : p # o => wdOf'[p] = wdOf[p]
  <2> DEFINE given == IF wdOf[o] = 0 THEN lastWd + 1 ELSE wdOf[o]
  <2>1. /\ wdOf' = [wdOf EXCEPT ![o] = given]
        /\ lastWd' = IF wdOf[o] = 0 THEN lastWd + 1 ELSE lastWd
    BY DEF Adds
  <2>2. wdOf \in [Objects -> Nat] /\ lastWd \in Nat
    BY DEF MonitorTypes
  <2>3. wdOf[o] \in Nat
    BY <2>2
  <2>4. lastWd' \in Nat /\ given \in Nat /\ given # 0
    BY <2>1, <2>2, <2>3
  <2> HIDE DEF given
  <2>5. QED
    BY <2>1, <2>2, <2>4
<1>2. CASE Free = {}
  <2>1. monPc' = "undefined" /\ UNCHANGED table
    BY <1>2 DEF Adds
  <2>2. Free' = {}
    BY <1>2, <2>1 DEF Free
  <2>3. QED
    BY <1>1, <2>1, <2>2 DEF MonitorTypes
<1>3. CASE Free # {}
  <2>1. Free \subseteq Nat /\ Free \subseteq 1..Slots
    <3>1. \A i \in 1..Slots : i \in Nat
      BY MonitorAssumption
    <3>2. QED
      BY <3>1 DEF Free
  <2>2. PICK f \in 1..Slots : f \in Free /\ table' = [table EXCEPT ![f] = [wd |-> n, name |-> o]]
    BY <1>3, <2>1, Min1IsOne DEF Adds
  <2>3. table[f].name = "" /\ table[f].wd = 0 /\ o # "" /\ UNCHANGED monPc
    BY <1>3, <2>2, TheObjects DEF Free, MonitorTypes, Adds
  <2> HIDE DEF n
  <2>4. table'[f] = [wd |-> n, name |-> o] /\ \A i \in 1..Slots : i # f => table'[i] = table[i]
    BY <2>2 DEF MonitorTypes
  <2>5. /\ table' \in [1..Slots -> [wd : Nat, name : Objects \cup {""}]]
        /\ \A i \in 1..Slots : table'[i].name = "" => table'[i].wd = 0
    BY <1>1, <2>2, <2>3, <2>4 DEF MonitorTypes
  <2>6. Listed(o)' /\ Known(wdOf[o])'
    BY <2>4 DEF Listed, Known, n
  <2>7. \A wd \in Nat \ {0} : Known(wd) => Known(wd)'
    BY <2>3, <2>4 DEF Known
  <2>8. ASSUME NEW p \in Objects, p # o, Listed(p) PROVE Listed(p)'
    <3>1. PICK i \in 1..Slots : table[i] = [wd |-> wdOf[p], name |-> p]
      BY <2>8 DEF Listed
    <3>2. i # f
      <4>1. table[i].name = p
        BY <3>1
      <4>2. p # ""
        BY <2>8, TheObjects
      <4>3. QED
        BY <2>3, <4>1, <4>2
    <3>3. QED
      BY <1>1, <2>4, <2>8, <3>1, <3>2 DEF Listed
  <2>9. QED
    BY <1>1, <2>3, <2>5, <2>6, <2>7, <2>8 DEF n
<1>4. QED
  BY <1>2, <1>3

\* inotify_init() and nftw(): the root is visited first.
LEMMA StartKeeps ==
  ASSUME MonitorInv, MonitorStarts
  PROVE  MonitorInv'
<1>1. /\ monPc = "off" /\ monPc' = "walk" /\ toWalk' = {<<"visit", "R">>}
      /\ UNCHANGED <<calm, wdOf, lastWd, queue, table, purged>>
  BY DEF MonitorStarts
<1>2. tree' \subseteq Objects /\ "R" \in tree'
  BY TheObjects DEF MonitorStarts
<1>3. ~purged /\ queue = <<>> /\ MonitorTypes /\ \A o \in Objects : wdOf[o] = 0
  BY <1>1 DEF MonitorInv
<1>4. MonitorTypes'
  BY <1>1, <1>2, <1>3 DEF MonitorTypes
<1>5. \A e : ~Waiting(queue', e)
  BY <1>1, <1>3 DEF Waiting
<1>6. WatchesKnown' /\ NamesExist' /\ FilesReported'
  <2>1. \A o \in Moveable : DirOf[o] \in Objects
    BY TheObjects
  <2>2. QED
    BY <1>1, <1>2, <1>3, <1>5, <2>1 DEF WatchesKnown, NamesExist, FilesReported
<1>7. QED
  BY <1>1, <1>3, <1>4, <1>6 DEF MonitorInv

\* A change of the tree adds events of watches the program knows.
LEMMA ChangeKeeps ==
  ASSUME MonitorInv, ~purged, NEW events \in Seq(Events), Change(events),
         tree' \subseteq Objects, wdOf' \in [Objects -> Nat], calm' \in BOOLEAN, calm' => calm,
         \A o \in Objects : wdOf'[o] # 0 => Known(wdOf'[o]),
         \A e \in Events : Waiting(events, e) => Known(e.wd),
         calm' => NamesExist' /\ FilesReported'
  PROVE  MonitorInv'
<1>1. Working /\ UNCHANGED <<lastWd, monPc, toWalk, table, purged>> /\ queue' = queue \o events
  BY DEF Change, Working
<1>2. MonitorTypes /\ WatchesKnown
  BY <1>1 DEF MonitorInv
<1>3. queue \in Seq(Events) /\ queue' \in Seq(Events)
      /\ \A e : Waiting(queue', e) <=> Waiting(queue, e) \/ Waiting(events, e)
  BY <1>1, <1>2, WaitingJoins DEF MonitorTypes
<1>4. MonitorTypes'
  BY <1>1, <1>2, <1>3 DEF MonitorTypes
<1>5. WatchesKnown'
  BY <1>1, <1>2, <1>3 DEF WatchesKnown, Known
<1>6. QED
  BY <1>1, <1>4, <1>5 DEF MonitorInv, Working

\* A new file: its directory's watch, if any, reports it.
LEMMA CreateKeeps ==
  ASSUME MonitorInv, ~purged, NEW o \in Moveable \cup {"S"}, Create(o)
  PROVE  MonitorInv'
<1> DEFINE d == DirOf[o]
           mask == IF o = "S" THEN "other" ELSE "create"
           v == Event(d, mask, o)
<1>1. /\ Change(v) /\ tree' = tree \cup {o} /\ UNCHANGED <<wdOf, calm>>
      /\ d \in tree
  BY DEF Create
<1>2. /\ Working /\ UNCHANGED <<lastWd, monPc, toWalk, table, purged>> /\ queue' = queue \o v
  BY <1>1 DEF Change, Working
<1>3. MonitorTypes /\ WatchesKnown
  BY <1>2 DEF MonitorInv
<1>4. o \in Objects /\ d \in Objects /\ mask \in Masks /\ o \in Labels
  BY TheObjects DEF Masks, Labels
<1>5. /\ v \in Seq(Events)
      /\ \A e : Waiting(v, e) <=> wdOf[d] # 0 /\ e = [wd |-> wdOf[d], mask |-> mask, name |-> o]
  BY <1>3, <1>4, EventWaits DEF MonitorTypes
<1> HIDE DEF v
<1>6. \A e : Waiting(queue', e) <=> Waiting(queue, e) \/ Waiting(v, e)
  BY <1>2, <1>3, <1>5, WaitingJoins DEF MonitorTypes
<1>7. \A e \in Events : Waiting(v, e) => Known(e.wd)
  BY <1>3, <1>4, <1>5 DEF WatchesKnown
<1>8. ASSUME calm
      PROVE  NamesExist' /\ FilesReported'
  <2>1. NamesExist /\ FilesReported
    BY <1>2, <1>8 DEF MonitorInv, Working
  <2>2. NamesExist'
    BY <1>1, <1>2, <1>5, <1>6, <2>1 DEF NamesExist
  <2>3. ASSUME NEW p \in tree' \cap Moveable, wdOf[DirOf[p]] # 0
        PROVE  Reported(p)'
    <3>1. CASE p \in tree
      <4>1. Reported(p)
        BY <2>1, <2>3, <3>1 DEF FilesReported
      <4>2. QED
        BY <1>1, <1>2, <1>6, <4>1 DEF Reported, Listed
    <3>2. CASE p \notin tree
      <4>1. p = o /\ o # "S"
        BY <1>1, <2>3, <3>2, TheObjects
      <4>2. Waiting(queue', [wd |-> wdOf[d], mask |-> "create", name |-> o])
        BY <1>5, <1>6, <2>3, <4>1
      <4>3. [wd |-> wdOf[d], mask |-> "create", name |-> o] \in Events
        BY <1>3, <1>4, <2>3, <4>1 DEF Events, MonitorTypes
      <4>4. QED
        BY <4>1, <4>2, <4>3 DEF Reported
    <3>3. QED
      BY <3>1, <3>2
  <2>4. QED
    BY <1>1, <2>2, <2>3 DEF FilesReported
<1>9. tree' \subseteq Objects
  BY <1>1, <1>3, <1>4 DEF MonitorTypes
<1>10. QED
  BY <1>1, <1>3, <1>5, <1>7, <1>8, <1>9, ChangeKeeps DEF MonitorInv, MonitorTypes, WatchesKnown

\* A file goes, or gets another name: the tree is no longer calm.
LEMMA ShrinkKeeps ==
  ASSUME MonitorInv, ~purged, NEW o \in Moveable,
         Unlink(o) \/ \E to \in Moveable : Move(o, to)
  PROVE  MonitorInv'
<1>1. Working
  BY DEF Unlink, Move, Change, Working
<1>2. MonitorTypes /\ WatchesKnown
  BY <1>1 DEF MonitorInv
<1>3. o \in Objects /\ DirOf[o] \in Objects /\ Moveable \subseteq Objects
      /\ \A to \in Moveable : DirOf[to] \in Objects
  BY TheObjects
<1>0. "delete" \in Masks /\ "other" \in Masks /\ "" \in Labels /\ Objects \subseteq Labels
  BY DEF Masks, Labels
<1>4. \A p \in Objects, mask \in Masks, n \in Labels :
        /\ Event(p, mask, n) \in Seq(Events)
        /\ \A e \in Events : Waiting(Event(p, mask, n), e) => Known(e.wd)
  BY <1>2, KnownEvents
<1>5. ASSUME NEW q \in Seq(Events), NEW r \in Seq(Events),
             \A e \in Events : Waiting(q, e) => Known(e.wd),
             \A e \in Events : Waiting(r, e) => Known(e.wd)
      PROVE  q \o r \in Seq(Events) /\ \A e \in Events : Waiting(q \o r, e) => Known(e.wd)
  BY <1>5, WaitingJoins
<1>6. CASE Unlink(o)
  <2> DEFINE q == Event(DirOf[o], "delete", o)
             r == Event(o, "other", "")
  <2>1. /\ q \in Seq(Events) /\ \A e \in Events : Waiting(q, e) => Known(e.wd)
        /\ r \in Seq(Events) /\ \A e \in Events : Waiting(r, e) => Known(e.wd)
    BY <1>0, <1>3, <1>4
  <2>2. /\ Change(q \o r) /\ tree' = tree \ {o} /\ calm' = FALSE
        /\ wdOf' = [wdOf EXCEPT ![o] = 0]
    BY <1>6 DEF Unlink
  <2> HIDE DEF q, r
  <2>3. q \o r \in Seq(Events) /\ \A e \in Events : Waiting(q \o r, e) => Known(e.wd)
    BY <1>5, <2>1
  <2>4. /\ tree' \subseteq Objects /\ wdOf' \in [Objects -> Nat]
        /\ \A p \in Objects : wdOf'[p] # 0 => Known(wdOf'[p])
    BY <1>2, <1>3, <2>2 DEF MonitorTypes, WatchesKnown
  <2>5. QED
    BY <2>2, <2>3, <2>4, ChangeKeeps
<1>7. ASSUME NEW to \in Moveable, Move(o, to)
      PROVE  MonitorInv'
  <2> DEFINE q == Event(DirOf[o], "other", o)
             r == Event(DirOf[to], "other", to)
             s == Event(o, "other", "")
  <2>1. /\ q \in Seq(Events) /\ \A e \in Events : Waiting(q, e) => Known(e.wd)
        /\ r \in Seq(Events) /\ \A e \in Events : Waiting(r, e) => Known(e.wd)
        /\ s \in Seq(Events) /\ \A e \in Events : Waiting(s, e) => Known(e.wd)
    BY <1>0, <1>3, <1>4
  <2>2. /\ Change(q \o r \o s) /\ tree' = (tree \ {o}) \cup {to} /\ calm' = FALSE
        /\ wdOf' = [wdOf EXCEPT ![o] = 0, ![to] = wdOf[o]]
    BY <1>7 DEF Move
  <2> HIDE DEF q, r, s
  <2>3. q \o r \in Seq(Events) /\ \A e \in Events : Waiting(q \o r, e) => Known(e.wd)
    BY <1>5, <2>1
  <2>4. q \o r \o s \in Seq(Events) /\ \A e \in Events : Waiting(q \o r \o s, e) => Known(e.wd)
    BY <1>5, <2>1, <2>3
  <2>5. /\ tree' \subseteq Objects /\ wdOf' \in [Objects -> Nat]
        /\ \A p \in Objects : wdOf'[p] # 0 => Known(wdOf'[p])
    BY <1>2, <1>3, <2>2 DEF MonitorTypes, WatchesKnown
  <2>6. QED
    BY <2>2, <2>4, <2>5, ChangeKeeps
<1>8. QED
  BY <1>6, <1>7

\* nftw(): a directory's entries are read after its watch is there.
LEMMA WalkKeeps ==
  ASSUME MonitorInv, ~purged, NEW o \in Objects, WalkVisits(o) \/ WalkLists(o)
  PROVE  MonitorInv'
<1>1. monPc = "walk" /\ Working /\ UNCHANGED <<tree, calm, queue, purged>>
  BY DEF WalkVisits, WalkLists, treeVars, Working
<1>2. MonitorTypes /\ WatchesKnown
  BY <1>1 DEF MonitorInv
<1>3. calm => NamesExist /\ FilesReported
  BY <1>1 DEF MonitorInv
<1>4. CASE WalkVisits(o) /\ o \notin tree
  <2>1. monPc' = "exit" /\ UNCHANGED <<wdOf, lastWd, table>> /\ <<"visit", o>> \in toWalk
    BY <1>4 DEF WalkVisits, Vanished
  <2>2. ~calm
    BY <1>3, <1>4, <2>1 DEF NamesExist
  <2>3. MonitorTypes'
    BY <1>1, <1>2, <2>1 DEF MonitorTypes
  <2>4. QED
    BY <1>1, <2>1, <2>2, <2>3 DEF MonitorInv, Working
<1>5. CASE WalkVisits(o) /\ o \in tree
  <2>1. /\ Adds(o)
        /\ toWalk' = (toWalk \ {<<"visit", o>>}) \cup (IF o \in {"R", "S"} THEN {<<"list", o>>} ELSE {})
    BY <1>5 DEF WalkVisits
  <2>2. MonitorTypes'
    BY <1>1, <1>2, <2>1, AddsEntry DEF MonitorTypes
  <2>3. calm => NamesExist'
    BY <1>1, <1>3, <2>1 DEF NamesExist
  <2>4. CASE monPc' = "undefined" /\ Free' = {}
    BY <1>1, <2>2, <2>3, <2>4 DEF MonitorInv, Working
  <2>5. CASE UNCHANGED monPc /\ Listed(o)'
    <3>1. /\ Known(wdOf[o])' /\ \A wd \in Nat \ {0} : Known(wd) => Known(wd)'
          /\ \A p \in Objects : p # o => wdOf'[p] = wdOf[p] /\ (Listed(p) => Listed(p)')
      BY <1>1, <1>2, <2>1, <2>5, AddsEntry
    <3>2. WatchesKnown'
      <4>1. \A p \in Objects : wdOf'[p] # 0 => Known(wdOf[p])'
        BY <1>2, <3>1 DEF WatchesKnown, MonitorTypes
      <4>2. \A e \in Events : Waiting(queue, e) => Known(e.wd)'
        BY <1>2, <3>1 DEF WatchesKnown, Events
      <4>3. QED
        BY <1>1, <4>1, <4>2 DEF WatchesKnown
    <3>3. ASSUME calm, NEW p \in tree \cap Moveable, wdOf'[DirOf[p]] # 0
          PROVE  Reported(p)'
      <4>1. CASE p = o
        BY <2>5, <4>1 DEF Reported
      <4>2. CASE p # o /\ DirOf[p] = o
        <5>1. o \in {"R", "S"}
          BY <4>2, TheObjects
        <5>2. QED
          BY <2>1, <4>2, <5>1 DEF Reported
      <4>3. CASE p # o /\ DirOf[p] # o
        <5>1. p \in Objects /\ DirOf[p] \in Objects
          BY TheObjects
        <5>2. Reported(p)
          BY <1>3, <3>1, <3>3, <4>3, <5>1 DEF FilesReported
        <5>3. <<"list", DirOf[p]>> \in toWalk => <<"list", DirOf[p]>> \in toWalk'
          BY <2>1
        <5>4. <<"visit", p>> \in toWalk => <<"visit", p>> \in toWalk'
          BY <2>1, <4>3
        <5>5. QED
          BY <1>1, <3>1, <4>3, <5>1, <5>2, <5>3, <5>4 DEF Reported
      <4>4. QED
        BY <4>1, <4>2, <4>3
    <3>4. calm => FilesReported'
      BY <1>1, <3>3 DEF FilesReported
    <3>5. QED
      BY <1>1, <2>2, <2>3, <2>5, <3>2, <3>4 DEF MonitorInv, Working
  <2>6. QED
    BY <1>2, <2>1, <2>4, <2>5, AddsEntry
<1>6. CASE WalkLists(o)
  <2> DEFINE found == {e \in tree \ {"R"} : DirOf[e] = o}
  <2>1. /\ toWalk' = (toWalk \ {<<"list", o>>}) \cup {<<"visit", e>> : e \in found}
        /\ UNCHANGED <<wdOf, lastWd, monPc, table>>
    BY <1>6 DEF WalkLists
  <2>2. MonitorTypes' /\ WatchesKnown'
    BY <1>1, <1>2, <2>1 DEF MonitorTypes, WatchesKnown, Known
  <2>3. calm => NamesExist'
    <3>1. \A p : <<"visit", p>> \in toWalk' => <<"visit", p>> \in toWalk \/ p \in tree
      BY <2>1
    <3>2. QED
      BY <1>1, <1>3, <3>1 DEF NamesExist
  <2>4. ASSUME calm, NEW p \in tree \cap Moveable, wdOf'[DirOf[p]] # 0
        PROVE  Reported(p)'
    <3>1. Reported(p)
      BY <1>3, <2>1, <2>4 DEF FilesReported
    <3>2. <<"visit", p>> \in toWalk => <<"visit", p>> \in toWalk'
      BY <2>1
    <3>3. <<"list", DirOf[p]>> \in toWalk => <<"list", DirOf[p]>> \in toWalk' \/ <<"visit", p>> \in toWalk'
      <4>1. CASE DirOf[p] = o
        <5>1. p \in found
          BY <2>4, <4>1, TheObjects
        <5>2. QED
          BY <2>1, <5>1
      <4>2. CASE DirOf[p] # o
        BY <2>1, <4>2
      <4>3. QED
        BY <4>1, <4>2
    <3>4. QED
      BY <1>1, <2>1, <3>1, <3>2, <3>3 DEF Reported, Listed
  <2>5. calm => FilesReported'
    BY <1>1, <2>4 DEF FilesReported
  <2>6. QED
    BY <1>1, <2>1, <2>2, <2>3, <2>5 DEF MonitorInv, Working
<1>7. QED
  BY <1>4, <1>5, <1>6

\* An event is handled: its entry is there, and a new file is listed.
LEMMA HandleKeeps ==
  ASSUME MonitorInv, ~purged, MonitorHandles
  PROVE  MonitorInv'
<1>1. monPc = "read" /\ Working /\ queue # <<>> /\ UNCHANGED <<tree, calm, toWalk>> /\ toWalk = {}
  BY DEF MonitorHandles, treeVars, Working, MonitorInv
<1>2. MonitorTypes /\ WatchesKnown
  BY <1>1 DEF MonitorInv
<1>3. calm => NamesExist /\ FilesReported
  BY <1>1 DEF MonitorInv
<1>4. PICK e \in Events : Head(queue) = e /\ Waiting(queue, e)
  BY <1>1, <1>2, WaitingLeaves DEF MonitorTypes
<1>5. /\ Tail(queue) \in Seq(Events)
      /\ \A x : Waiting(Tail(queue), x) => Waiting(queue, x)
      /\ \A x : Waiting(queue, x) => Waiting(Tail(queue), x) \/ x = e
  BY <1>1, <1>2, <1>4, WaitingLeaves DEF MonitorTypes
<1>6. Entries(e.wd) # {} /\ table[Min1(Entries(e.wd))].name # "freed"
  <2>1. Entries(e.wd) # {}
    BY <1>2, <1>4 DEF WatchesKnown, Known, Entries
  <2>2. Entries(e.wd) \subseteq Nat /\ Entries(e.wd) \subseteq 1..Slots
    BY MonitorAssumption DEF Entries
  <2>3. Min1(Entries(e.wd)) \in 1..Slots
    BY <2>1, <2>2, Min1IsOne
  <2>4. \A i \in 1..Slots : table[i].name \in Objects \cup {""}
    BY <1>2 DEF MonitorTypes
  <2>5. "freed" \notin Objects \cup {""}
    BY TheObjects
  <2>6. QED
    BY <2>1, <2>3, <2>4, <2>5
<1>7. CASE e.mask = "delete"
  <2>1. purged' = TRUE /\ UNCHANGED monPc
    BY <1>4, <1>6, <1>7 DEF MonitorHandles, Removes
  <2>2. ~calm
    BY <1>3, <1>4, <1>7 DEF NamesExist
  <2>3. QED
    BY <1>1, <2>1, <2>2 DEF MonitorInv, Working
<1>8. CASE e.mask # "delete"
  <2>1. queue' = Tail(queue) /\ UNCHANGED purged
    BY <1>4, <1>6, <1>8 DEF MonitorHandles
  <2>2. \/ e.mask = "create" /\ e.name \in tree /\ Adds(e.name)
        \/ e.mask = "create" /\ e.name \notin tree /\ Vanished
        \/ e.mask = "other" /\ UNCHANGED <<wdOf, lastWd, table, monPc>>
    <3>1. e.mask \in {"create", "other"}
      BY <1>8 DEF Events, Masks
    <3>2. QED
      BY <1>4, <1>6, <1>8, <3>1 DEF MonitorHandles
  <2>3. calm => NamesExist'
    BY <1>1, <1>3, <1>5, <2>1 DEF NamesExist
  <2>4. CASE e.mask = "create" /\ e.name \notin tree /\ Vanished
    <3>1. ~calm
      BY <1>3, <1>4, <2>4 DEF NamesExist
    <3>2. monPc' = "exit" /\ UNCHANGED <<wdOf, lastWd, table>>
      BY <2>4 DEF Vanished
    <3>3. MonitorTypes'
      BY <1>1, <1>2, <1>5, <2>1, <3>2 DEF MonitorTypes
    <3>4. QED
      BY <1>1, <2>1, <3>1, <3>2, <3>3 DEF MonitorInv, Working
  <2>5. CASE e.mask = "other" /\ UNCHANGED <<wdOf, lastWd, table, monPc>>
    <3>1. MonitorTypes' /\ WatchesKnown'
      BY <1>1, <1>2, <1>5, <2>1, <2>5 DEF MonitorTypes, WatchesKnown, Known
    <3>2. calm => FilesReported'
      BY <1>1, <1>3, <1>5, <2>1, <2>5 DEF FilesReported, Reported, Listed
    <3>3. QED
      BY <1>1, <2>1, <2>3, <2>5, <3>1, <3>2 DEF MonitorInv, Working
  <2>6. ASSUME NEW o \in Objects, e.mask = "create", e.name = o, o \in tree, Adds(o)
        PROVE  MonitorInv'
    <3>1. MonitorTypes'
      BY <1>1, <1>2, <1>5, <2>1, <2>6, AddsEntry DEF MonitorTypes
    <3>2. CASE monPc' = "undefined" /\ Free' = {}
      BY <1>1, <2>1, <2>3, <3>1, <3>2 DEF MonitorInv, Working
    <3>3. CASE UNCHANGED monPc /\ Listed(o)'
      <4>1. /\ Known(wdOf[o])' /\ \A wd \in Nat \ {0} : Known(wd) => Known(wd)'
            /\ \A p \in Objects : p # o => wdOf'[p] = wdOf[p] /\ (Listed(p) => Listed(p)')
        BY <1>1, <1>2, <2>6, <3>3, AddsEntry
      <4>2. WatchesKnown'
        <5>1. \A p \in Objects : wdOf'[p] # 0 => Known(wdOf[p])'
          BY <1>2, <4>1 DEF WatchesKnown, MonitorTypes
        <5>2. \A x \in Events : Waiting(queue', x) => Known(x.wd)'
          BY <1>2, <1>5, <2>1, <4>1 DEF WatchesKnown, Events
        <5>3. QED
          BY <5>1, <5>2 DEF WatchesKnown
      <4>3. ASSUME calm, NEW p \in tree \cap Moveable, wdOf'[DirOf[p]] # 0
            PROVE  Reported(p)'
        <5>1. CASE p = o
          BY <3>3, <5>1 DEF Reported
        <5>2. CASE p # o
          <6>1. o \in Moveable
            BY <1>3, <1>4, <2>6, <4>3 DEF NamesExist
          <6>2. p \in Objects /\ DirOf[p] \in Objects /\ DirOf[p] # o
            BY <6>1, TheObjects
          <6>3. Reported(p)
            BY <1>3, <4>1, <4>3, <6>2 DEF FilesReported
          <6>4. QED
            BY <1>1, <1>5, <2>1, <2>6, <4>1, <5>2, <6>2, <6>3 DEF Reported
        <5>3. QED
          BY <5>1, <5>2
      <4>4. calm => FilesReported'
        BY <1>1, <4>3 DEF FilesReported
      <4>5. QED
        BY <1>1, <2>1, <2>3, <3>1, <3>3, <4>2, <4>4 DEF MonitorInv, Working
    <3>4. QED
      BY <1>2, <2>6, <3>2, <3>3, AddsEntry
  <2>7. e.name \in tree => e.name \in Objects
    BY <1>2 DEF MonitorTypes
  <2>8. QED
    BY <2>2, <2>4, <2>5, <2>6, <2>7
<1>9. QED
  BY <1>7, <1>8

\* Nothing is watched and nothing is known before the start.
LEMMA InitMonitor == MonitorInit => MonitorInv
<1> SUFFICES ASSUME MonitorInit
             PROVE  MonitorInv
  OBVIOUS
<1>1. MonitorTypes
  <2>1. tree \subseteq Objects /\ wdOf \in [Objects -> Nat] /\ lastWd \in Nat
    BY TheObjects DEF MonitorInit
  <2>2. queue \in Seq(Events)
    BY NothingWaits DEF MonitorInit
  <2>3. /\ table \in [1..Slots -> [wd : Nat, name : Objects \cup {""}]]
        /\ \A i \in 1..Slots : table[i].wd = 0
    BY DEF MonitorInit, NoEntry
  <2>4. QED
    BY <2>1, <2>2, <2>3 DEF MonitorTypes
<1>2. QED
  BY <1>1 DEF MonitorInit, MonitorInv, Working

\* Every step keeps what the monitor knows; after its removal code has run
\* nothing is claimed.
LEMMA NextMonitor == MonitorInv /\ [MonitorNext]_monitorVars => MonitorInv'
<1> SUFFICES ASSUME MonitorInv, [MonitorNext]_monitorVars
             PROVE  MonitorInv'
  OBVIOUS
<1>1. CASE purged
  <2>1. purged' /\ ~calm' /\ monPc # "off"
    BY <1>1, MonitorFrame DEF MonitorInv
  <2>2. monPc' # "off"
    BY <1>1, <2>1 DEF MonitorNext, MonitorStarts, MonitorStep, MonitorHandles, WalkEnds, WalkVisits,
         WalkLists, TreeChanges, Create, Unlink, Move, Change, Removes, Adds, Vanished, monitorVars
  <2>3. QED
    BY <2>1, <2>2, MonitorFrame DEF MonitorInv
<1>2. CASE ~purged /\ MonitorNext
  <2>1. CASE WalkEnds
    <3>1. /\ monPc = "walk" /\ monPc' = "read" /\ toWalk = {}
          /\ UNCHANGED <<tree, calm, wdOf, lastWd, queue, toWalk, table, purged>>
      BY <2>1 DEF WalkEnds, treeVars
    <3>2. MonitorTypes /\ WatchesKnown /\ (calm => NamesExist /\ FilesReported)
      BY <1>2, <3>1 DEF MonitorInv, Working
    <3>3. /\ MonitorTypes' /\ WatchesKnown' /\ (calm => NamesExist' /\ FilesReported')
      BY <3>1, <3>2 DEF MonitorTypes, WatchesKnown, NamesExist, FilesReported, Known, Reported, Listed
    <3>4. QED
      BY <3>1, <3>3 DEF MonitorInv, Working
  <2>2. QED
    BY <1>2, <2>1, StartKeeps, CreateKeeps, ShrinkKeeps, WalkKeeps, HandleKeeps
    DEF MonitorNext, MonitorStep, TreeChanges
<1>3. CASE UNCHANGED monitorVars
  <2>1. UNCHANGED <<tree, calm, wdOf, lastWd, queue, monPc, toWalk, table, purged>>
    BY <1>3 DEF monitorVars
  <2>2. QED
    BY <2>1 DEF MonitorInv, MonitorTypes, WatchesKnown, NamesExist, FilesReported, Known, Reported,
         Listed, Free, Working
<1>4. QED
  BY <1>1, <1>2, <1>3


-----------------------------------------------------------------------------
(* common/inet_sockets.c: what a helper that has returned has done.         *)

ConnectedOrClosed ==
  result = "sock" =>
    \/ sock = [inetConnect |-> "connected", inetListen |-> "listening",
               inetBind |-> "bound"][helper]
    \/ sock = "closed" /\ helper # "inetConnect" /\ addrs = 1

NothingLeftOpen ==
  result = "-1" =>
    \/ sock \in {"none", "closed"}
    \/ sock = "bound" /\ helper = "inetListen"

HelperInv ==
  /\ helperPc \in {"off", "socket", "option", "try", "listen", "returned"}
  /\ helperPc = "off" => sock = "none"
  /\ helperPc # "off" => helper \in {"inetConnect", "inetListen", "inetBind"}
  /\ helperPc # "returned" => result = "nothing"
  /\ helperPc = "option" => helper = "inetListen" /\ sock = "open"
  /\ helperPc = "try" => sock = "open"
  /\ helperPc = "listen" => helper = "inetListen" /\ sock = "bound"
  /\ ConnectedOrClosed /\ NothingLeftOpen

\* No helper has been called.
LEMMA InitHelper == HelperInit => HelperInv
BY DEF HelperInit, HelperInv, ConnectedOrClosed, NothingLeftOpen

\* A refused socket is closed before the next address or the end of the loop.
LEMMA NextHelper == HelperInv /\ [HelperNext]_helperVars => HelperInv'
<1> SUFFICES ASSUME HelperInv, [HelperNext]_helperVars
             PROVE  HelperInv'
  OBVIOUS
<1> USE DEF HelperInv, ConnectedOrClosed, NothingLeftOpen
<1>1. CASE HelperCalled
  BY <1>1 DEF HelperCalled, HelperReturns
<1>2. CASE HelperSocket
  BY <1>2 DEF HelperSocket, TryNext, LoopFails, HelperReturns
<1>3. CASE HelperReuses
  BY <1>3 DEF HelperReuses, HelperReturns
<1>4. CASE HelperAccepted
  BY <1>4 DEF HelperAccepted, HelperReturns
<1>5. CASE HelperRefused
  BY <1>5 DEF HelperRefused, TryNext, LoopFails, HelperReturns
<1>6. CASE HelperListens
  BY <1>6 DEF HelperListens, HelperReturns
<1>7. CASE UNCHANGED helperVars
  BY <1>7 DEF helperVars
<1>8. QED
  BY <1>1, <1>2, <1>3, <1>4, <1>5, <1>6, <1>7 DEF HelperNext, HelperStep

-----------------------------------------------------------------------------
(* practice/20.1, routines/22.3: where the signals are that were sent.      *)

SignalFrame == [sig : Signals, reg : Nat \cup {Unread}]

\* A handler of s is on the stack q; no two on it are of one signal.
Sits(q, s) == \E i \in 1..Len(q) : q[i].sig = s
Apart(q) == \A i, j \in 1..Len(q) : q[i].sig = q[j].sig => i = j

\* The signals s that were caught, are pending or are being handled.
Seen(s) == caught[s] + pend[s] + (IF Sits(frames, s) THEN 1 ELSE 0)
AllCaught == caught["USR"] + caught["RT"]

SignalTypes ==
  /\ receiver \in {"none", "20.1", "22.3"}
  /\ recvPc \in {"off", "blocked", "test", "pausing", "pause", "ended"}
  /\ pend \in [Signals -> Nat] /\ sent \in [Signals -> Nat] /\ caught \in [Signals -> Nat]
  /\ frames \in Seq(SignalFrame) /\ sigCount \in Nat /\ stop \in BOOLEAN

\* No increment writes more than was caught before it, however old its value is.
TotalIsLow ==
  receiver # "20.1" =>
    /\ sigCount <= AllCaught /\ (AllCaught > 0 => sigCount > 0)
    /\ \A i \in 1..Len(frames) : frames[i].reg <= AllCaught

SignalInv ==
  /\ SignalTypes /\ Apart(frames) /\ TotalIsLow
  /\ Seen("RT") = sent["RT"]
  /\ Seen("USR") <= sent["USR"] /\ (sent["USR"] > 0 => Seen("USR") > 0)
  /\ recvPc = "off" => receiver = "none"
  /\ recvPc = "ended" => Len(frames) = 0 /\ \A s \in Signals : pend[s] = 0

-----------------------------------------------------------------------------
(* routines/30.4: who has been counted.                                     *)

\* The threads that have been through the mutex, and the marks they have left.
Finished == {t \in Threads : threadPc[t] \in {"signal", "ended"}}
Marks == {t \in Threads : threadStatus[t] = "terminated"}

JoinTypes ==
  /\ numThreads \in 0..MaxThreads /\ loopVar \in 0..numThreads
  /\ joinPc \in {"off", "create", "next", "lock", "test", "wait", "sleep", "woken", "ended"}
  /\ threadPc \in [Threads -> {"none", "start", "finish", "signal", "ended"}]
  /\ threadStatus \in [Threads -> {"alive", "terminated"}]
  /\ numNoJoined \in Nat

FinishedAreCounted ==
  /\ numNoJoined = Cardinality(Finished)
  /\ Cardinality(Marks) <= numNoJoined
  /\ joinPc = "ended" => numThreads = 0

JoinInv ==
  /\ JoinTypes /\ FinishedAreCounted /\ (joinPc = "off" => loopVar = 0)
  /\ joinPc = "next" => loopVar < numThreads
  /\ \A t \in Threads : t > loopVar \/ (t = loopVar /\ joinPc # "next") => threadPc[t] = "none"

-----------------------------------------------------------------------------
(* Stacks of handlers.                                                      *)

\* A handler of a signal that has none is pushed.
LEMMA PushesFrame ==
  ASSUME NEW q \in Seq(SignalFrame), Apart(q), NEW s \in Signals, ~Sits(q, s)
  PROVE  LET r == Append(q, [sig |-> s, reg |-> Unread]) IN
         /\ r \in Seq(SignalFrame) /\ Apart(r)
         /\ \A t \in Signals : Sits(r, t) <=> (Sits(q, t) \/ t = s)
         /\ \A i \in 1..Len(r) : (i \in 1..Len(q) /\ r[i] = q[i]) \/ r[i].reg = Unread
<1> DEFINE f == [sig |-> s, reg |-> Unread]
           r == Append(q, f)
<1>1. f \in SignalFrame /\ f.sig = s /\ f.reg = Unread
  BY DEF SignalFrame
<1> HIDE DEF f
<1>2. /\ Len(q) \in Nat /\ r \in Seq(SignalFrame) /\ Len(r) = Len(q) + 1 /\ r[Len(q) + 1] = f
      /\ \A i \in 1..Len(q) : r[i] = q[i]
  BY <1>1
<1> HIDE DEF r
<1>3. 1..Len(r) = 1..Len(q) \cup {Len(q) + 1}
  BY <1>2
<1>4. \A i \in 1..Len(r) : (i \in 1..Len(q) /\ r[i] = q[i]) \/ (i = Len(q) + 1 /\ r[i] = f)
  BY <1>2, <1>3
<1>5. \A i \in 1..Len(q) : q[i].sig # s
  BY DEF Sits
<1>6. Apart(r)
  BY <1>1, <1>4, <1>5 DEF Apart
<1>7. ASSUME NEW t \in Signals
      PROVE  Sits(r, t) <=> (Sits(q, t) \/ t = s)
  <2>1. Sits(r, t) => Sits(q, t) \/ t = s
    BY <1>1, <1>4 DEF Sits
  <2>2. Sits(q, t) => Sits(r, t)
    BY <1>2, <1>3 DEF Sits
  <2>3. t = s => Sits(r, t)
    BY <1>1, <1>2, <1>3 DEF Sits
  <2>4. QED
    BY <2>1, <2>2, <2>3
<1>8. QED
  BY <1>1, <1>2, <1>4, <1>6, <1>7 DEF r, f

\* The last handler returns.
LEMMA PopsFrame ==
  ASSUME NEW q \in Seq(SignalFrame), Apart(q), q # <<>>
  PROVE  LET r == SubSeq(q, 1, Len(q) - 1) IN
         /\ Len(q) \in 1..Len(q) /\ q[Len(q)] \in SignalFrame
         /\ r \in Seq(SignalFrame) /\ Apart(r)
         /\ \A t \in Signals : Sits(r, t) <=> (Sits(q, t) /\ t # q[Len(q)].sig)
         /\ \A i \in 1..Len(r) : i \in 1..Len(q) /\ r[i] = q[i]
<1> DEFINE r == SubSeq(q, 1, Len(q) - 1)
<1>1. Len(q) \in Nat /\ Len(q) > 0
  OBVIOUS
<1>2. Len(q) \in 1..Len(q) /\ q[Len(q)] \in SignalFrame
  BY <1>1
<1>3. r \in Seq(SignalFrame) /\ Len(r) = Len(q) - 1 /\ \A i \in 1..Len(r) : r[i] = q[i]
  <2>1. 1 \in Int /\ Len(q) - 1 \in Int /\ \A i \in 1..Len(q)-1 : q[i] \in SignalFrame
    BY <1>1
  <2>2. /\ r \in Seq(SignalFrame) /\ (Len(r) = IF 1 <= Len(q) - 1 THEN Len(q) - 1 - 1 + 1 ELSE 0)
        /\ \A i \in 1..Len(q)-1-1+1 : r[i] = q[1+i-1]
    BY <2>1, SubSeqProperties
  <2> HIDE DEF r
  <2> DEFINE n == Len(q)
  <2>3. n \in Nat /\ n > 0 /\ Len(r) = n - 1
    <3>1. Len(r) = IF 1 <= n - 1 THEN n - 1 - 1 + 1 ELSE 0
      BY <2>2
    <3>2. n \in Nat /\ n > 0
      BY <1>1
    <3> HIDE DEF n
    <3>3. QED
      BY <3>1, <3>2
  <2>4. ASSUME NEW i \in 1..Len(r)
        PROVE  r[i] = q[i]
    <3>1. i \in 1..n-1-1+1 /\ 1+i-1 = i
      BY <2>3, <2>4
    <3>2. QED
      BY <2>2, <3>1
  <2>5. QED
    BY <2>2, <2>3, <2>4
<1> HIDE DEF r
<1>4. \A i \in 1..Len(r) : i \in 1..Len(q) /\ i # Len(q) /\ r[i] = q[i]
  BY <1>1, <1>3
<1>5. \A i \in 1..Len(q) : (i \in 1..Len(r) /\ r[i] = q[i]) \/ i = Len(q)
  BY <1>1, <1>3
<1>6. Apart(r)
  BY <1>4 DEF Apart
<1>7. ASSUME NEW t \in Signals
      PROVE  Sits(r, t) <=> (Sits(q, t) /\ t # q[Len(q)].sig)
  <2>1. Sits(r, t) => Sits(q, t)
    BY <1>4 DEF Sits
  <2>2. ASSUME Sits(r, t) PROVE t # q[Len(q)].sig
    <3>1. PICK i \in 1..Len(r) : r[i].sig = t
      BY <2>2 DEF Sits
    <3>2. i \in 1..Len(q) /\ i # Len(q) /\ q[i].sig = t
      BY <1>4, <3>1
    <3>3. QED
      BY <1>2, <3>2 DEF Apart
  <2>3. ASSUME Sits(q, t), t # q[Len(q)].sig PROVE Sits(r, t)
    BY <1>5, <2>3 DEF Sits
  <2>4. QED
    BY <2>1, <2>2, <2>3
<1>8. QED
  BY <1>2, <1>3, <1>4, <1>6, <1>7 DEF r

\* The last handler has read a value.
LEMMA ReadsFrame ==
  ASSUME NEW q \in Seq(SignalFrame), Apart(q), q # <<>>, NEW v \in Nat
  PROVE  LET r == [q EXCEPT ![Len(q)].reg = v] IN
         /\ r \in Seq(SignalFrame) /\ Apart(r)
         /\ \A t \in Signals : Sits(r, t) <=> Sits(q, t)
         /\ \A i \in 1..Len(r) : i \in 1..Len(q) /\ (r[i] = q[i] \/ r[i].reg = v)
<1> DEFINE n == Len(q)
           f == [q[n] EXCEPT !.reg = v]
           r == [q EXCEPT ![n] = f]
<1>1. n \in Nat /\ n > 0 /\ n \in 1..n /\ q[n] \in SignalFrame
  OBVIOUS
<1>2. f \in SignalFrame /\ f.sig = q[n].sig /\ f.reg = v
  BY <1>1 DEF SignalFrame
<1> HIDE DEF f
<1>3. r \in Seq(SignalFrame) /\ Len(r) = n /\ r[n] = f /\ \A i \in 1..n : i # n => r[i] = q[i]
  BY <1>1, <1>2
<1>4. r = [q EXCEPT ![Len(q)].reg = v]
  BY DEF f
<1> HIDE DEF r
<1>5. \A i \in 1..n : r[i].sig = q[i].sig
  BY <1>2, <1>3
<1>6. Apart(r) /\ \A t \in Signals : Sits(r, t) <=> Sits(q, t)
  BY <1>3, <1>5 DEF Apart, Sits
<1>7. \A i \in 1..Len(r) : i \in 1..n /\ (r[i] = q[i] \/ r[i].reg = v)
  BY <1>2, <1>3
<1>8. QED
  BY <1>3, <1>4, <1>6, <1>7

-----------------------------------------------------------------------------
(* The steps of the receivers.                                              *)

\* The signals and their kinds.
LEMMA TheSignals ==
  /\ Signals = {"INT", "USR", "RT"} /\ RealTime = {"RT"} /\ Unread = -1
BY DEF Signals, Number, RealTime, Unread

\* Nothing was sent.
LEMMA InitSignal == SignalInit => SignalInv
<1> SUFFICES ASSUME SignalInit
             PROVE  SignalInv
  OBVIOUS
<1>1. /\ \A s \in Signals : pend[s] = 0 /\ sent[s] = 0 /\ caught[s] = 0
      /\ receiver = "none" /\ recvPc = "off" /\ sigCount = 0 /\ frames = <<>>
  BY DEF SignalInit
<1>2. Len(frames) = 0 /\ frames \in Seq(SignalFrame) /\ 1..0 = {}
  BY <1>1
<1>3. Apart(frames) /\ \A s \in Signals : ~Sits(frames, s)
  BY <1>2 DEF Apart, Sits
<1>4. SignalTypes
  <2>1. stop = FALSE /\ frames \in Seq(SignalFrame)
    BY <1>2 DEF SignalInit
  <2>2. pend \in [Signals -> Nat] /\ sent \in [Signals -> Nat] /\ caught \in [Signals -> Nat]
    BY DEF SignalInit
  <2>3. QED
    BY <1>1, <2>1, <2>2 DEF SignalTypes
<1>5. TotalIsLow
  BY <1>1, <1>2, TheSignals DEF TotalIsLow, AllCaught
<1>6. QED
  BY <1>1, <1>3, <1>4, <1>5, TheSignals DEF SignalInv, Seen

\* The stack stays as it is.
LEMMA StackKept ==
  ASSUME SignalInv, UNCHANGED <<frames, sigCount, caught>>, SignalTypes',
         receiver' = receiver \/ receiver = "none"
  PROVE  Apart(frames)' /\ TotalIsLow'
BY TheSignals DEF SignalInv, SignalTypes, Apart, TotalIsLow, AllCaught

\* Every step keeps the account of the signals.
LEMMA NextSignal == SignalInv /\ [SignalNext]_signalVars => SignalInv'
<1> SUFFICES ASSUME SignalInv, [SignalNext]_signalVars
             PROVE  SignalInv'
  OBVIOUS
<1>1. /\ SignalTypes /\ Apart(frames) /\ frames \in Seq(SignalFrame)
      /\ pend \in [Signals -> Nat] /\ caught \in [Signals -> Nat] /\ sent \in [Signals -> Nat]
  BY DEF SignalInv, SignalTypes
<1>2. CASE ReceiverStarts
  <2>1. SignalTypes' /\ recvPc' \in {"blocked", "test"} /\ recvPc = "off" /\ receiver = "none"
    BY <1>2 DEF ReceiverStarts, SignalInv, SignalTypes
  <2>2. UNCHANGED <<pend, frames, sent, caught, sigCount>>
    BY <1>2 DEF ReceiverStarts
  <2>3. Seen("RT")' = Seen("RT") /\ Seen("USR")' = Seen("USR")
    BY <2>2 DEF Seen, Sits
  <2>4. QED
    BY <2>1, <2>2, <2>3, StackKept DEF SignalInv
<1>3. ASSUME NEW s \in Signals, Pends(s)
      PROVE  SignalInv'
  <2>1. /\ recvPc \notin {"off", "ended"} /\ sent' = [sent EXCEPT ![s] = @ + 1]
        /\ pend' = [pend EXCEPT ![s] = IF s \in RealTime THEN @ + 1 ELSE 1]
        /\ UNCHANGED <<receiver, recvPc, frames, caught, sigCount, stop>>
    BY <1>3 DEF Pends
  <2>2. SignalTypes'
    BY <1>1, <2>1 DEF SignalTypes
  <2>3. \A t \in Signals : Sits(frames, t)' <=> Sits(frames, t)
    BY <2>1 DEF Sits
  <2>4. Seen("RT")' = sent'["RT"]
    BY <1>1, <2>1, <2>3, TheSignals DEF SignalInv, Seen
  <2>5. Seen("USR")' <= sent'["USR"] /\ (sent'["USR"] > 0 => Seen("USR")' > 0)
    <3>1. CASE s = "USR"
      <4>1. pend'["USR"] = 1 /\ sent'["USR"] = sent["USR"] + 1 /\ caught'["USR"] = caught["USR"]
        BY <1>1, <2>1, <3>1, TheSignals
      <4>2. caught["USR"] \in Nat /\ pend["USR"] \in Nat /\ sent["USR"] \in Nat
        BY <1>1, TheSignals
      <4>3. caught["USR"] + (IF Sits(frames, "USR") THEN 1 ELSE 0) <= sent["USR"]
        BY <4>2 DEF SignalInv, Seen
      <4>4. QED
        BY <2>3, <4>1, <4>2, <4>3, TheSignals DEF Seen
    <3>2. CASE s # "USR"
      BY <1>1, <2>1, <2>3, <3>2, TheSignals DEF SignalInv, Seen
    <3>3. QED
      BY <3>1, <3>2
  <2>6. QED
    BY <2>1, <2>2, <2>4, <2>5, StackKept DEF SignalInv
<1>4. CASE SignalDelivered
  <2>1. PICK s \in Deliverable :
          /\ pend' = [pend EXCEPT ![s] = @ - 1]
          /\ frames' = Append(frames, [sig |-> s, reg |-> Unread])
          /\ recvPc' = IF recvPc = "pause" THEN "test" ELSE recvPc
          /\ UNCHANGED <<receiver, sent, caught, sigCount, stop>>
    BY <1>4 DEF SignalDelivered
  <2>2. /\ s \in Signals /\ pend[s] > 0 /\ recvPc \notin {"off", "blocked", "ended"}
        /\ ~Sits(frames, s)
    BY <1>1 DEF Deliverable, Sits
  <2>3. /\ frames' \in Seq(SignalFrame) /\ Apart(frames')
        /\ \A t \in Signals : Sits(frames', t) <=> (Sits(frames, t) \/ t = s)
        /\ \A i \in 1..Len(frames') :
             (i \in 1..Len(frames) /\ frames'[i] = frames[i]) \/ frames'[i].reg = Unread
    BY <1>1, <2>1, <2>2, PushesFrame
  <2>4. SignalTypes'
    BY <1>1, <2>1, <2>2, <2>3 DEF SignalTypes
  <2>5. TotalIsLow'
    BY <1>1, <2>1, <2>3, TheSignals DEF SignalInv, SignalTypes, TotalIsLow, AllCaught
  <2>6. \A t \in Signals : Seen(t)' = Seen(t)
    BY <1>1, <2>1, <2>2, <2>3 DEF Seen
  <2>7. recvPc' \notin {"off", "ended"}
    BY <2>1, <2>2
  <2>8. QED
    BY <2>1, <2>3, <2>4, <2>5, <2>6, <2>7, TheSignals DEF SignalInv
<1>5. CASE HandlerRuns
  <2>1. /\ frames # <<>> /\ UNCHANGED <<receiver, recvPc, pend, sent>> /\ Len(frames) > 0
    BY <1>1, <1>5 DEF HandlerRuns, HandlerStops, HandlerCounts, HandlerReads, HandlerWrites, HandlerTurn
  <2>2. recvPc # "ended" /\ (recvPc = "off" => receiver = "none")
    BY <2>1 DEF SignalInv
  <2>3. CASE HandlerReads
    <3>1. /\ frames' = [frames EXCEPT ![Len(frames)].reg = sigCount]
          /\ UNCHANGED <<caught, sigCount, stop>>
      BY <2>3 DEF HandlerReads
    <3>2. sigCount \in Nat
      BY <1>1 DEF SignalTypes
    <3>3. /\ frames' \in Seq(SignalFrame) /\ Apart(frames')
          /\ \A t \in Signals : Sits(frames', t) <=> Sits(frames, t)
          /\ \A i \in 1..Len(frames') :
               i \in 1..Len(frames) /\ (frames'[i] = frames[i] \/ frames'[i].reg = sigCount)
      <4> DEFINE q == [frames EXCEPT ![Len(frames)].reg = sigCount]
      <4>1. /\ q \in Seq(SignalFrame) /\ Apart(q)
            /\ \A t \in Signals : Sits(q, t) <=> Sits(frames, t)
            /\ \A i \in 1..Len(q) :
                 i \in 1..Len(frames) /\ (q[i] = frames[i] \/ q[i].reg = sigCount)
        BY <1>1, <2>1, <3>2, ReadsFrame, Zenon
      <4>2. frames' = q
        BY <3>1
      <4> HIDE DEF q
      <4>3. QED
        BY <4>1, <4>2
    <3>4. SignalTypes'
      BY <1>1, <2>1, <3>1, <3>3 DEF SignalTypes
    <3>5. TotalIsLow'
      BY <1>1, <2>1, <3>1, <3>3 DEF SignalInv, TotalIsLow, AllCaught
    <3>6. \A t \in Signals : Seen(t)' = Seen(t)
      BY <2>1, <3>1, <3>3 DEF Seen
    <3>7. QED
      BY <2>1, <2>2, <3>3, <3>4, <3>5, <3>6, TheSignals DEF SignalInv
  <2>4. CASE ~HandlerReads
    <3> DEFINE s == Top.sig
    <3>1. /\ frames' \in Seq(SignalFrame) /\ Apart(frames') /\ Top \in SignalFrame
          /\ Len(frames) \in 1..Len(frames)
          /\ \A t \in Signals : Sits(frames', t) <=> (Sits(frames, t) /\ t # s)
          /\ \A i \in 1..Len(frames') : i \in 1..Len(frames) /\ frames'[i] = frames[i]
      <4>1. frames' = SubSeq(frames, 1, Len(frames) - 1)
        BY <1>5, <2>4 DEF HandlerRuns, HandlerStops, HandlerCounts, HandlerWrites, Returns
      <4>2. QED
        BY <1>1, <2>1, <4>1, PopsFrame DEF Top
    <3>2. s \in Signals /\ Sits(frames, s)
      BY <3>1 DEF SignalFrame, Sits, Top
    <3> HIDE DEF s
    <3>3. CASE HandlerStops
      <4>1. s = "INT" /\ stop' = TRUE /\ UNCHANGED <<caught, sigCount>>
        BY <3>3 DEF HandlerStops, s
      <4>2. SignalTypes'
        BY <1>1, <2>1, <3>1, <4>1 DEF SignalTypes
      <4>3. TotalIsLow'
        BY <2>1, <3>1, <4>1 DEF SignalInv, TotalIsLow, AllCaught
      <4>4. Seen("RT")' = Seen("RT") /\ Seen("USR")' = Seen("USR")
        BY <2>1, <3>1, <4>1, TheSignals DEF Seen
      <4>5. QED
        BY <2>1, <2>2, <3>1, <4>2, <4>3, <4>4 DEF SignalInv
    <3>4. CASE HandlerCounts \/ HandlerWrites
      <4>1. /\ s # "INT" /\ caught' = [caught EXCEPT ![s] = @ + 1] /\ UNCHANGED stop
            /\ \/ receiver = "20.1" /\ UNCHANGED sigCount
               \/ Top.reg # Unread /\ sigCount' = Top.reg + 1
        BY <3>4 DEF HandlerCounts, HandlerWrites, s
      <4>2. Top.reg \in Nat \cup {Unread}
        BY <3>1 DEF SignalFrame
      <4>3. SignalTypes'
        BY <1>1, <2>1, <3>1, <3>2, <4>1, <4>2 DEF SignalTypes
      <4>4. AllCaught' = AllCaught + 1 /\ AllCaught \in Nat
        <5>1. caught["USR"] \in Nat /\ caught["RT"] \in Nat /\ s \in {"USR", "RT"}
          BY <1>1, <3>2, <4>1, TheSignals
        <5>2. CASE s = "USR"
          <6>1. caught'["USR"] = caught["USR"] + 1 /\ caught'["RT"] = caught["RT"]
            BY <1>1, <4>1, <5>2, TheSignals
          <6>2. QED
            BY <5>1, <6>1 DEF AllCaught
        <5>3. CASE s = "RT"
          <6>1. caught'["RT"] = caught["RT"] + 1 /\ caught'["USR"] = caught["USR"]
            BY <1>1, <4>1, <5>3, TheSignals
          <6>2. QED
            BY <5>1, <6>1 DEF AllCaught
        <5>4. QED
          BY <5>1, <5>2, <5>3
      <4>5. TotalIsLow'
        <5>1. CASE receiver = "20.1"
          BY <2>1, <5>1 DEF TotalIsLow
        <5>2. CASE receiver # "20.1"
          <6>1. Top.reg \in Nat /\ sigCount' = Top.reg + 1
            BY <4>1, <4>2, <5>2
          <6>2. Top.reg <= AllCaught /\ \A i \in 1..Len(frames) : frames[i].reg <= AllCaught
            BY <3>1, <5>2 DEF SignalInv, TotalIsLow, Top
          <6>3. \A i \in 1..Len(frames') : frames'[i].reg <= AllCaught
            BY <3>1, <6>2
          <6>4. \A i \in 1..Len(frames') : frames'[i].reg \in Nat \cup {Unread}
            <7>1. ASSUME NEW i \in 1..Len(frames')
                  PROVE  frames'[i] \in SignalFrame
              BY <3>1
            <7>2. QED
              BY <7>1 DEF SignalFrame
          <6>5. QED
            BY <4>4, <6>1, <6>2, <6>3, <6>4, TheSignals DEF TotalIsLow
        <5>3. QED
          BY <5>1, <5>2
      <4>6. Seen("RT")' = Seen("RT") /\ Seen("USR")' = Seen("USR")
        <5>1. ASSUME NEW t \in {"RT", "USR"}
              PROVE  Seen(t)' = Seen(t)
          <6>1. t \in Signals /\ caught[t] \in Nat /\ pend'[t] = pend[t] /\ pend[t] \in Nat
            BY <1>1, <2>1, <5>1, TheSignals
          <6>2. CASE t = s
            <7>1. caught'[t] = caught[t] + 1 /\ Sits(frames, t) /\ ~Sits(frames', t)
              BY <1>1, <3>1, <3>2, <4>1, <6>1, <6>2
            <7>2. QED
              BY <6>1, <7>1 DEF Seen
          <6>3. CASE t # s
            <7>1. caught'[t] = caught[t] /\ (Sits(frames', t) <=> Sits(frames, t))
              BY <1>1, <3>1, <4>1, <6>1, <6>3
            <7>2. QED
              BY <6>1, <7>1 DEF Seen
          <6>4. QED
            BY <6>2, <6>3
        <5>2. QED
          BY <5>1
      <4>7. QED
        BY <2>1, <2>2, <3>1, <4>3, <4>5, <4>6 DEF SignalInv
    <3>5. QED
      BY <1>5, <2>4, <3>3, <3>4 DEF HandlerRuns
  <2>5. QED
    BY <2>3, <2>4
<1>6. ASSUME NEW from \in {"blocked", "test", "pausing"}, NEW to \in {"test", "ended", "pausing", "pause"},
             MainTurn(from, to), to = "ended" => from = "test"
      PROVE  SignalInv'
  <2>1. /\ recvPc = from /\ recvPc' = to /\ Deliverable = {} /\ frames = <<>>
        /\ UNCHANGED <<receiver, pend, frames, sent, caught, sigCount, stop>>
    BY <1>6 DEF MainTurn
  <2>2. SignalTypes'
    BY <1>1, <2>1 DEF SignalTypes
  <2>3. \A t \in Signals : Seen(t)' = Seen(t)
    BY <2>1 DEF Seen, Sits
  <2>4. ASSUME to = "ended"
        PROVE  Len(frames) = 0 /\ \A s \in Signals : pend[s] = 0
    <3>1. Len(frames) = 0 /\ DOMAIN frames = {}
      BY <2>1
    <3>2. \A s \in Signals : ~(pend[s] > 0)
      BY <1>6, <2>1, <2>4, <3>1 DEF Deliverable
    <3>3. QED
      BY <1>1, <3>1, <3>2
  <2>5. QED
    BY <2>1, <2>2, <2>3, <2>4, StackKept, TheSignals DEF SignalInv
<1>7. CASE UNCHANGED signalVars
  <2>1. UNCHANGED <<receiver, recvPc, pend, frames, sent, caught, sigCount, stop>>
    BY <1>7 DEF signalVars
  <2>2. SignalTypes'
    BY <1>1, <2>1 DEF SignalTypes
  <2>3. \A t \in Signals : Seen(t)' = Seen(t)
    BY <2>1 DEF Seen, Sits
  <2>4. QED
    BY <2>1, <2>2, <2>3, StackKept, TheSignals DEF SignalInv
<1>8. QED
  <2>1. CASE MainUnblocks \/ MainTests \/ MainPauses
    BY <1>6, <2>1 DEF MainUnblocks, MainTests, MainPauses
  <2>2. QED
    BY <1>2, <1>3, <1>4, <1>5, <1>7, <2>1 DEF SignalNext, ReceiverStep, KillSent, QueueSent

-----------------------------------------------------------------------------
(* The steps of main and of its threads.                                    *)

\* No thread was created.
LEMMA InitJoin == JoinInit => JoinInv
<1> SUFFICES ASSUME JoinInit
             PROVE  JoinInv
  OBVIOUS
<1>1. JoinTypes
  BY ThreadsAssumption DEF JoinInit, JoinTypes
<1>2. Finished = {} /\ Marks = {}
  BY DEF JoinInit, Finished, Marks
<1>3. Cardinality(Finished) = 0 /\ Cardinality(Marks) = 0
  BY <1>2, FS_EmptySet
<1>4. QED
  BY <1>1, <1>3 DEF JoinInit, JoinInv, FinishedAreCounted

\* The sets of threads are finite.
LEMMA ThreadSets ==
  /\ IsFiniteSet(Finished) /\ IsFiniteSet(Marks)
  /\ Cardinality(Finished) \in Nat /\ Cardinality(Marks) \in Nat
<1>1. IsFiniteSet(Threads)
  BY ThreadsAssumption, FS_Interval DEF Threads
<1>2. Finished \subseteq Threads /\ Marks \subseteq Threads
  BY DEF Finished, Marks
<1>3. IsFiniteSet(Finished) /\ IsFiniteSet(Marks)
  BY <1>1, <1>2, FS_Subset
<1>4. QED
  BY <1>3, FS_CardinalityType

\* Who is counted and marked stays when main changes neither, or unmarks.
LEMMA CountsKept ==
  ASSUME FinishedAreCounted, Finished' = Finished, Marks' \subseteq Marks,
         numNoJoined' = numNoJoined, joinPc' = "ended" => numThreads' = 0
  PROVE  FinishedAreCounted'
<1>1. Cardinality(Marks') <= Cardinality(Marks) /\ Cardinality(Marks') \in Nat
  BY ThreadSets, FS_Subset, FS_CardinalityType
<1>2. QED
  BY <1>1, ThreadSets DEF FinishedAreCounted

\* Every step counts whom it lets finish.
LEMMA NextJoin == JoinInv /\ [JoinNext]_joinVars => JoinInv'
<1> SUFFICES ASSUME JoinInv, [JoinNext]_joinVars
             PROVE  JoinInv'
  OBVIOUS
<1> DEFINE Unborn == \A t \in Threads : t > loopVar \/ (t = loopVar /\ joinPc # "next")
                                          => threadPc[t] = "none"
<1>1. /\ JoinTypes /\ FinishedAreCounted /\ Unborn
      /\ joinPc = "off" => loopVar = 0
      /\ joinPc = "next" => loopVar < numThreads
      /\ numThreads \in Nat /\ loopVar \in Nat /\ Threads \subseteq Int
  BY ThreadsAssumption DEF JoinInv, JoinTypes, Threads
<1>2. CASE JoinStarts
  <2>1. /\ joinPc = "off" /\ joinPc' = "create" /\ numThreads' \in 0..MaxThreads
        /\ UNCHANGED <<loopVar, threadPc, threadStatus, numNoJoined>>
    BY <1>2 DEF JoinStarts, MainTo
  <2>2. JoinTypes'
    BY <1>1, <2>1 DEF JoinTypes
  <2>3. Finished' = Finished /\ Marks' = Marks
    BY <2>1 DEF Finished, Marks
  <2>4. QED
    BY <1>1, <2>1, <2>2, <2>3, CountsKept DEF JoinInv
<1>3. CASE JoinCreates
  <2>1. /\ joinPc = "create" /\ joinPc' = "next" /\ loopVar < numThreads /\ loopVar \in Threads
        /\ threadPc' = [threadPc EXCEPT ![loopVar] = "start"]
        /\ threadStatus' = [threadStatus EXCEPT ![loopVar] = "alive"]
        /\ UNCHANGED <<numThreads, loopVar, numNoJoined>>
    BY <1>1, <1>3, ThreadsAssumption DEF JoinCreates, MainTo, JoinTypes, Threads
  <2>2. JoinTypes'
    BY <1>1, <2>1 DEF JoinTypes
  <2>3. threadPc[loopVar] = "none"
    BY <1>1, <2>1
  <2>4. Finished' = Finished
    BY <1>1, <2>1, <2>3 DEF Finished, JoinTypes
  <2>5. Marks' \subseteq Marks
    BY <1>1, <2>1 DEF Marks, JoinTypes
  <2>6. Unborn'
    BY <1>1, <2>1 DEF JoinTypes
  <2>7. QED
    BY <1>1, <2>1, <2>2, <2>4, <2>5, <2>6, CountsKept DEF JoinInv
<1>4. CASE JoinCounts
  <2>1. /\ joinPc = "next" /\ joinPc' = "create" /\ loopVar' = loopVar + 1
        /\ UNCHANGED <<numThreads, threadPc, threadStatus, numNoJoined>>
    BY <1>4 DEF JoinCounts, MainTo
  <2>2. JoinTypes'
    BY <1>1, <2>1 DEF JoinTypes
  <2>3. Finished' = Finished /\ Marks' = Marks
    BY <2>1 DEF Finished, Marks
  <2>4. Unborn'
    BY <1>1, <2>1
  <2>5. QED
    BY <1>1, <2>1, <2>2, <2>3, <2>4, CountsKept DEF JoinInv
<1>5. ASSUME joinPc' \in {"off", "create", "lock", "test", "wait", "sleep", "woken", "ended"},
             joinPc' = "ended" => numThreads = 0, joinPc # "off", joinPc' # "off",
             joinPc # "next", joinPc' # "next",
             UNCHANGED <<numThreads, loopVar, threadPc, threadStatus, numNoJoined>>
      PROVE  JoinInv'
  <2>1. JoinTypes'
    BY <1>1, <1>5 DEF JoinTypes
  <2>2. Finished' = Finished /\ Marks' = Marks
    BY <1>5 DEF Finished, Marks
  <2>3. QED
    BY <1>1, <1>5, <2>1, <2>2, CountsKept DEF JoinInv
<1>6. CASE JoinCreated \/ JoinLocks \/ JoinTests \/ JoinWaits \/ JoinWakesEarly \/ JoinWakes
  BY <1>5, <1>6 DEF JoinCreated, JoinLocks, JoinTests, JoinWaits, JoinWakesEarly, JoinWakes, MainTo
<1>7. ASSUME NEW t \in Threads, ThreadStep(t)
      PROVE  JoinInv'
  <2>1. threadPc[t] # "none" /\ UNCHANGED <<numThreads, loopVar>>
    BY <1>7 DEF ThreadStep, ThreadStarts, ThreadFinishes, ThreadSignals, ThreadTo
  <2>2. PICK p \in {"finish", "signal", "ended"} : threadPc' = [threadPc EXCEPT ![t] = p]
    BY <1>7 DEF ThreadStep, ThreadStarts, ThreadFinishes, ThreadSignals, ThreadTo
  <2>3. joinPc' = joinPc \/ (joinPc = "sleep" /\ joinPc' = "woken")
    BY <1>7 DEF ThreadStep, ThreadStarts, ThreadFinishes, ThreadSignals
  <2>4. Unborn'
    BY <1>1, <2>1, <2>2, <2>3 DEF JoinTypes
  <2>5. CASE ThreadStarts(t) \/ ThreadSignals(t)
    <3>1. UNCHANGED <<threadStatus, numNoJoined>>
      BY <2>5 DEF ThreadStarts, ThreadSignals
    <3>2. Finished' = Finished
      BY <1>1, <2>5 DEF ThreadStarts, ThreadSignals, ThreadTo, Finished, JoinTypes
    <3>3. Marks' = Marks
      BY <3>1 DEF Marks
    <3>4. JoinTypes'
      BY <1>1, <2>1, <2>2, <2>3, <3>1 DEF JoinTypes
    <3>5. joinPc' = "ended" => numThreads' = 0
      BY <1>1, <2>1, <2>3 DEF FinishedAreCounted
    <3>6. FinishedAreCounted'
      BY <1>1, <3>1, <3>2, <3>3, <3>5, CountsKept
    <3>7. QED
      BY <1>1, <2>1, <2>3, <2>4, <3>4, <3>6 DEF JoinInv
  <2>6. CASE ThreadFinishes(t)
    <3>1. /\ threadPc[t] = "finish" /\ threadPc' = [threadPc EXCEPT ![t] = "signal"]
          /\ numNoJoined' = numNoJoined + 1 /\ joinPc' = joinPc
          /\ threadStatus' = [u \in Threads |->
               IF u = threadId[t] /\ u < numThreads THEN "terminated" ELSE threadStatus[u]]
      BY <2>6 DEF ThreadFinishes, ThreadTo
    <3>2. Finished' = Finished \cup {t} /\ t \notin Finished
      BY <1>1, <3>1 DEF Finished, JoinTypes
    <3>3. Marks' \subseteq Marks \cup {threadId[t]}
      BY <3>1 DEF Marks
    <3>4. Cardinality(Finished') = Cardinality(Finished) + 1
      BY <3>2, ThreadSets, FS_AddElement
    <3>5. Cardinality(Marks') <= Cardinality(Marks) + 1 /\ Cardinality(Marks') \in Nat
      <4>1. /\ IsFiniteSet(Marks \cup {threadId[t]})
            /\ Cardinality(Marks \cup {threadId[t]}) \in {Cardinality(Marks), Cardinality(Marks) + 1}
        BY ThreadSets, FS_AddElement
      <4>2. /\ IsFiniteSet(Marks')
            /\ Cardinality(Marks') <= Cardinality(Marks \cup {threadId[t]})
        BY <3>3, <4>1, FS_Subset
      <4>3. Cardinality(Marks') \in Nat
        BY <4>2, FS_CardinalityType
      <4>4. QED
        BY <4>1, <4>2, <4>3, ThreadSets
    <3>6. FinishedAreCounted'
      BY <1>1, <2>1, <3>1, <3>4, <3>5, ThreadSets DEF FinishedAreCounted
    <3>7. JoinTypes'
      BY <1>1, <2>1, <3>1 DEF JoinTypes
    <3>8. QED
      BY <1>1, <2>1, <2>4, <3>1, <3>6, <3>7 DEF JoinInv
  <2>7. QED
    BY <1>7, <2>5, <2>6 DEF ThreadStep
<1>8. CASE UNCHANGED joinVars
  <2>1. UNCHANGED <<numThreads, joinPc, loopVar, threadPc, threadStatus, numNoJoined>>
    BY <1>8 DEF joinVars
  <2>2. JoinTypes'
    BY <1>1, <2>1 DEF JoinTypes
  <2>3. Finished' = Finished /\ Marks' = Marks
    BY <2>1 DEF Finished, Marks
  <2>4. joinPc' = "ended" => numThreads' = 0
    BY <1>1, <2>1 DEF FinishedAreCounted
  <2>5. QED
    BY <1>1, <2>1, <2>2, <2>3, <2>4, CountsKept DEF JoinInv
<1>9. QED
  BY <1>2, <1>3, <1>4, <1>6, <1>7, <1>8 DEF JoinNext, JoinMain

-----------------------------------------------------------------------------
(* practice/55.2: who holds what.                                           *)

Held(p, k) == lockHeld[LockOrder[p][k]] = p

FlockInv ==
  /\ lockAt \in [Lockers -> 0..4]
  /\ lockHeld \in [{"temp1", "temp2"} -> Lockers \cup {"nobody"}]
  /\ lockAt["parent"] = 0 <=> lockAt["child"] = 0
  /\ \A p \in Lockers, k \in 1..2 : Held(p, k) <=> (k < lockAt[p] /\ lockAt[p] # 4)
  /\ lockAt["parent"] = 4 => lockAt["child"] = 4

\* p has a step to take.
CanGoOn(p) ==
  \/ lockAt[p] \in 1..2 /\ lockHeld[Wanted(p)] = "nobody"
  \/ lockAt[p] = 3 /\ (p = "parent" => lockAt["child"] = 4)

\* After the fork there is no way to be stuck but each waiting for the other.
StuckInACircle ==
  lockAt["parent"] # 0 /\ (\A p \in Lockers : ~CanGoOn(p)) =>
    \/ \A p \in Lockers : lockAt[p] = 4
    \/ WaitsFor("parent", "child") /\ WaitsFor("child", "parent")

\* Nobody holds a lock.
LEMMA InitFlock == FlockInit => FlockInv
BY DEF FlockInit, FlockInv, Lockers, LockOrder, Held

\* A lock is taken from nobody, in the order of the process, until its exit.
LEMMA NextFlock == FlockInv /\ [FlockNext]_flockVars => FlockInv'
<1> SUFFICES ASSUME FlockInv, [FlockNext]_flockVars
             PROVE  FlockInv'
  OBVIOUS
<1>1. /\ Lockers = {"child", "parent"}
      /\ LockOrder["child"] = <<"temp1", "temp2">> /\ LockOrder["parent"] = <<"temp2", "temp1">>
      /\ 1..2 = {1, 2} /\ 0..4 = {0, 1, 2, 3, 4}
  BY DEF Lockers, LockOrder
<1>2. CASE FlockForks
  BY <1>1, <1>2 DEF FlockForks, FlockInv, Held
<1>3. ASSUME NEW p \in Lockers, FlockTakes(p)
      PROVE  FlockInv'
  BY <1>1, <1>3 DEF FlockTakes, FlockInv, Held, Wanted
<1>4. ASSUME NEW p \in Lockers, FlockExits(p)
      PROVE  FlockInv'
  BY <1>1, <1>4 DEF FlockExits, FlockInv, Held
<1>5. CASE UNCHANGED flockVars
  BY <1>5 DEF flockVars, FlockInv, Held
<1>6. QED
  BY <1>2, <1>3, <1>4, <1>5 DEF FlockNext

\* Of two processes that hold what they hold in opposite order, and cannot go
\* on, each waits for the other.
LEMMA StuckFlock == FlockInv => StuckInACircle
<1> SUFFICES ASSUME FlockInv, lockAt["parent"] # 0, \A p \in Lockers : ~CanGoOn(p)
             PROVE  \/ \A p \in Lockers : lockAt[p] = 4
                    \/ WaitsFor("parent", "child") /\ WaitsFor("child", "parent")
  BY DEF StuckInACircle
<1>1. /\ Lockers = {"child", "parent"}
      /\ LockOrder["child"] = <<"temp1", "temp2">> /\ LockOrder["parent"] = <<"temp2", "temp1">>
      /\ 1..2 = {1, 2} /\ 0..4 = {0, 1, 2, 3, 4}
  BY DEF Lockers, LockOrder
<1>2. QED
  BY <1>1 DEF FlockInv, Held, CanGoOn, WaitsFor, Wanted

-----------------------------------------------------------------------------
(* practice/44.1 and 26.4: what is on its way between parent and child.     *)

\* The first n capitals.
Told(n) == [i \in 1..n |-> i - 1]

\* The letter the parent waits for is on its way there, with the child, or on
\* its way back, unless the child has gone.
OnItsWay(n) ==
  \/ pipe["parent"] = <<>> /\ pipe["child"] = <<n>> /\ pipePc["child"] = "read"
  \/ pipe["parent"] = <<>> /\ pipe["child"] = <<>> /\ pipePc["child"] = "write" /\ letter["child"] = n
  \/ pipe["parent"] = <<n>> /\ pipe["child"] = <<>> /\ pipePc["child"] \in {"read", "ended", "killed"}
  \/ pipe["parent"] = <<>> /\ Over("child")

PipeInv ==
  /\ pipePc \in [Ends -> {"off", "write", "read", "ended", "killed"}]
  /\ letter \in [Ends -> Int] /\ letter["parent"] \in 0..5
  /\ pipe \in [Ends -> Seq(Int)]
  /\ answers = Told(letter["parent"])
  /\ pipePc["parent"] = "off" =>
       /\ pipePc["child"] = "off" /\ pipe["parent"] = <<>> /\ pipe["child"] = <<>>
       /\ letter["parent"] = 0
  /\ pipePc["parent"] = "write" =>
       /\ letter["parent"] < 5 /\ pipe["parent"] = <<>>
       /\ Over("child") \/ (pipe["child"] = <<>> /\ pipePc["child"] = "read")
  /\ pipePc["parent"] = "read" => letter["parent"] < 5 /\ OnItsWay(letter["parent"])
  /\ pipePc["parent"] = "ended" => letter["parent"] = 5

\* The five answers in their order, and a signal that a parent waiting for it
\* has still to come or has been kept.
AnswersInOrder == pipePc["parent"] = "ended" => answers = <<0, 1, 2, 3, 4>>
SignalKept == syncPc = "suspend" => syncChild = "exits" \/ usr1
ZombieAtEnd == syncPc \in {"sleep", "ended"} => syncChild = "zombie"

\* Nothing has been written.
LEMMA InitPipe == PipeInit => PipeInv
<1> SUFFICES ASSUME PipeInit
             PROVE  PipeInv
  OBVIOUS
<1>1. Told(0) = <<>>
  BY DEF Told
<1>2. Ends = {"parent", "child"}
  BY DEF Ends
<1>3. QED
  BY <1>1, <1>2 DEF PipeInit, PipeInv

\* One more answer.
LEMMA TellsMore ==
  ASSUME NEW n \in Nat
  PROVE  Append(Told(n), n) = Told(n + 1)
<1>1. Told(n) \in Seq(Int) /\ Len(Told(n)) = n /\ Told(n + 1) \in Seq(Int) /\ Len(Told(n + 1)) = n + 1
  BY DEF Told
<1>2. \A i \in 1..n+1 : Append(Told(n), n)[i] = Told(n + 1)[i]
  BY <1>1 DEF Told
<1>3. QED
  BY <1>1, <1>2

\* Each step moves the letter on; what a dead child had is lost with it.
LEMMA NextPipe == PipeInv /\ [PipeNext]_pipeVars => PipeInv'
<1> SUFFICES ASSUME PipeInv, [PipeNext]_pipeVars
             PROVE  PipeInv'
  OBVIOUS
<1> DEFINE n == letter["parent"]
<1>1. /\ Ends = {"parent", "child"} /\ n \in 0..5 /\ answers = Told(n)
      /\ pipePc \in [Ends -> {"off", "write", "read", "ended", "killed"}]
      /\ letter \in [Ends -> Int] /\ pipe \in [Ends -> Seq(Int)]
      /\ Other("parent") = "child" /\ Other("child") = "parent"
  BY DEF PipeInv, Ends, Other
<1>2. CASE PipeForks
  BY <1>1, <1>2 DEF PipeForks, PipeInv, Over
<1>3. CASE ParentWrites
  <2>1. /\ pipePc["parent"] = "write" /\ n < 5 /\ pipe["parent"] = <<>>
        /\ letter' = letter /\ answers' = answers
    BY <1>3 DEF ParentWrites, PipeInv
  <2>2. CASE BrokenPipe("parent")
    BY <1>1, <2>1, <2>2 DEF BrokenPipe, PipeInv, Over
  <2>3. CASE ~Over("child") /\ pipe' = [pipe EXCEPT !["child"] = Append(@, n)]
                            /\ pipePc' = [pipePc EXCEPT !["parent"] = "read"]
    <3>1. pipe["child"] = <<>> /\ pipePc["child"] = "read"
      BY <2>1, <2>3 DEF PipeInv
    <3>2. Append(<<>>, n) = <<n>> /\ <<n>> \in Seq(Int)
      BY <1>1
    <3>3. /\ pipe' \in [Ends -> Seq(Int)] /\ pipe'["child"] = <<n>> /\ pipe'["parent"] = <<>>
          /\ pipePc'["child"] = "read" /\ pipePc'["parent"] = "read"
          /\ pipePc' \in [Ends -> {"off", "write", "read", "ended", "killed"}]
      BY <1>1, <2>1, <2>3, <3>1, <3>2
    <3>4. QED
      BY <1>1, <2>1, <3>3 DEF PipeInv, OnItsWay
  <2>4. QED
    BY <1>3, <2>2, <2>3 DEF ParentWrites
<1>4. CASE ParentReads
  <2>1. /\ pipePc["parent"] = "read" /\ n < 5 /\ pipe["parent"] # <<>> /\ OnItsWay(n)
        /\ answers' = Append(answers, Head(pipe["parent"]))
        /\ pipe' = [pipe EXCEPT !["parent"] = Tail(@)]
        /\ letter' = [letter EXCEPT !["parent"] = @ + 1]
        /\ pipePc' = [pipePc EXCEPT !["parent"] =
                        IF letter'["parent"] = 5 THEN "ended" ELSE "write"]
    BY <1>4 DEF ParentReads, PipeInv
  <2>2. pipe["parent"] = <<n>> /\ pipe["child"] = <<>> /\ pipePc["child"] \in {"read", "ended", "killed"}
    BY <2>1 DEF OnItsWay
  <2>3. Head(<<n>>) = n /\ Tail(<<n>>) = <<>> /\ <<>> \in Seq(Int)
    OBVIOUS
  <2>4. /\ letter' \in [Ends -> Int] /\ letter'["parent"] = n + 1 /\ n + 1 \in 0..5
        /\ pipe' \in [Ends -> Seq(Int)] /\ pipe'["parent"] = <<>> /\ pipe'["child"] = <<>>
    BY <1>1, <2>1, <2>2, <2>3
  <2>5. answers' = Told(n + 1)
    <3>1. n \in Nat /\ answers' = Append(Told(n), n)
      BY <1>1, <2>1, <2>2, <2>3
    <3>2. QED
      BY <3>1, TellsMore
  <2>6. /\ pipePc' \in [Ends -> {"off", "write", "read", "ended", "killed"}]
        /\ pipePc'["child"] = pipePc["child"]
        /\ (n + 1 = 5 /\ pipePc'["parent"] = "ended") \/ (n + 1 < 5 /\ pipePc'["parent"] = "write")
    BY <1>1, <2>1, <2>4
  <2>7. QED
    BY <2>2, <2>4, <2>5, <2>6 DEF PipeInv, Over
<1>5. CASE ParentReadsEnd
  BY <1>1, <1>5 DEF ParentReadsEnd, PipeInv, Over
<1>6. CASE ChildTakes
  <2>1. /\ pipePc["child"] = "read" /\ pipe["child"] # <<>> /\ answers' = answers
        /\ letter' = [letter EXCEPT !["child"] = Head(pipe["child"])]
        /\ pipe' = [pipe EXCEPT !["child"] = Tail(@)]
        /\ pipePc' = [pipePc EXCEPT !["child"] = "write"]
    BY <1>6 DEF ChildTakes
  <2>2. Head(pipe["child"]) \in Int /\ Tail(pipe["child"]) \in Seq(Int)
    BY <1>1, <2>1
  <2>3. /\ letter' \in [Ends -> Int] /\ letter'["parent"] = n
        /\ pipe' \in [Ends -> Seq(Int)] /\ pipe'["parent"] = pipe["parent"]
        /\ pipe'["child"] = Tail(pipe["child"]) /\ letter'["child"] = Head(pipe["child"])
        /\ pipePc' \in [Ends -> {"off", "write", "read", "ended", "killed"}]
        /\ pipePc'["parent"] = pipePc["parent"] /\ pipePc'["child"] = "write"
    BY <1>1, <2>1, <2>2
  <2>4. CASE pipePc["parent"] = "read"
    <3>1. pipe["parent"] = <<>> /\ pipe["child"] = <<n>> /\ n < 5
      BY <2>1, <2>4 DEF PipeInv, OnItsWay, Over
    <3>2. Head(<<n>>) = n /\ Tail(<<n>>) = <<>>
      OBVIOUS
    <3>3. QED
      BY <1>1, <2>1, <2>3, <2>4, <3>1, <3>2 DEF PipeInv, OnItsWay
  <2>5. CASE pipePc["parent"] # "read"
    <3>1. pipePc["parent"] \notin {"off", "write"}
      BY <2>1 DEF PipeInv, Over
    <3>2. QED
      BY <1>1, <2>1, <2>3, <2>5, <3>1 DEF PipeInv
  <2>6. QED
    BY <2>4, <2>5
<1>7. CASE ChildAnswers
  <2>1. pipePc["child"] = "write" /\ letter' = letter /\ answers' = answers
    BY <1>7 DEF ChildAnswers
  <2>2. CASE BrokenPipe("child")
    BY <1>1, <2>1, <2>2 DEF BrokenPipe, PipeInv, Over
  <2>3. CASE /\ ~Over("parent")
             /\ pipe' = [pipe EXCEPT !["parent"] = Append(@, letter["child"])]
             /\ pipePc' = [pipePc EXCEPT !["child"] = IF letter["child"] = 4 THEN "ended" ELSE "read"]
    <3>1. pipePc["parent"] = "read"
      BY <1>1, <2>1, <2>3 DEF PipeInv, Over
    <3>2. pipe["parent"] = <<>> /\ pipe["child"] = <<>> /\ letter["child"] = n /\ n < 5
      BY <2>1, <3>1 DEF PipeInv, OnItsWay, Over
    <3>3. Append(<<>>, n) = <<n>> /\ <<n>> \in Seq(Int)
      BY <1>1
    <3>4. /\ pipe' \in [Ends -> Seq(Int)] /\ pipe'["parent"] = <<n>> /\ pipe'["child"] = <<>>
          /\ pipePc' \in [Ends -> {"off", "write", "read", "ended", "killed"}]
          /\ pipePc'["parent"] = "read" /\ pipePc'["child"] \in {"read", "ended"}
      BY <1>1, <2>3, <3>1, <3>2, <3>3
    <3>5. QED
      BY <1>1, <2>1, <3>2, <3>4 DEF PipeInv, OnItsWay
  <2>4. QED
    BY <1>7, <2>2, <2>3 DEF ChildAnswers
<1>8. ASSUME NEW p \in Ends, PipeKill(p)
      PROVE  PipeInv'
  <2>1. /\ pipePc[p] \in {"write", "read"} /\ pipePc' = [pipePc EXCEPT ![p] = "killed"]
        /\ letter' = letter /\ pipe' = pipe /\ answers' = answers
    BY <1>8 DEF PipeKill
  <2>2. CASE p = "parent"
    BY <1>1, <2>1, <2>2 DEF PipeInv
  <2>3. CASE p = "child"
    BY <1>1, <2>1, <2>3 DEF PipeInv, OnItsWay, Over
  <2>4. QED
    BY <1>1, <2>2, <2>3
<1>9. CASE UNCHANGED pipeVars
  BY <1>9 DEF pipeVars, PipeInv, OnItsWay, Over
<1>10. QED
  BY <1>2, <1>3, <1>4, <1>5, <1>6, <1>7, <1>8, <1>9 DEF PipeNext, PipeParent, PipeChild

\* 26.4: nobody has forked.
LEMMA InitSync == SyncInit => SignalKept /\ ZombieAtEnd
BY DEF SyncInit, SignalKept, ZombieAtEnd

\* 26.4: the child signals before it ends, and SIGKILL leaves a zombie.
LEMMA NextSync == SignalKept /\ ZombieAtEnd /\ [SyncNext]_syncVars => SignalKept' /\ ZombieAtEnd'
BY DEF SyncNext, SyncForks, SyncParent, SyncResumes, SyncKills, SyncExits, SyncChildStep,
       SyncChildSignals, SyncChildEnds, syncVars, SignalKept, ZombieAtEnd

-----------------------------------------------------------------------------
(* practice/31.2: what a function by recursion is at every position follows *)
(* from what it is at the first and at the next; so the loop of judgePath   *)
(* makes the normal form of the path.                                       *)

\* What holds at the start and passes from one position to the next holds everywhere.
LEMMA Counting ==
  ASSUME NEW L \in Nat, NEW S, 0 \in S, \A n \in 1..L : n - 1 \in S => n \in S
  PROVE  0..L \subseteq S
<1> DEFINE R == OpToRel(<, Nat)
           T == (0..L) \ S
<1>1. IsWellFoundedOn(R, Nat)
  BY NatLessThanWellFounded, Zenon
<1>2. \A i, j \in Nat : i < j => <<i, j>> \in R
  BY DEF OpToRel
<1> HIDE DEF R
<1>3. SUFFICES ASSUME T # {}
               PROVE  FALSE
  OBVIOUS
<1>4. T \subseteq Nat
  OBVIOUS
<1> HIDE DEF T
<1>5. PICK x \in T : \A y \in T : ~(<<y, x>> \in R)
  BY <1>1, <1>3, <1>4, WFMin, Zenon
<1>6. x \in 1..L /\ x - 1 \in 0..L /\ x - 1 \in Nat /\ x - 1 < x /\ x \in Nat
  BY <1>5 DEF T
<1>7. x - 1 \notin T
  BY <1>2, <1>5, <1>6
<1>8. QED
  BY <1>5, <1>6, <1>7 DEF T

\* Functions that lead from the value at n - 1 to that at n, and the runs they make.
Steps(L, T) == [(1..L) \X T -> T]
Courses(L, T, start, F) ==
  {g \in [0..L -> T] : g[0] = start /\ \A n \in 1..L : g[n] = F[<<n, g[n - 1]>>]}

\* A function may be given by its first value and by what follows a value.
LEMMA StepByStep ==
  ASSUME NEW L \in Nat, NEW T, NEW start \in T, NEW F \in Steps(L, T)
  PROVE  \E g : g \in Courses(L, T, start, F)
<1> USE DEF Steps
<1> DEFINE Upto(n, g) == g[0] = start /\ \A k \in 1..n : g[k] = F[<<k, g[k - 1]>>]
           S == {n \in 0..L : \E g \in [0..n -> T] : Upto(n, g)}
<1>1. 0 \in S
  <2>1. [k \in 0..0 |-> start] \in [0..0 -> T] /\ Upto(0, [k \in 0..0 |-> start])
    OBVIOUS
  <2>2. \E g \in [0..0 -> T] : Upto(0, g)
    BY <2>1
  <2> HIDE DEF Upto
  <2>3. QED
    BY <2>2
<1>2. ASSUME NEW n \in 1..L, n - 1 \in S
      PROVE  n \in S
  <2>1. PICK g \in [0..n-1 -> T] : Upto(n - 1, g)
    BY <1>2
  <2> DEFINE h == [k \in 0..n |-> IF k = n THEN F[<<n, g[n - 1]>>] ELSE g[k]]
  <2>2. g[n - 1] \in T /\ <<n, g[n - 1]>> \in (1..L) \X T
    BY <2>1
  <2>3. h \in [0..n -> T]
    BY <2>1, <2>2
  <2>4. h[n] = F[<<n, h[n - 1]>>] /\ h[0] = start
    <3>1. n \in 0..n /\ n - 1 \in 0..n /\ n - 1 # n /\ 0 \in 0..n /\ 0 # n
      OBVIOUS
    <3>2. h[n] = F[<<n, g[n - 1]>>] /\ h[n - 1] = g[n - 1] /\ h[0] = g[0]
      BY <3>1
    <3> HIDE DEF h
    <3>3. QED
      BY <3>2, <2>1
  <2>5. ASSUME NEW k \in 1..n-1
        PROVE  h[k] = F[<<k, h[k - 1]>>]
    BY <2>1
  <2> HIDE DEF h
  <2>6. Upto(n, h)
    BY <2>4, <2>5
  <2>7. QED
    BY <2>3, <2>6
<1> HIDE DEF S
<1>3. 0..L \subseteq S
  BY <1>1, <1>2, Counting
<1>4. L \in S
  BY <1>3
<1>5. QED
  BY <1>4 DEF S, Courses

\* The characters of a path.
Letters == {"/", ".", "a"}

\* What Without computes.
LEMMA WithoutStep ==
  ASSUME NEW p \in Seq(Letters), NEW dropped
  PROVE  LET to == Without(p, dropped) IN
         /\ to \in [0..Len(p) -> Seq(Letters)] /\ to[0] = <<>>
         /\ \A n \in 1..Len(p) :
              to[n] = IF n \in dropped THEN to[n - 1] ELSE Append(to[n - 1], p[n])
<1> DEFINE T == Seq(Letters)
           Body(g) == [n \in 0..Len(p) |->
                         IF n = 0 THEN <<>>
                         ELSE IF n \in dropped THEN g[n - 1] ELSE Append(g[n - 1], p[n])]
           Longer(n, t) == IF n \in dropped THEN t ELSE Append(t, p[n])
           F == [x \in (1..Len(p)) \X T |-> Longer(x[1], x[2])]
           to == Without(p, dropped)
<1>1. to = CHOOSE g : g = Body(g)
  BY DEF Without
<1>2. Len(p) \in Nat /\ <<>> \in T /\ \A n \in 1..Len(p) : p[n] \in Letters
  BY LenProperties, EmptySeq, ElementOfSeq
<1>3. \A n \in 1..Len(p), t \in T : Longer(n, t) \in T
  BY <1>2, AppendProperties
<1> HIDE DEF Longer, T, to
<1>4. F \in [(1..Len(p)) \X T -> T]
  BY <1>3
<1>5. \A n \in 1..Len(p), t \in T : F[<<n, t>>] = Longer(n, t)
  OBVIOUS
<1> HIDE DEF F
<1>6. PICK g \in [0..Len(p) -> T] :
        g[0] = <<>> /\ \A n \in 1..Len(p) : g[n] = F[<<n, g[n - 1]>>]
  <2> DEFINE none == <<>>
             k == Len(p)
  <2>1. none \in T /\ k \in Nat /\ F \in Steps(k, T)
    BY <1>2, <1>4 DEF Steps
  <2> HIDE DEF none, k
  <2>2. PICK g : g \in Courses(k, T, none, F)
    BY <2>1, StepByStep
  <2>3. QED
    BY <2>2 DEF none, k, Courses
<1>7. \A n \in 1..Len(p) : g[n] = Longer(n, g[n - 1])
  <2>1. ASSUME NEW n \in 1..Len(p)
        PROVE  g[n - 1] \in T
    BY <1>2, <1>6
  <2>2. QED
    BY <1>5, <1>6, <2>1
<1>8. g = Body(g)
  <2>1. \A n \in 0..Len(p) : n = 0 \/ n \in 1..Len(p)
    BY <1>2
  <2>2. \A n \in 0..Len(p) : g[n] = Body(g)[n]
    BY <1>6, <1>7, <2>1 DEF Longer
  <2>3. QED
    BY <2>2, <1>6
<1> HIDE DEF Body
<1>9. to = Body(to)
  BY <1>1, <1>8
<1>10. to[0] = <<>> /\ \A n \in 1..Len(p) : to[n] = Longer(n, to[n - 1])
  <2>1. Body(to)[0] = <<>> /\ \A n \in 1..Len(p) : Body(to)[n] = Longer(n, to[n - 1])
    BY <1>2 DEF Body, Longer
  <2>2. QED
    BY <2>1, <1>9, Zenon
<1> DEFINE S == {n \in 0..Len(p) : to[n] \in T}
<1>11. 0..Len(p) \subseteq S
  <2>1. 0 \in S
    BY <1>2, <1>10
  <2>2. ASSUME NEW n \in 1..Len(p), n - 1 \in S
        PROVE  n \in S
    BY <2>2, <1>2, <1>3, <1>10
  <2> HIDE DEF S
  <2>3. QED
    BY <2>1, <2>2, <1>2, Counting
<1>12. to \in [0..Len(p) -> T]
  BY <1>9, <1>11 DEF Body
<1>13. QED
  BY <1>10, <1>12 DEF to, T, Longer

\* The cleaned path is the normal one: as far as the loops have come, they have the
\* same but for a slash that the first has written and the other leaves out.
LEMMA CleanIsNormal ==
  ASSUME NEW p \in Seq(Letters)
  PROVE  Clean(p) = Normal(p) /\ Normal(p) \in Seq(Letters)
<1> DEFINE to == Without(p, Repeated(p))
           of == Without(p, Idle(p))
           k == Len(p)
<1>1. /\ to \in [0..k -> Seq(Letters)] /\ to[0] = <<>>
      /\ \A n \in 1..k : to[n] = IF n \in Repeated(p) THEN to[n - 1] ELSE Append(to[n - 1], p[n])
  BY WithoutStep
<1>2. /\ of \in [0..k -> Seq(Letters)] /\ of[0] = <<>>
      /\ \A n \in 1..k : of[n] = IF n \in Idle(p) THEN of[n - 1] ELSE Append(of[n - 1], p[n])
  BY WithoutStep
<1>3. Squeeze(p) = to[k] /\ Normal(p) = of[k]
  BY DEF Squeeze, Normal
<1>4. k \in Nat /\ \A n \in 1..k : p[n] \in Letters
  BY LenProperties, ElementOfSeq
<1>5. \A n \in 1..k : (n \in Idle(p)) <=> (p[n] = "/" /\ (n = k \/ p[n + 1] = "/"))
  BY <1>4 DEF Idle
<1>6. \A n \in 1..k : (n \in Repeated(p)) <=> (p[n] = "/" /\ n > 1 /\ p[n - 1] = "/")
  BY <1>4 DEF Repeated
<1> HIDE DEF to, of, k
<1> DEFINE Same(n) == to[n] = IF n \in Idle(p) THEN Append(of[n], "/") ELSE of[n]
           S == {n \in 0..k : Same(n)}
<1>7. 0..k \subseteq S
  <2>1. 0 \in S
    <3>1. 0 \notin Idle(p)
      BY <1>4 DEF Idle
    <3>2. QED
      BY <3>1, <1>1, <1>2, <1>4
  <2>2. ASSUME NEW n \in 1..k, n - 1 \in S
        PROVE  n \in S
    <3>1. /\ to[n] = IF n \in Repeated(p) THEN to[n - 1] ELSE Append(to[n - 1], p[n])
          /\ of[n] = IF n \in Idle(p) THEN of[n - 1] ELSE Append(of[n - 1], p[n])
      BY <1>1, <1>2
    <3>2. Same(n - 1) /\ n - 1 \in 0..k /\ n \in 0..k
      BY <2>2, <1>4
    <3>3. (n - 1 \in Idle(p)) <=> (n \in 2..k /\ p[n - 1] = "/" /\ p[n] = "/")
      <4>1. CASE n = 1
        BY <4>1, <1>4 DEF Idle
      <4>2. CASE n # 1
        <5>1. n - 1 \in 1..k /\ n - 1 # k /\ (n - 1) + 1 = n /\ n \in 2..k
          BY <4>2, <1>4
        <5>2. QED
          BY <5>1, <1>5
      <4>3. QED
        BY <4>1, <4>2
    <3>4. (n \in Repeated(p)) <=> (n - 1 \in Idle(p))
      BY <3>3, <1>4 DEF Repeated, k
    <3>5. n \in Idle(p) => p[n] = "/"
      BY <1>5
    <3>6. CASE n - 1 \in Idle(p)
      <4>1. to[n] = Append(of[n - 1], "/") /\ p[n] = "/"
        BY <3>1, <3>2, <3>3, <3>4, <3>6
      <4>2. QED
        BY <4>1, <3>1, <3>2
    <3>7. CASE n - 1 \notin Idle(p)
      <4>1. to[n] = Append(of[n - 1], p[n])
        BY <3>1, <3>2, <3>4, <3>7
      <4>2. QED
        BY <4>1, <3>1, <3>2, <3>5
    <3>8. QED
      BY <3>6, <3>7
  <2> HIDE DEF S
  <2>3. QED
    BY <2>1, <2>2, <1>4, Counting
<1>8. Same(k) /\ to[k] \in Seq(Letters) /\ of[k] \in Seq(Letters)
  BY <1>1, <1>2, <1>4, <1>7
<1>9. CASE k \in Idle(p)
  <2>1. to[k] = Append(of[k], "/") /\ "/" \in Letters
    BY <1>8, <1>9 DEF Letters
  <2>2. /\ to[k] # <<>> /\ Len(to[k]) = Len(of[k]) + 1 /\ to[k][Len(to[k])] = "/"
        /\ SubSeq(to[k], 1, Len(of[k])) = of[k]
    <3> DEFINE a == to[k]
               b == of[k]
    <3>1. a = Append(b, "/") /\ b \in Seq(Letters) /\ "/" \in Letters
      BY <1>8, <2>1
    <3> HIDE DEF a, b
    <3>2. /\ a \in Seq(Letters) /\ a # <<>> /\ Len(a) = Len(b) + 1 /\ Len(b) \in Nat
          /\ \A i \in 1..Len(b) : a[i] = b[i]
          /\ a[Len(b) + 1] = "/"
      BY <3>1, AppendProperties, LenProperties
    <3>3. \A i \in 1..Len(b) : a[i] \in Letters
      BY <3>1, <3>2, ElementOfSeq
    <3>4. /\ SubSeq(a, 1, Len(b)) \in Seq(Letters)
          /\ Len(SubSeq(a, 1, Len(b))) = IF 1 <= Len(b) THEN Len(b) - 1 + 1 ELSE 0
          /\ \A i \in 1..(Len(b) - 1 + 1) : SubSeq(a, 1, Len(b))[i] = a[1 + i - 1]
      BY <3>2, <3>3, SubSeqProperties
    <3>5. Len(SubSeq(a, 1, Len(b))) = Len(b) /\ \A i \in 1..Len(b) : SubSeq(a, 1, Len(b))[i] = b[i]
      BY <3>2, <3>4
    <3>6. SubSeq(a, 1, Len(b)) = b
      BY <3>1, <3>4, <3>5, SeqEqual
    <3>7. QED
      BY <3>2, <3>6 DEF a, b
  <2>3. Len(to[k]) - 1 = Len(of[k])
    BY <2>2, <1>8, LenProperties
  <2>4. QED
    BY <2>2, <2>3, <1>3, <1>8 DEF Clean
<1>10. CASE k \notin Idle(p)
  <2>1. to[k] = of[k]
    BY <1>8, <1>10
  <2>2. CASE k = 0
    BY <2>2, <2>1, <1>1, <1>3, <1>8 DEF Clean
  <2>3. CASE k # 0
    <3>1. k \in 1..k /\ p[k] # "/" /\ p[k] \in Letters
      BY <2>3, <1>4, <1>5, <1>10
    <3>2. of[k] = Append(of[k - 1], p[k]) /\ of[k - 1] \in Seq(Letters)
      <4>1. k - 1 \in 0..k
        BY <2>3, <1>4
      <4>2. of[k - 1] \in Seq(Letters)
        BY <4>1, <1>2
      <4>3. QED
        BY <4>2, <3>1, <1>2, <1>10
    <3>3. of[k][Len(of[k])] = p[k]
      BY <3>1, <3>2, AppendProperties
    <3>4. QED
      BY <2>1, <3>1, <3>3, <1>3, <1>8 DEF Clean
  <2>4. QED
    BY <2>2, <2>3
<1>11. QED
  BY <1>9, <1>10

\* The last slash, if there is one.
LEMMA LastSlashIsLast ==
  ASSUME NEW c \in Seq(Letters)
  PROVE  /\ LastSlash(c) \in 0..Len(c)
         /\ LastSlash(c) > 0 => c[LastSlash(c)] = "/"
         /\ \A j \in LastSlash(c)+1..Len(c) : c[j] # "/"
<1> DEFINE Last(n, i) == (i > 0 => c[i] = "/") /\ \A j \in i+1..n : c[j] # "/"
           S == {n \in 0..Len(c) : \E i \in 0..n : Last(n, i)}
<1>1. Len(c) \in Nat
  BY LenProperties
<1>2. 0 \in S
  <2>1. 0 \in 0..0 /\ Last(0, 0) /\ 0 \in 0..Len(c)
    BY <1>1
  <2> HIDE DEF Last
  <2>2. QED
    BY <2>1
<1>3. ASSUME NEW n \in 1..Len(c), n - 1 \in S
      PROVE  n \in S
  <2>1. PICK i \in 0..n-1 : Last(n - 1, i)
    BY <1>3
  <2>2. CASE c[n] = "/"
    <3>1. Last(n, n) /\ n \in 0..n
      BY <2>2, <1>1
    <3> HIDE DEF Last
    <3>2. QED
      BY <3>1, <1>1
  <2>3. CASE c[n] # "/"
    <3>1. Last(n, i) /\ i \in 0..n
      BY <2>1, <2>3, <1>1
    <3> HIDE DEF Last
    <3>2. QED
      BY <3>1, <1>1
  <2>4. QED
    BY <2>2, <2>3
<1> HIDE DEF S
<1>4. Len(c) \in S
  <2>1. 0..Len(c) \subseteq S
    BY <1>1, <1>2, <1>3, Counting
  <2>2. QED
    BY <2>1, <1>1
<1>5. PICK i \in 0..Len(c) : Last(Len(c), i)
  BY <1>4 DEF S
<1>6. QED
  BY <1>5 DEF LastSlash

\* A sequence is what comes before a slash, the slash, and what comes after it.
LEMMA SlashJoins ==
  ASSUME NEW c \in Seq(Letters), NEW i \in 1..Len(c), c[i] = "/"
  PROVE  SubSeq(c, 1, i - 1) \o <<"/">> \o SubSeq(c, i + 1, Len(c)) = c
<1> DEFINE k == Len(c)
           before == SubSeq(c, 1, i - 1)
           after == SubSeq(c, i + 1, k)
<1>1. k \in Nat /\ i \in Nat /\ \A j \in 1..k : c[j] \in Letters
  BY LenProperties, ElementOfSeq
<1>2. before \in Seq(Letters) /\ after \in Seq(Letters) /\ <<"/">> \in Seq(Letters)
  <2>1. \A j \in 1..i-1 : c[j] \in Letters
    BY <1>1
  <2>2. \A j \in i+1..k : c[j] \in Letters
    BY <1>1
  <2>3. "/" \in Letters
    BY DEF Letters
  <2>4. i - 1 \in Int /\ i + 1 \in Int /\ 1 \in Int /\ k \in Int
    BY <1>1
  <2>5. before \in Seq(Letters)
    BY <2>1, <2>4, SubSeqProperties
  <2>6. after \in Seq(Letters)
    BY <2>2, <2>4, SubSeqProperties
  <2>7. QED
    BY <2>3, <2>5, <2>6
<1>3. before \o SubSeq(c, i, k) = SubSeq(c, 1, k)
  <2>1. 1 \in 1..k+1 /\ i - 1 \in (1 - 1)..k /\ k \in (i - 1)..k /\ (i - 1) + 1 = i
    BY <1>1
  <2>2. SubSeq(c, 1, i - 1) \o SubSeq(c, (i - 1) + 1, k) = SubSeq(c, 1, k)
    BY <2>1, ConcatAdjacentSubSeq
  <2>3. QED
    BY <2>1, <2>2
<1>4. SubSeq(c, i, k) = <<"/">> \o after
  <2>1. k \in i..k
    BY <1>1
  <2>2. SubSeq(c, i, k) = <<c[i]>> \o after
    BY <2>1, SubSeqRecursiveFirst
  <2>3. QED
    BY <2>2
<1>5. SubSeq(c, 1, k) = c
  BY SubSeqFull
<1> HIDE DEF before, after, k
<1>6. (before \o <<"/">>) \o after = before \o (<<"/">> \o after)
  BY <1>2, ConcatAssociative
<1>7. QED
  BY <1>3, <1>4, <1>5, <1>6 DEF before, after, k

\* The path "." has no slash, cleaned or not.
LEMMA DotIsNormal == Normal(<<".">>) = <<".">>
<1> DEFINE p == <<".">>
           of == Without(p, Idle(p))
<1>1. p \in Seq(Letters) /\ Len(p) = 1 /\ p[1] = "."
  BY DEF Letters
<1>2. 1 \notin Idle(p)
  BY <1>1 DEF Idle
<1> HIDE DEF p
<1>3. of[0] = <<>> /\ \A n \in 1..Len(p) : of[n] = IF n \in Idle(p) THEN of[n - 1] ELSE Append(of[n - 1], p[n])
  BY <1>1, WithoutStep
<1> HIDE DEF of
<1>4. of[1] = Append(<<>>, ".")
  BY <1>1, <1>2, <1>3
<1>5. QED
  BY <1>1, <1>4 DEF Normal, of, p

-----------------------------------------------------------------------------
\* A buffer holds what its function makes of the path, or nothing.
PathInv ==
  /\ path \in Seq(Letters)
  /\ call = 0 => dirBuf = NULL /\ baseBuf = NULL
  /\ dirBuf = NULL \/ dirBuf \in DirNames(path)
  /\ baseBuf = NULL \/ baseBuf = BaseName(path)

\* The program starts with empty buffers.
LEMMA InitPath == PathInit => PathInv
BY EmptySeq DEF PathInit, PathInv

\* A call changes one buffer, and the path stays.
LEMMA NextPath == PathInv /\ [PathNext]_pathVars => PathInv'
<1> SUFFICES ASSUME PathInv, [PathNext]_pathVars
             PROVE  PathInv'
  OBVIOUS
<1>1. CASE PathStarts
  <2>1. path' \in Seq(Letters)
    <3>1. PICK n \in 0..MaxPath : path' \in [1..n -> {"/", ".", "a"}]
      BY <1>1 DEF PathStarts, Paths
    <3>2. QED
      BY <3>1, PathAssumption DEF Letters
  <2>2. QED
    BY <2>1, <1>1 DEF PathStarts, PathInv
<1>2. CASE CallDirname
  BY <1>2 DEF CallDirname, PathInv
<1>3. CASE CallBasename
  BY <1>3 DEF CallBasename, PathInv
<1>4. CASE UNCHANGED pathVars
  BY <1>4 DEF pathVars, PathInv
<1>5. QED
  BY <1>1, <1>2, <1>3, <1>4 DEF PathNext

\* What the buffers hold joins to the path's normal form.
LEMMA NamesJoin == PathInv => NamesJoinBack
<1> SUFFICES ASSUME PathInv, dirBuf # NULL, baseBuf # NULL
             PROVE  IF path \in {<<"/">>, <<".", ".">>}
                      THEN dirBuf \in {path, <<".">>} /\ baseBuf = path
                    ELSE IF \E i \in DOMAIN Normal(path) : Normal(path)[i] = "/"
                      THEN dirBuf \o <<"/">> \o baseBuf = Normal(path)
                    ELSE dirBuf = <<".">> /\ baseBuf = path
  BY DEF NamesJoinBack
<1> DEFINE c == Clean(path)
           i == LastSlash(c)
<1>1. dirBuf \in DirNames(path) /\ baseBuf = BaseName(path) /\ path \in Seq(Letters)
  BY DEF PathInv
<1>2. c = Normal(path) /\ c \in Seq(Letters)
  BY <1>1, CleanIsNormal
<1>3. /\ i \in 0..Len(c) /\ (i > 0 => c[i] = "/") /\ Len(c) \in Nat
      /\ \A j \in i+1..Len(c) : c[j] # "/"
  BY <1>2, LastSlashIsLast, LenProperties
<1>4. DOMAIN c = 1..Len(c)
  BY <1>2, LenProperties
<1>5. CASE path \in {<<"/">>, <<".", ".">>}
  BY <1>1, <1>5 DEF DirNames, BaseName
<1>6. CASE path \notin {<<"/">>, <<".", ".">>} /\ \E j \in DOMAIN c : c[j] = "/"
  <2>1. i > 0
    BY <1>3, <1>4, <1>6
  <2>2. path # <<".">>
    <3>1. SUFFICES ASSUME path = <<".">>
                   PROVE  FALSE
      OBVIOUS
    <3>2. c = <<".">>
      BY <3>1, <1>2, DotIsNormal
    <3>3. QED
      BY <3>2, <1>6
  <2>3. dirBuf = SubSeq(c, 1, i - 1)
    BY <2>1, <1>1, <1>6 DEF DirNames
  <2>4. baseBuf = SubSeq(c, i + 1, Len(c))
    <3>1. ~(path \in {<<"/">>, <<".">>, <<".", ".">>} \/ LastSlash(Clean(path)) = 0)
      BY <2>1, <2>2, <1>3, <1>6
    <3>2. BaseName(path) = SubSeq(c, i + 1, Len(c))
      BY <3>1, Zenon DEF BaseName
    <3>3. QED
      BY <3>2, <1>1
  <2>5. i \in 1..Len(c) /\ c[i] = "/"
    BY <2>1, <1>3
  <2> HIDE DEF c, i
  <2>6. dirBuf \o <<"/">> \o baseBuf = c
    BY <2>3, <2>4, <2>5, <1>2, SlashJoins
  <2>7. QED
    BY <2>6, <1>2, <1>6
<1>7. CASE path \notin {<<"/">>, <<".", ".">>} /\ ~(\E j \in DOMAIN c : c[j] = "/")
  <2>1. i = 0
    BY <1>3, <1>4, <1>7
  <2>2. dirBuf = <<".">> /\ baseBuf = path
    BY <2>1, <1>1, <1>7 DEF DirNames, BaseName
  <2>3. QED
    BY <2>2, <1>2, <1>7
<1>8. QED
  BY <1>5, <1>6, <1>7

-----------------------------------------------------------------------------
(* The theorems.                                                            *)

\* A step of the whole is, for each program, one of its steps or none.
LEMMA StepOfOne ==
  ASSUME [Next /\ UNCHANGED program]_vars
  PROVE  /\ [ProbeNext]_probeVars /\ [MonitorNext]_monitorVars
         /\ [AppendNext]_appendVars /\ [HelperNext]_helperVars
         /\ [SignalNext]_signalVars /\ [JoinNext]_joinVars
         /\ [FlockNext]_flockVars /\ [PipeNext]_pipeVars /\ [SyncNext]_syncVars
         /\ [PathNext]_pathVars
<1>1. CASE Next
  BY <1>1 DEF Next
<1>2. CASE UNCHANGED vars
  BY <1>2 DEF vars
<1>3. QED
  BY <1>1, <1>2

\* practice/55.4: whatever the two locks are, the program reports that one is
\* taken only if they conflict, or if the second, which a process that goes on
\* asks for again, excludes itself.
THEOREM RefusalsExplained == Spec => []ReportsAreExplained
<1>1. Init => ProbeInv
  BY InitProbe DEF Init
<1>2. ProbeInv /\ [Next /\ UNCHANGED program]_vars => ProbeInv'
  BY StepOfOne, NextProbe
<1>3. ProbeInv => ReportsAreExplained
  BY DEF ProbeInv
<1>4. QED
  BY <1>1, <1>2, <1>3, PTL DEF Spec

\* practice/5.3: for files and counts of any length, no byte is lost between
\* two processes that append with O_APPEND, and a process that seeks never
\* overwrites the old file or its own bytes.
THEOREM AppendsSurvive == Spec => []AppendsAreKept
<1>1. Init => AppendInv
  BY InitAppend DEF Init
<1>2. AppendInv /\ [Next /\ UNCHANGED program]_vars => AppendInv'
  BY StepOfOne, NextAppend
<1>3. AppendInv => AppendsAreKept
  <2> SUFFICES ASSUME AppendInv
               PROVE  AppendsAreKept
    OBVIOUS
  <2>1. \A w \in Writers : length - oldLength >= written[w]
    BY DEF AppendInv
  <2>2. length - oldLength <= written["one"] + written["two"]
    BY DEF AppendInv, Writers
  <2>3. ASSUME {w \in Writers : uselseek[w]} = {}
        PROVE  length - oldLength = written["one"] + written["two"]
    <3>1. ~uselseek["one"] /\ ~uselseek["two"]
      BY <2>3 DEF Writers
    <3>2. QED
      BY <3>1 DEF AppendInv, Writers
  <2>4. QED
    BY <2>1, <2>2, <2>3 DEF AppendsAreKept
<1>4. QED
  BY <1>1, <1>2, <1>3, PTL DEF Spec

\* practice/19.1: for a table of any size and any number of changes, the
\* monitor dies only of a name that has gone, reads a wrong entry only after
\* its own removal code or with a full table, and has listed every file of a
\* watched directory when nothing has gone and no event waits.
THEOREM WatchesListed == Spec => []MonitorKnowsItsWatches
<1>1. Init => MonitorInv
  BY InitMonitor DEF Init
<1>2. MonitorInv /\ [Next /\ UNCHANGED program]_vars => MonitorInv'
  BY StepOfOne, NextMonitor
<1>3. MonitorInv => MonitorKnowsItsWatches
  <2> SUFFICES ASSUME MonitorInv
               PROVE  MonitorKnowsItsWatches
    OBVIOUS
  <2>1. ASSUME monPc = "read", calm, queue = <<>>, NEW o \in tree \cap Moveable,
               wdOf[DirOf[o]] # 0
        PROVE  Listed(o)
    <3>1. Reported(o) /\ toWalk = {}
      BY <2>1 DEF MonitorInv, Working, FilesReported
    <3>2. \A e : ~Waiting(queue, e)
      BY <2>1, NothingWaits
    <3>3. QED
      BY <3>1, <3>2 DEF Reported
  <2>2. QED
    BY <2>1 DEF MonitorInv, MonitorKnowsItsWatches, Listed
<1>4. QED
  BY <1>1, <1>2, <1>3, PTL DEF Spec

\* common/inet_sockets.c: however many addresses a host has, -1 leaves no socket
\* open but the one whose listen() failed, and a client's socket is connected: the
\* safety half of HelpersLeaveNothingOpen.  What a passive helper returns is
\* listening or bound but for one case, the one in which ReturnsASocket is
\* violated: it is closed after the only address was refused.
THEOREM HelpersReturnRight == Spec => [](ConnectedOrClosed /\ NothingLeftOpen)
<1>1. Init => HelperInv
  BY InitHelper DEF Init
<1>2. HelperInv /\ [Next /\ UNCHANGED program]_vars => HelperInv'
  BY StepOfOne, NextHelper
<1>3. HelperInv => ConnectedOrClosed /\ NothingLeftOpen
  BY DEF HelperInv
<1>4. QED
  BY <1>1, <1>2, <1>3, PTL DEF Spec

\* practice/20.1 and routines/22.3: however often the signals are sent, and
\* however they are blocked, merged and nested, a receiver that has ended has
\* counted every realtime signal once, of a standard one at least one and at
\* most all, and its total is off only downwards: the safety half of
\* StopIsHeeded.
THEOREM SignalsAreCounted == Spec => [](recvPc = "ended" => CountsRight)
<1>1. Init => SignalInv
  BY InitSignal DEF Init
<1>2. SignalInv /\ [Next /\ UNCHANGED program]_vars => SignalInv'
  BY StepOfOne, NextSignal
<1>3. SignalInv => (recvPc = "ended" => CountsRight)
  <2> SUFFICES ASSUME SignalInv, recvPc = "ended"
               PROVE  CountsRight
    OBVIOUS
  <2>1. \A s \in Signals : ~Sits(frames, s) /\ pend[s] = 0 /\ caught[s] \in Nat
    BY DEF SignalInv, SignalTypes, Sits
  <2>2. Seen("RT") = caught["RT"] /\ Seen("USR") = caught["USR"]
    BY <2>1, TheSignals DEF Seen
  <2>3. receiver = "22.3" => TotalIsLow /\ receiver # "20.1"
    BY DEF SignalInv
  <2>4. QED
    BY <2>2, <2>3 DEF SignalInv, TotalIsLow, AllCaught, CountsRight
<1>4. QED
  BY <1>1, <1>2, <1>3, PTL DEF Spec

\* routines/30.4: however many threads there are, the count under the mutex is
\* the number of those that have been through it, the marks they leave under
\* the numbers read from a moving i are never more, and main ends only without
\* threads: the safety half of WakesUpAndHangs.
THEOREM FinishedThreadsCounted == Spec => []FinishedAreCounted
<1>1. Init => JoinInv
  BY InitJoin DEF Init
<1>2. JoinInv /\ [Next /\ UNCHANGED program]_vars => JoinInv'
  BY StepOfOne, NextJoin
<1>3. JoinInv => FinishedAreCounted
  BY DEF JoinInv
<1>4. QED
  BY <1>1, <1>2, <1>3, PTL DEF Spec

\* practice/55.2: after the fork, when neither process can take a lock or
\* exit, both have ended or each waits for the other: the safety half of
\* FlockEndsOrCircle.
THEOREM StuckOnlyInACircle == Spec => []StuckInACircle
<1>1. Init => FlockInv
  BY InitFlock DEF Init
<1>2. FlockInv /\ [Next /\ UNCHANGED program]_vars => FlockInv'
  BY StepOfOne, NextFlock
<1>3. FlockInv => StuckInACircle
  BY StuckFlock
<1>4. QED
  BY <1>1, <1>2, <1>3, PTL DEF Spec

\* practice/44.1: a parent that has come to its end has the five answers in
\* their order, whoever may be killed when.  practice/26.4: while the parent is
\* in sigsuspend() its child has still to send the signal or it is pending, and
\* what was sent SIGKILL is a zombie.  The safety half of PairsEnd.
THEOREM PairsKeepTheirWord == Spec => [](AnswersInOrder /\ SignalKept /\ ZombieAtEnd)
<1>1. Init => PipeInv /\ SignalKept /\ ZombieAtEnd
  BY InitPipe, InitSync DEF Init
<1>2. PipeInv /\ [Next /\ UNCHANGED program]_vars => PipeInv'
  BY StepOfOne, NextPipe
<1>3. SignalKept /\ ZombieAtEnd /\ [Next /\ UNCHANGED program]_vars => SignalKept' /\ ZombieAtEnd'
  BY StepOfOne, NextSync
<1>4. PipeInv => AnswersInOrder
  <2> SUFFICES ASSUME PipeInv, pipePc["parent"] = "ended"
               PROVE  answers = <<0, 1, 2, 3, 4>>
    BY DEF AnswersInOrder
  <2>1. answers = Told(5)
    BY DEF PipeInv
  <2>2. Told(5) \in Seq(Int) /\ Len(Told(5)) = 5
    BY DEF Told
  <2>3. Told(5)[1] = 0 /\ Told(5)[2] = 1 /\ Told(5)[3] = 2 /\ Told(5)[4] = 3 /\ Told(5)[5] = 4
    BY DEF Told
  <2>4. <<0, 1, 2, 3, 4>> \in Seq(Int) /\ Len(<<0, 1, 2, 3, 4>>) = 5
    OBVIOUS
  <2>5. \A i \in 1..5 : Told(5)[i] = <<0, 1, 2, 3, 4>>[i]
    <3>1. 1..5 = {1, 2, 3, 4, 5}
      OBVIOUS
    <3>2. QED
      BY <2>3, <3>1
  <2>6. QED
    BY <2>1, <2>2, <2>4, <2>5
<1>5. QED
  BY <1>1, <1>2, <1>3, <1>4, PTL DEF Spec

\* practice/31.2: for a path of any length, what the two buffers hold makes up the
\* path in its normal form, whichever was written last.
THEOREM NamesMakeThePath == Spec => []NamesJoinBack
<1>1. Init => PathInv
  BY InitPath DEF Init
<1>2. PathInv /\ [Next /\ UNCHANGED program]_vars => PathInv'
  BY StepOfOne, NextPath
<1>3. QED
  BY <1>1, <1>2, NamesJoin, PTL DEF Spec

-----------------------------------------------------------------------------
(* Alien Invasion: a fleet that goes to the right is not past the left edge, *)
(* and the other way round.                                                 *)

GameFields == {"active", "ships", "level", "x", "bullets", "alive", "dx", "dy", "dir"}

GameTypes ==
  /\ DOMAIN game = GameFields /\ screen \in {Window, Full}
  /\ game.ships \in 0..ShipLimit /\ game.level \in 0..MaxLevel

\* Going to the right, an alien of g is not past the left edge; what it may be past
\* the right one is a step.  Likewise to the left.
Inside(g, s) ==
  /\ g.dir \in {1, -1} /\ g.dx \in Int /\ g.alive \subseteq Nat \X Nat
  /\ \A a \in g.alive :
       /\ AlienX(g, a) > IF g.dir = 1 THEN 0 ELSE -Speed(AlienSpeed, g.level)
       /\ AlienX(g, a) + Unit * AlienW
            < Unit * s.w + (IF g.dir = 1 THEN Speed(AlienSpeed, g.level) ELSE 0)

GameInv == GameTypes /\ Inside(game, screen)

\* Multiplication with a positive number keeps the order.
LEMMA TimesKeepsOrder ==
  ASSUME NEW u \in Nat \ {0}, NEW m \in Int, NEW n \in Int, m < n
  PROVE  u * m < u * n
<1>1. PICK d \in Nat \ {0} : n = m + d
  <2>1. n - m \in Nat \ {0} /\ n = m + (n - m)
    OBVIOUS
  <2>2. QED
    BY <2>1
<1>2. u * n = u * m + u * d /\ u * d > 0 /\ u * m \in Int
  BY <1>1
<1>3. QED
  BY <1>1, <1>2

\* What the assumption says of sizes and speeds.
LEMMA Units ==
  /\ Unit \in Nat \ {0}
  /\ \A l \in 0..MaxLevel : Speed(AlienSpeed, l) \in Nat \ {0}
<1>1. Scale[0] \in Nat \ {0} /\ Unit = 10 * Scale[0]
  BY GameAssumption DEF Unit
<1>2. ASSUME NEW l \in 0..MaxLevel
      PROVE  Speed(AlienSpeed, l) \in Nat \ {0}
  <2>1. Scale[l] \in Nat \ {0} /\ AlienSpeed \in Nat \ {0}
    BY GameAssumption
  <2>2. AlienSpeed * Scale[l] \in Nat \ {0}
    BY <2>1
  <2>3. QED
    BY <2>2 DEF Speed
<1>3. QED
  BY <1>1, <1>2

\* A place of a new fleet: room for one more alien on either side, and none at the
\* bottom.
LEMMA FleetPlaces ==
  ASSUME NEW s \in {Window, Full}, NEW a \in Fleet(s)
  PROVE  /\ a \in Nat \X Nat
         /\ AlienW + 2 * AlienW * a[1] > 0
         /\ 2 * AlienW + 2 * AlienW * a[1] < s.w
         /\ 2 * AlienH + 2 * AlienH * a[2] < s.h
<1>1. /\ s.w \in Nat /\ s.h \in Nat
      /\ AlienW \in Nat \ {0} /\ AlienH \in Nat \ {0} /\ ShipH \in Nat \ {0}
  BY GameAssumption
<1>2. /\ a \in (0..NumberX(s) - 1) \X (0..NumberRows(s) - 1)
      /\ a[1] \in 0..NumberX(s) - 1 /\ a[2] \in 0..NumberRows(s) - 1
  BY DEF Fleet
<1>3. ASSUME NEW size \in Nat \ {0}, NEW room \in Int, NEW k \in 0..(room \div size) - 1
      PROVE  k \in Nat /\ size * k + size <= room
  <2>1. room \div size \in Int /\ size * (room \div size) <= room
    BY <1>3
  <2>2. k \in Nat /\ (k + 1 = room \div size \/ k + 1 < room \div size)
    BY <2>1
  <2>3. size * (k + 1) <= size * (room \div size)
    <3>1. CASE k + 1 = room \div size
      BY <3>1, <2>1
    <3>2. CASE k + 1 < room \div size
      BY <3>2, <2>1, <2>2, TimesKeepsOrder
    <3>3. QED
      BY <2>2, <3>1, <3>2
  <2>4. size * (k + 1) = size * k + size
    BY <2>2
  <2>5. QED
    BY <2>1, <2>2, <2>3, <2>4
<1>4. 2 * AlienW \in Nat \ {0} /\ 2 * AlienH \in Nat \ {0}
      /\ s.w - 2 * AlienW \in Int /\ s.h - 3 * AlienH - ShipH \in Int
  BY <1>1
<1>5. a[1] \in Nat /\ 2 * AlienW * a[1] + 2 * AlienW <= s.w - 2 * AlienW
  BY <1>2, <1>3, <1>4 DEF NumberX
<1>6. a[2] \in Nat /\ 2 * AlienH * a[2] + 2 * AlienH <= s.h - 3 * AlienH - ShipH
  BY <1>2, <1>3, <1>4 DEF NumberRows
<1>7. 2 * AlienW * a[1] \in Nat /\ 2 * AlienH * a[2] \in Nat
  BY <1>4, <1>5, <1>6
<1>8. QED
  BY <1>1, <1>2, <1>5, <1>6, <1>7

\* A new fleet is inside, whichever way it goes, and clear of the bottom.
LEMMA NewFleet ==
  ASSUME NEW s \in {Window, Full}, NEW g, DOMAIN g = GameFields, g.alive = Fleet(s),
         g.dx = 0, g.dy = 0, g.dir \in {1, -1}, g.level \in 0..MaxLevel
  PROVE  Inside(g, s) /\ \A a \in g.alive : ~(AlienTop(g, a) + AlienH >= s.h)
<1>1. ASSUME NEW a \in g.alive
      PROVE  /\ a \in Nat \X Nat
             /\ AlienX(g, a) > 0 /\ AlienX(g, a) + Unit * AlienW < Unit * s.w
             /\ AlienTop(g, a) + AlienH < s.h
  <2> DEFINE q == 2 * AlienW * a[1]
             r == 2 * AlienH * a[2]
  <2>1. /\ a \in Nat \X Nat /\ AlienW + q > 0 /\ 2 * AlienW + q < s.w
        /\ 2 * AlienH + r < s.h
    BY FleetPlaces
  <2>2. /\ AlienW \in Nat /\ AlienH \in Nat /\ q \in Nat /\ r \in Nat /\ s.w \in Nat
    <3>1. /\ AlienW \in Nat /\ AlienH \in Nat /\ s.w \in Nat
      BY GameAssumption
    <3>2. a[1] \in Nat /\ a[2] \in Nat
      BY <2>1
    <3>3. QED
      BY <3>1, <3>2
  <2>3. AlienX(g, a) = Unit * (AlienW + q) + 0 /\ AlienTop(g, a) = AlienH + r + 0
    BY DEF AlienX, AlienTop
  <2> HIDE DEF q, r
  <2>4. Unit * 0 < Unit * (AlienW + q) /\ Unit * (2 * AlienW + q) < Unit * s.w
    BY <2>1, <2>2, Units, TimesKeepsOrder
  <2>5. /\ Unit * 0 = 0 /\ Unit * (AlienW + q) \in Int
        /\ Unit * (2 * AlienW + q) = Unit * (AlienW + q) + Unit * AlienW
    BY <2>2, Units
  <2>6. QED
    BY <2>1, <2>2, <2>3, <2>4, <2>5
<1>2. Speed(AlienSpeed, g.level) \in Nat \ {0} /\ s.w \in Nat /\ s.h \in Nat /\ Unit \in Nat
      /\ AlienW \in Nat
  BY Units, GameAssumption
<1>3. Unit * s.w \in Int /\ Unit * AlienW \in Int
  BY <1>2
<1>4. ASSUME NEW a \in g.alive
      PROVE  AlienX(g, a) \in Int /\ AlienTop(g, a) + AlienH \in Int
  <2>1. a \in Nat \X Nat
    BY <1>1
  <2>2. /\ 2 * AlienW * a[1] \in Int /\ 2 * AlienH * a[2] \in Int /\ AlienH \in Int
    <3>1. AlienW \in Nat /\ AlienH \in Nat
      BY GameAssumption
    <3>2. a[1] \in Nat /\ a[2] \in Nat
      BY <2>1
    <3>3. QED
      BY <3>1, <3>2
  <2>3. Unit * (AlienW + 2 * AlienW * a[1]) \in Int
    BY <2>2, <1>2
  <2>4. QED
    BY <2>2, <2>3 DEF AlienX, AlienTop
<1>5. QED
  BY <1>1, <1>2, <1>3, <1>4 DEF Inside

-----------------------------------------------------------------------------
\* An alien that is at no edge is a pixel away from both.
LEMMA NotAtEdge ==
  ASSUME NEW x \in Int, NEW w \in Nat, NEW size \in Nat \ {0},
         ~(Pixel(x) + size >= w \/ Pixel(x) <= 0)
  PROVE  x >= Unit /\ x + Unit * size < Unit * w
<1>1. Unit \in Nat \ {0}
  BY Units
<1>2. x >= 0
  <2>1. SUFFICES ASSUME x < 0
                 PROVE  FALSE
    OBVIOUS
  <2>2. -x \in Nat /\ (-x) \div Unit \in Nat
    BY <1>1, <2>1
  <2>3. Pixel(x) = -((-x) \div Unit)
    BY <2>1 DEF Pixel
  <2>4. QED
    BY <2>2, <2>3
<1> DEFINE k == x \div Unit
<1>3. k = Pixel(x)
  BY <1>2 DEF Pixel
<1>4. k \in Int /\ Unit * k <= x /\ x < Unit * k + Unit
  BY <1>1, <1>2
<1>5. k > 0 /\ k + size < w
  BY <1>3, <1>4
<1> HIDE DEF k
<1>6. Unit * k >= Unit
  <2>1. CASE k = 1
    BY <2>1, <1>1
  <2>2. CASE 1 < k
    BY <2>2, <1>1, <1>4, TimesKeepsOrder
  <2>3. QED
    BY <2>1, <2>2, <1>4, <1>5
<1>7. Unit * (k + size + 1) <= Unit * w
  <2>1. CASE k + size + 1 = w
    BY <2>1, <1>1
  <2>2. CASE k + size + 1 < w
    BY <2>2, <1>1, <1>4, TimesKeepsOrder
  <2>3. QED
    BY <2>1, <2>2, <1>4, <1>5
<1>8. Unit * (k + size + 1) = Unit * k + Unit * size + Unit /\ Unit * k \in Int
      /\ Unit * size \in Int /\ Unit * w \in Int
  BY <1>1, <1>4
<1>9. QED
  BY <1>1, <1>4, <1>6, <1>7, <1>8

\* A step of the fleet, which turns first where an alien is at an edge, leaves it
\* inside.
LEMMA StepInside ==
  ASSUME NEW s \in {Window, Full}, screen = s, NEW g, DOMAIN g = GameFields,
         g.level \in 0..MaxLevel, Inside(g, s)
  PROVE  Inside(MoveFleet(CheckEdges(g)), s)
<1> DEFINE h == CheckEdges(g)
           m == MoveFleet(h)
           v == Speed(AlienSpeed, g.level)
<1>1. /\ DOMAIN h = GameFields /\ h.level = g.level /\ h.dx = g.dx /\ h.alive = g.alive
      /\ h.dir = IF \E a \in g.alive : AtEdge(g, a) THEN -g.dir ELSE g.dir
  BY DEF CheckEdges, GameFields
<1>2. /\ m.level = g.level /\ m.alive = g.alive /\ m.dir = h.dir /\ m.dx = g.dx + v * h.dir
  BY <1>1 DEF MoveFleet, GameFields
<1>3. /\ v \in Nat \ {0} /\ Unit \in Nat \ {0} /\ AlienW \in Nat \ {0} /\ s.w \in Nat
      /\ g.dir \in {1, -1} /\ g.dx \in Int /\ g.alive \subseteq Nat \X Nat
  BY Units, GameAssumption DEF Inside
<1>4. h.dir \in {1, -1} /\ v * h.dir = IF h.dir = 1 THEN v ELSE -v
  BY <1>1, <1>3
<1>5. Unit * AlienW \in Int /\ Unit * s.w \in Int
  BY <1>3
<1>6. ASSUME NEW a \in g.alive
      PROVE  /\ AlienX(m, a) > IF m.dir = 1 THEN 0 ELSE -v
             /\ AlienX(m, a) + Unit * AlienW < Unit * s.w + (IF m.dir = 1 THEN v ELSE 0)
  <2>1. AlienX(g, a) \in Int
    <3>1. a[1] \in Nat
      BY <1>3
    <3>2. 2 * AlienW * a[1] \in Nat
      BY <1>3, <3>1
    <3>3. Unit * (AlienW + 2 * AlienW * a[1]) \in Int
      BY <1>3, <3>2
    <3>4. QED
      BY <1>3, <3>3 DEF AlienX
  <2>2. AlienX(m, a) = AlienX(g, a) + v * h.dir
    <3>1. Unit * (AlienW + 2 * AlienW * a[1]) \in Int
      <4>1. a[1] \in Nat
        BY <1>3
      <4>2. 2 * AlienW * a[1] \in Nat
        BY <1>3, <4>1
      <4>3. QED
        BY <1>3, <4>2
    <3>2. QED
      BY <3>1, <1>2, <1>3, <1>4 DEF AlienX
  <2>3. /\ AlienX(g, a) > IF g.dir = 1 THEN 0 ELSE -v
        /\ AlienX(g, a) + Unit * AlienW < Unit * s.w + (IF g.dir = 1 THEN v ELSE 0)
    BY DEF Inside
  <2> HIDE DEF h, m, v
  <2>4. CASE h.dir = -g.dir
    BY <2>4, <2>1, <2>2, <2>3, <1>2, <1>3, <1>4, <1>5
  <2>5. CASE ~(\E b \in g.alive : AtEdge(g, b))
    <3>1. ~AtEdge(g, a) /\ h.dir = g.dir
      BY <2>5, <1>1
    <3>2. AlienX(g, a) >= Unit /\ AlienX(g, a) + Unit * AlienW < Unit * s.w
      BY <3>1, <2>1, <1>3, NotAtEdge DEF AtEdge, AlienLeft
    <3>3. QED
      BY <3>1, <3>2, <2>1, <2>2, <1>2, <1>3, <1>4, <1>5
  <2>6. QED
    BY <2>4, <2>5, <1>1
<1>7. v = Speed(AlienSpeed, m.level)
  BY <1>2
<1> HIDE DEF h, v
<1>8. m.dx \in Int /\ m.dir \in {1, -1} /\ m.alive \subseteq Nat \X Nat
  BY <1>2, <1>3, <1>4
<1> HIDE DEF m
<1>9. Inside(m, s)
  BY <1>2, <1>6, <1>7, <1>8 DEF Inside
<1>10. QED
  BY <1>9 DEF m, h

-----------------------------------------------------------------------------
\* A new fleet in place of the old one.
LEMMA Created ==
  ASSUME NEW g, DOMAIN g = GameFields, NEW s \in {Window, Full}, screen = s
  PROVE  LET f == CreateFleet(g) IN
         /\ DOMAIN f = GameFields /\ f.alive = Fleet(s) /\ f.dx = 0 /\ f.dy = 0
         /\ f.dir = g.dir /\ f.level = g.level /\ f.ships = g.ships /\ f.active = g.active
BY DEF CreateFleet, GameFields

\* A hit costs a ship and brings a new fleet, or ends the game.
LEMMA Hit ==
  ASSUME NEW g, DOMAIN g = GameFields, NEW s \in {Window, Full}, screen = s,
         g.ships \in 0..ShipLimit, g.level \in 0..MaxLevel, Inside(g, s)
  PROVE  LET f == ShipHit(g) IN
         /\ DOMAIN f = GameFields /\ f.level = g.level /\ Inside(f, s)
         /\ \/ /\ g.ships > 0 /\ f.ships = g.ships - 1 /\ f.active = g.active
               /\ \A a \in f.alive : ~(AlienTop(f, a) + AlienH >= s.h)
            \/ g.ships = 0 /\ f.ships = 0 /\ f.active = "no"
<1> DEFINE f == ShipHit(g)
<1>1. CASE g.ships > 0
  <2>1. /\ DOMAIN f = GameFields /\ f.alive = Fleet(s) /\ f.dx = 0 /\ f.dy = 0
        /\ f.dir = g.dir /\ f.level = g.level /\ f.ships = g.ships - 1
        /\ f.active = g.active
    BY <1>1 DEF ShipHit, CreateFleet, GameFields
  <2>2. g.dir \in {1, -1}
    BY DEF Inside
  <2> HIDE DEF f
  <2>3. Inside(f, s) /\ \A a \in f.alive : ~(AlienTop(f, a) + AlienH >= s.h)
    BY <2>1, <2>2, NewFleet
  <2>4. QED
    BY <2>1, <2>3, <1>1 DEF f
<1>2. CASE ~(g.ships > 0)
  <2>1. /\ DOMAIN f = GameFields /\ f.alive = g.alive /\ f.dx = g.dx
        /\ f.dir = g.dir /\ f.level = g.level /\ f.ships = g.ships /\ f.active = "no"
    BY <1>2 DEF ShipHit, GameFields
  <2>2. Inside(f, s)
    <3> HIDE DEF f
    <3>1. \A a : AlienX(f, a) = AlienX(g, a)
      BY <2>1 DEF AlienX
    <3>2. QED
      BY <2>1, <3>1 DEF Inside
  <2>3. QED
    BY <2>1, <2>2, <1>2
<1>3. QED
  BY <1>1, <1>2

\* After the collisions: what is left of the fleet, or a new and faster one.
LEMMA Collided ==
  ASSUME NEW g, DOMAIN g = GameFields, NEW s \in {Window, Full}, screen = s,
         g.level \in 0..MaxLevel, Inside(g, s)
  PROVE  LET f == CheckCollisions(g) IN
         /\ DOMAIN f = GameFields /\ f.level \in 0..MaxLevel /\ Inside(f, s)
         /\ f.ships = g.ships /\ f.active = g.active
<1> DEFINE f == CheckCollisions(g)
           h == Shoot(g)
<1>1. /\ DOMAIN h = GameFields /\ h.alive \subseteq g.alive /\ h.dx = g.dx /\ h.dir = g.dir
      /\ h.level = g.level /\ h.ships = g.ships /\ h.active = g.active
  BY DEF Shoot, GameFields
<1> HIDE DEF h
<1>2. CASE h.alive # {}
  <2>1. f = h
    BY <1>2 DEF CheckCollisions, h
  <2> HIDE DEF f
  <2>2. \A a : AlienX(h, a) = AlienX(g, a)
    BY <1>1 DEF AlienX
  <2>3. Inside(h, s)
    BY <1>1, <2>2 DEF Inside
  <2>4. QED
    BY <1>1, <2>1, <2>3 DEF f
<1>3. CASE h.alive = {}
  <2>1. f = [CreateFleet(h) EXCEPT !.bullets = <<>>,
               !.level = IF @ < MaxLevel THEN @ + 1 ELSE @]
    BY <1>3 DEF CheckCollisions, h
  <2> HIDE DEF f
  <2>2. /\ DOMAIN f = GameFields /\ f.alive = Fleet(s) /\ f.dx = 0 /\ f.dy = 0
        /\ f.dir = h.dir /\ f.ships = h.ships /\ f.active = h.active
        /\ f.level = IF h.level < MaxLevel THEN h.level + 1 ELSE h.level
    <3>1. /\ DOMAIN CreateFleet(h) = GameFields /\ CreateFleet(h).alive = Fleet(s)
          /\ CreateFleet(h).dx = 0 /\ CreateFleet(h).dy = 0 /\ CreateFleet(h).dir = h.dir
          /\ CreateFleet(h).level = h.level
          /\ CreateFleet(h).ships = h.ships /\ CreateFleet(h).active = h.active
      BY <1>1, Created
    <3>2. QED
      BY <2>1, <3>1 DEF GameFields
  <2>3. f.level \in 0..MaxLevel /\ f.dir \in {1, -1}
    <3>1. MaxLevel \in Nat
      BY GameAssumption
    <3>2. h.level \in 0..MaxLevel /\ h.dir \in {1, -1}
      BY <1>1 DEF Inside
    <3>3. QED
      BY <2>2, <3>1, <3>2
  <2>4. Inside(f, s)
    BY <2>2, <2>3, NewFleet
  <2>5. QED
    BY <1>1, <2>2, <2>3, <2>4 DEF f
<1>4. QED
  BY <1>2, <1>3

\* Ship and bullets do not touch the fleet.
LEMMA Moved ==
  ASSUME NEW g, DOMAIN g = GameFields, NEW s \in {Window, Full}, Inside(g, s)
  PROVE  LET f == MoveBullets(MoveShip(g)) IN
         /\ DOMAIN f = GameFields /\ f.level = g.level /\ Inside(f, s)
         /\ f.ships = g.ships /\ f.active = g.active
<1> DEFINE f == MoveBullets(MoveShip(g))
<1>1. /\ DOMAIN MoveShip(g) = GameFields /\ MoveShip(g).level = g.level
      /\ MoveShip(g).alive = g.alive /\ MoveShip(g).dx = g.dx /\ MoveShip(g).dir = g.dir
      /\ MoveShip(g).ships = g.ships /\ MoveShip(g).active = g.active
  BY DEF MoveShip, GameFields
<1>2. /\ DOMAIN f = GameFields /\ f.level = g.level
      /\ f.alive = g.alive /\ f.dx = g.dx /\ f.dir = g.dir
      /\ f.ships = g.ships /\ f.active = g.active
  BY <1>1 DEF MoveBullets, GameFields
<1> HIDE DEF f
<1>3. \A a : AlienX(f, a) = AlienX(g, a)
  BY <1>2 DEF AlienX
<1>4. Inside(f, s)
  BY <1>2, <1>3 DEF Inside
<1>5. QED
  BY <1>2, <1>4 DEF f

\* What a frame does to a game g that is on.
LEMMA FrameKeeps ==
  ASSUME GameInv, Frame
  PROVE  /\ GameInv'
         /\ game.ships - game'.ships <= 1
         /\ (game.active = "yes" /\ game'.active = "no" => game.ships = 0)
<1> DEFINE flown == MoveBullets(MoveShip(game))
           shot == CheckCollisions(flown)
           moved == MoveFleet(CheckEdges(shot))
           checked == CheckShip(moved)
<1>1. game' = CheckBottom(checked) /\ screen' = screen /\ game.active = "yes"
  BY DEF Frame
<1>2. PICK s \in {Window, Full} : screen = s
  BY DEF GameInv, GameTypes
<1>3. /\ DOMAIN game = GameFields /\ game.ships \in 0..ShipLimit /\ game.level \in 0..MaxLevel
      /\ Inside(game, s) /\ ShipLimit \in Nat
  BY <1>2, GameAssumption DEF GameInv, GameTypes
<1>4. /\ DOMAIN flown = GameFields /\ flown.level = game.level /\ Inside(flown, s)
      /\ flown.ships = game.ships /\ flown.active = game.active
  BY <1>3, Moved
<1> HIDE DEF flown
<1>5. /\ DOMAIN shot = GameFields /\ shot.level \in 0..MaxLevel /\ Inside(shot, s)
      /\ shot.ships = game.ships /\ shot.active = game.active
  BY <1>2, <1>3, <1>4, Collided
<1> HIDE DEF shot
<1>6. /\ DOMAIN moved = GameFields /\ moved.level = shot.level
      /\ moved.ships = game.ships /\ moved.active = game.active
  BY <1>5 DEF MoveFleet, CheckEdges, GameFields
<1>7. Inside(moved, s)
  BY <1>2, <1>5, StepInside
<1> HIDE DEF moved
<1>g. ASSUME DOMAIN game' = GameFields, Inside(game', s), game'.level \in 0..MaxLevel,
              game'.ships \in 0..ShipLimit
      PROVE  GameInv'
  BY <1>g, <1>1, <1>2 DEF GameInv, GameTypes
<1>8. CASE checked = ShipHit(moved)
  <2>1. /\ DOMAIN checked = GameFields /\ checked.level = moved.level /\ Inside(checked, s)
        /\ \/ /\ moved.ships > 0 /\ checked.ships = moved.ships - 1
              /\ checked.active = moved.active
              /\ \A a \in checked.alive : ~(AlienTop(checked, a) + AlienH >= s.h)
           \/ moved.ships = 0 /\ checked.ships = 0 /\ checked.active = "no"
    BY <1>2, <1>3, <1>5, <1>6, <1>7, <1>8, Hit
  <2> HIDE DEF checked
  <2>2. CASE game' = checked
    <3>1. moved.ships \in 0..ShipLimit /\ game'.ships \in 0..ShipLimit
      BY <2>1, <2>2, <1>3, <1>6
    <3>2. GameInv'
      BY <3>1, <2>1, <2>2, <1>5, <1>6, <1>g
    <3>3. game.ships - game'.ships <= 1
      BY <3>1, <2>1, <2>2, <1>3, <1>6
    <3>4. game'.active = "no" => game.ships = 0
      BY <2>1, <2>2, <1>1, <1>6
    <3>5. QED
      BY <3>2, <3>3, <3>4
  <2>3. CASE game' = ShipHit(checked) /\ moved.ships = 0 /\ checked.ships = 0
    <3>1. /\ DOMAIN game' = GameFields /\ game'.level = checked.level /\ Inside(game', s)
          /\ game'.ships = 0 /\ game'.active = "no"
      BY <2>1, <2>3, <1>2, <1>3, <1>5, <1>6, Hit
    <3>2. GameInv'
      BY <3>1, <2>1, <1>3, <1>5, <1>6, <1>g
    <3>3. QED
      BY <3>1, <3>2, <2>3, <1>3, <1>6
  <2>4. QED
    BY <2>1, <2>2, <2>3, <1>1, <1>2 DEF CheckBottom
<1>9. CASE checked = moved
  <2>1. CASE game' = checked
    <3>1. GameInv'
      BY <2>1, <1>9, <1>3, <1>5, <1>6, <1>7, <1>g
    <3>2. game.ships - game'.ships <= 1
      BY <2>1, <1>9, <1>3, <1>6
    <3>3. game'.active = "yes"
      BY <2>1, <1>9, <1>1, <1>6
    <3>4. QED
      BY <3>1, <3>2, <3>3
  <2>2. CASE game' = ShipHit(checked)
    <3>1. /\ DOMAIN game' = GameFields /\ game'.level = moved.level /\ Inside(game', s)
          /\ \/ moved.ships > 0 /\ game'.ships = moved.ships - 1 /\ game'.active = moved.active
             \/ moved.ships = 0 /\ game'.ships = 0 /\ game'.active = "no"
      BY <2>2, <1>9, <1>2, <1>3, <1>5, <1>6, <1>7, Hit
    <3>2. game'.ships \in 0..ShipLimit
      BY <3>1, <1>3, <1>6
    <3>3. GameInv'
      BY <3>1, <3>2, <1>5, <1>6, <1>g
    <3>4. QED
      BY <3>1, <3>3, <1>3, <1>1, <1>6
  <2>3. QED
    BY <2>1, <2>2, <1>1 DEF CheckBottom
<1>10. QED
  BY <1>8, <1>9 DEF CheckShip

\* The first fleet goes to the right.
LEMMA InitGame == GameInit => GameInv
<1> SUFFICES ASSUME GameInit
             PROVE  GameInv
  OBVIOUS
<1>1. /\ DOMAIN game = GameFields /\ game.alive = Fleet(Window) /\ game.dx = 0 /\ game.dy = 0
      /\ game.dir = 1 /\ game.level = 0 /\ game.ships = ShipLimit
  BY DEF GameInit, GameFields
<1>2. ShipLimit \in Nat /\ MaxLevel \in Nat /\ screen = Window
  BY GameAssumption DEF GameInit
<1>3. game.ships \in 0..ShipLimit /\ game.level \in 0..MaxLevel /\ game.dir \in {1, -1}
  BY <1>1, <1>2
<1>4. Inside(game, Window)
  BY <1>1, <1>3, NewFleet
<1>5. QED
  BY <1>1, <1>2, <1>3, <1>4 DEF GameInv, GameTypes

\* Play puts a new fleet on the screen, and a full screen is no smaller; the others
\* leave the fleet alone.
LEMMA NextGame ==
  GameInv /\ [GameNext]_gameVars =>
    /\ GameInv'
    /\ game.ships - game'.ships <= 1
    /\ (game.active = "yes" /\ game'.active = "no" => game.ships = 0)
<1> SUFFICES ASSUME GameInv, [GameNext]_gameVars
             PROVE  /\ GameInv'
                    /\ game.ships - game'.ships <= 1
                    /\ (game.active = "yes" /\ game'.active = "no" => game.ships = 0)
  OBVIOUS
<1>1. PICK s \in {Window, Full} : screen = s
  BY DEF GameInv, GameTypes
<1>2. /\ DOMAIN game = GameFields /\ game.ships \in 0..ShipLimit /\ game.level \in 0..MaxLevel
      /\ Inside(game, s) /\ ShipLimit \in Nat /\ MaxLevel \in Nat
  BY <1>1, GameAssumption DEF GameInv, GameTypes
<1>3. CASE Frame
  BY <1>3, FrameKeeps
<1>4. CASE FireBullet
  <2>1. /\ DOMAIN game' = GameFields /\ game'.alive = game.alive /\ game'.dx = game.dx
        /\ game'.dir = game.dir /\ game'.level = game.level /\ game'.ships = game.ships
        /\ game'.active = game.active /\ screen' = screen
    BY <1>2, <1>4 DEF FireBullet, GameFields
  <2>2. \A a : AlienX(game', a) = AlienX(game, a)
    BY <2>1 DEF AlienX
  <2>3. Inside(game', s)
    BY <1>2, <2>1, <2>2 DEF Inside
  <2>4. GameInv'
    BY <1>1, <1>2, <2>1, <2>3 DEF GameInv, GameTypes
  <2>5. QED
    BY <1>2, <2>1, <2>4
<1>5. CASE Play
  <2>1. /\ game.active = "no" /\ screen' = screen
        /\ DOMAIN game' = GameFields /\ game'.alive = Fleet(s) /\ game'.dx = 0 /\ game'.dy = 0
        /\ game'.dir = 1 /\ game'.level = 0 /\ game'.ships = ShipLimit
    BY <1>1, <1>2, <1>5 DEF Play, CreateFleet, GameFields
  <2>2. game'.level \in 0..MaxLevel /\ game'.ships \in 0..ShipLimit /\ game'.dir \in {1, -1}
    BY <1>2, <2>1
  <2>3. Inside(game', s)
    BY <2>1, <2>2, NewFleet
  <2>4. GameInv'
    BY <1>1, <2>1, <2>2, <2>3 DEF GameInv, GameTypes
  <2>5. game.ships - game'.ships <= 1
    BY <1>2, <2>1
  <2>6. QED
    BY <2>1, <2>4, <2>5
<1>6. CASE SetFullScreen
  <2>1. game' = game /\ screen' = Full
    BY <1>6 DEF SetFullScreen
  <2>2. Unit * s.w <= Unit * Full.w
    <3>1. s.w \in Nat /\ Full.w \in Nat /\ s.w <= Full.w /\ Unit \in Nat \ {0}
      BY GameAssumption, Units
    <3>2. CASE s.w < Full.w
      <4>1. Unit * s.w < Unit * Full.w /\ Unit * s.w \in Int /\ Unit * Full.w \in Int
        BY <3>1, <3>2, TimesKeepsOrder
      <4>2. QED
        BY <4>1
    <3>3. CASE s.w = Full.w
      BY <3>1, <3>3
    <3>4. QED
      BY <3>1, <3>2, <3>3
  <2>3. Inside(game, Full)
    <3>1. ASSUME NEW a \in game.alive
          PROVE  /\ AlienX(game, a) > IF game.dir = 1 THEN 0 ELSE -Speed(AlienSpeed, game.level)
                 /\ AlienX(game, a) + Unit * AlienW
                      < Unit * Full.w + (IF game.dir = 1 THEN Speed(AlienSpeed, game.level) ELSE 0)
      <4>1. /\ AlienX(game, a) > IF game.dir = 1 THEN 0 ELSE -Speed(AlienSpeed, game.level)
            /\ AlienX(game, a) + Unit * AlienW
                 < Unit * s.w + (IF game.dir = 1 THEN Speed(AlienSpeed, game.level) ELSE 0)
        BY <1>2 DEF Inside
      <4>2. /\ Unit * AlienW \in Int /\ Unit * s.w \in Int /\ Unit * Full.w \in Int
            /\ Speed(AlienSpeed, game.level) \in Int /\ AlienX(game, a) \in Int
        <5>1. /\ Unit \in Nat \ {0} /\ AlienW \in Nat /\ s.w \in Nat /\ Full.w \in Nat
          BY Units, GameAssumption
        <5>2. Speed(AlienSpeed, game.level) \in Int
          BY <1>2, Units
        <5>3. a[1] \in Nat /\ game.dx \in Int
          BY <1>2 DEF Inside
        <5>4. Unit * (AlienW + 2 * AlienW * a[1]) \in Int
          <6>1. 2 * AlienW * a[1] \in Nat
            BY <5>1, <5>3
          <6>2. QED
            BY <5>1, <6>1
        <5>5. QED
          BY <5>1, <5>2, <5>3, <5>4 DEF AlienX
      <4>3. QED
        BY <4>1, <4>2, <2>2
    <3>2. QED
      BY <1>2, <3>1 DEF Inside
  <2>4. GameInv'
    BY <1>2, <2>1, <2>3 DEF GameInv, GameTypes
  <2>5. QED
    BY <1>2, <2>1, <2>4
<1>7. CASE UNCHANGED <<game, screen>>
  BY <1>2, <1>7 DEF GameInv, GameTypes
<1>8. QED
  BY <1>3, <1>4, <1>5, <1>6, <1>7
  DEF GameNext, GameEvent, PressOrRelease, Quit, gameVars

\* No alien is past an edge by more than a step.
LEMMA InsideIsOnScreen == GameInv => FleetOnScreen
<1> SUFFICES ASSUME GameInv, NEW a \in game.alive
             PROVE  /\ AlienX(game, a) > -Speed(AlienSpeed, game.level)
                    /\ AlienX(game, a) + Unit * AlienW
                         < Unit * screen.w + Speed(AlienSpeed, game.level)
  BY DEF FleetOnScreen
<1>1. /\ Unit \in Nat \ {0} /\ AlienW \in Nat /\ screen.w \in Nat
  BY Units, GameAssumption DEF GameInv, GameTypes
<1>2. Speed(AlienSpeed, game.level) \in Nat \ {0} /\ a[1] \in Nat /\ game.dx \in Int
  BY Units DEF GameInv, GameTypes, Inside
<1>3. 2 * AlienW * a[1] \in Nat
  BY <1>1, <1>2
<1>4. Unit * (AlienW + 2 * AlienW * a[1]) \in Int /\ Unit * AlienW \in Int
      /\ Unit * screen.w \in Int
  BY <1>1, <1>3
<1>5. AlienX(game, a) \in Int
  BY <1>2, <1>4 DEF AlienX
<1>6. /\ AlienX(game, a) > IF game.dir = 1 THEN 0 ELSE -Speed(AlienSpeed, game.level)
      /\ AlienX(game, a) + Unit * AlienW
           < Unit * screen.w + (IF game.dir = 1 THEN Speed(AlienSpeed, game.level) ELSE 0)
  BY DEF GameInv, Inside
<1>7. QED
  BY <1>2, <1>4, <1>5, <1>6

\* The fleet stays on the screen, for any size of screen, aliens and steps: an alien
\* at an edge has the fleet turned before the next step (190-201), a new fleet
\* fits, and the full screen is no smaller than the window.
THEOREM FleetStaysOnScreen == GameSpec => []FleetOnScreen
<1>1. GameSpec => []GameInv
  <2>1. GameInv /\ [GameNext]_gameVars => GameInv'
    BY NextGame
  <2>2. QED
    BY <2>1, InitGame, PTL DEF GameSpec
<1>2. QED
  BY <1>1, InsideIsOnScreen, PTL

\* A frame costs one ship at most, and a game ends with the last one: the fleet that
\* comes in place of the one that hit the ship is clear of the bottom, so that the
\* second check of the frame finds nothing (175-188, 203-231).
THEOREM FrameCostsOneShip == GameSpec => OneShipPerFrame
<1>1. GameInv /\ [GameNext]_gameVars =>
        GameInv' /\ [/\ game.ships - game'.ships <= 1
                     /\ (game.active = "yes" /\ game'.active = "no" => game.ships = 0)]_gameVars
  BY NextGame
<1>2. QED
  BY <1>1, InitGame, PTL DEF GameSpec, OneShipPerFrame
=============================================================================
