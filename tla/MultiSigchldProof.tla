-------------------------- MODULE MultiSigchldProof --------------------------
(***************************************************************************)
(* What practice/26.5/multi_SIGCHLD.c guarantees for any number of         *)
(* children: the counter is exact, no exit is missed, and main ends only   *)
(* after it has reaped every child.                                        *)
(***************************************************************************)
EXTENDS MultiSigchld, FiniteSetTheorems, TLAPS

\* How far the fork loop has come decides which children exist.
ForkProgress ==
  /\ \A c \in Children : child[c] = "none" <=> c >= forkLoop
  /\ mpc \in {"test", "call", "suspend", "done"} => forkLoop = N + 1
  /\ mpc = "setup" => forkLoop = 1

\* SIGCHLD is blocked once set-up is over, so the handler runs in sigsuspend only.
MaskInv ==
  /\ mpc # "setup" => blocked = SIGCHLD
  /\ hpc # "idle" => mpc = "suspend"
  /\ mpc = "setup" => pending = {}

IInv ==
  /\ ReapTypes
  /\ CountMatchesChildren
  /\ NoLostSigchld
  /\ SignumBound
  /\ DoneMeansAllReaped
  /\ ForkProgress
  /\ MaskInv

-----------------------------------------------------------------------------
\* The children in a given state are a finite set of at most N children.
LEMMA InFinite ==
  ASSUME NEW S \in SUBSET Children
  PROVE  /\ IsFiniteSet(S) /\ Cardinality(S) \in Nat
         /\ Cardinality(S) <= N
         /\ Cardinality(S) = N => S = Children
<1>0. N \in Nat
  BY NAssumption
<1>1. IsFiniteSet(Children) /\ Cardinality(Children) = N
  BY <1>0, FS_Interval DEF Children
<1>2. QED
  BY <1>1, FS_Subset, FS_CardinalityType

\* Adding a child that is not in the set makes the set one larger.
LEMMA InAdd ==
  ASSUME NEW S \in SUBSET Children, NEW c \in Children, c \notin S
  PROVE  Cardinality(S \cup {c}) = Cardinality(S) + 1
BY InFinite, FS_AddElement

\* The initial state satisfies the inductive invariant.
LEMMA InitIInv == ReapInit => IInv
<1> SUFFICES ASSUME ReapInit PROVE IInv
  OBVIOUS
<1> USE NAssumption DEF ReapInit, SIGCHLD
<1>1. In("zombie") \cup In("reaped") = {}
  BY DEF In
<1>2. Cardinality({}) = 0
  BY FS_EmptySet
<1>3. SignumBound
  BY <1>1, <1>2 DEF SignumBound
<1>4. ReapTypes /\ CountMatchesChildren /\ NoLostSigchld /\ DoneMeansAllReaped
  BY <1>1 DEF ReapTypes, CountMatchesChildren, NoLostSigchld, DoneMeansAllReaped
<1>5. ForkProgress /\ MaskInv
  BY DEF ForkProgress, MaskInv, Children
<1>6. QED
  BY <1>3, <1>4, <1>5 DEF IInv

\* Every step of main, of the handler and of the children preserves it.
LEMMA NextIInv == IInv /\ [ReapNext]_reapVars => IInv'
<1> SUFFICES ASSUME IInv, [ReapNext]_reapVars PROVE IInv'
  OBVIOUS
<1> USE NAssumption DEF SIGCHLD
<1>i. /\ ReapTypes /\ CountMatchesChildren /\ NoLostSigchld /\ SignumBound
      /\ DoneMeansAllReaped /\ ForkProgress /\ MaskInv
  BY DEF IInv
<1>f. /\ In("zombie") \in SUBSET Children /\ In("reaped") \in SUBSET Children
      /\ Cardinality(In("reaped")) \in Nat
      /\ Cardinality(In("zombie") \cup In("reaped")) \in Nat
  <2>1. In("zombie") \in SUBSET Children /\ In("reaped") \in SUBSET Children
    BY DEF In
  <2>2. QED
    BY <2>1, InFinite
<1>s. ASSUME child' = child
      PROVE  In("zombie")' = In("zombie") /\ In("reaped")' = In("reaped")
  BY <1>s DEF In
<1>1. CASE Setup
  <2>1. In("reaped") = {} /\ Cardinality({}) = 0
    BY <1>i, <1>1, FS_EmptySet DEF In, Setup, ForkProgress, Children
  <2>2. CountMatchesChildren'
    BY <1>1, <1>s, <2>1 DEF Setup, CountMatchesChildren
  <2>3. ReapTypes'
    BY <1>i, <1>1 DEF Setup, ReapTypes
  <2>4. NoLostSigchld'
    BY <1>i, <1>1, <1>s DEF Setup, NoLostSigchld
  <2>5. SignumBound'
    BY <1>i, <1>1, <1>s, <1>f DEF Setup, SignumBound, ReapTypes
  <2>6. DoneMeansAllReaped'
    BY <1>i, <1>1, <1>s DEF Setup, DoneMeansAllReaped
  <2>7. ForkProgress'
    BY <1>i, <1>1 DEF Setup, ForkProgress, ReapTypes
  <2>8. MaskInv'
    BY <1>i, <1>1 DEF Setup, MaskInv
  <2>9. QED
    BY <2>3, <2>2, <2>4, <2>5, <2>6, <2>7, <2>8 DEF IInv
<1>2. CASE Fork
  <2>1. CASE mpc' = "failed" /\ UNCHANGED <<child, forkLoop>>
    <3>1. ReapTypes'
      BY <1>i, <1>2, <2>1 DEF Fork, ReapTypes
    <3>2. CountMatchesChildren'
      BY <1>i, <1>2, <1>s, <1>f, <2>1 DEF Fork, CountMatchesChildren, ReapTypes
    <3>3. NoLostSigchld'
      BY <1>i, <1>2, <1>s, <2>1 DEF Fork, NoLostSigchld
    <3>4. SignumBound'
      BY <1>i, <1>2, <1>s, <1>f, <2>1 DEF Fork, SignumBound, ReapTypes
    <3>5. DoneMeansAllReaped'
      BY <1>i, <1>2, <1>s, <2>1 DEF Fork, DoneMeansAllReaped
    <3>6. ForkProgress'
      BY <1>i, <1>2, <2>1 DEF Fork, ForkProgress, ReapTypes
    <3>7. MaskInv'
      BY <1>i, <1>2, <2>1 DEF Fork, MaskInv
    <3>8. QED
      BY <3>1, <3>2, <3>3, <3>4, <3>5, <3>6, <3>7 DEF IInv
  <2>2. CASE child' = [child EXCEPT ![forkLoop] = "running"] /\ forkLoop' = forkLoop + 1 /\ mpc' = mpc
    <3>1. forkLoop \in Children /\ child[forkLoop] = "none"
      BY <1>i, <1>2 DEF Fork, ReapTypes, ForkProgress, Children
    <3>2. In("zombie")' = In("zombie") /\ In("reaped")' = In("reaped")
      BY <1>i, <2>2, <3>1 DEF In, ReapTypes
    <3>3. ReapTypes'
      BY <1>i, <1>2, <2>2, <3>1 DEF Fork, ReapTypes
    <3>4. ForkProgress'
      BY <1>i, <1>2, <2>2, <3>1 DEF Fork, ReapTypes, ForkProgress, Children
    <3>5. CountMatchesChildren'
      BY <1>i, <1>2, <2>2, <3>2 DEF Fork, CountMatchesChildren
    <3>6. NoLostSigchld' /\ DoneMeansAllReaped'
      BY <1>i, <1>2, <2>2, <3>2 DEF Fork, NoLostSigchld, DoneMeansAllReaped
    <3>7. SignumBound'
      BY <1>i, <1>2, <2>2, <3>2 DEF Fork, SignumBound
    <3>8. MaskInv'
      BY <1>i, <1>2, <2>2 DEF Fork, MaskInv
    <3>9. QED
      BY <3>3, <3>4, <3>5, <3>6, <3>7, <3>8 DEF IInv
  <2>3. QED
    BY <1>2, <2>1, <2>2 DEF Fork
<1>3. CASE ForksDone
  <2>1. ReapTypes'
    BY <1>i, <1>3 DEF ForksDone, ReapTypes
  <2>2. CountMatchesChildren'
    BY <1>i, <1>3, <1>s, <1>f DEF ForksDone, CountMatchesChildren, ReapTypes
  <2>3. NoLostSigchld'
    BY <1>i, <1>3, <1>s DEF ForksDone, NoLostSigchld
  <2>4. SignumBound'
    BY <1>i, <1>3, <1>s, <1>f DEF ForksDone, SignumBound, ReapTypes
  <2>5. DoneMeansAllReaped'
    BY <1>i, <1>3, <1>s DEF ForksDone, DoneMeansAllReaped
  <2>6. ForkProgress'
    BY <1>i, <1>3 DEF ForksDone, ForkProgress, ReapTypes
  <2>7. MaskInv'
    BY <1>i, <1>3 DEF ForksDone, MaskInv
  <2>8. QED
    BY <2>1, <2>2, <2>3, <2>4, <2>5, <2>6, <2>7 DEF IInv
<1>4. CASE TestLive
  <2>1. mpc' = "done" => In("reaped") = Children
    <3>1. mpc' = "done" => Cardinality(In("reaped")) >= N
      BY <1>i, <1>4, <1>f DEF TestLive, ReapTypes, CountMatchesChildren
    <3>2. Cardinality(In("reaped")) <= N
          /\ (Cardinality(In("reaped")) = N => In("reaped") = Children)
      BY <1>f, InFinite
    <3>3. QED
      BY <1>f, <3>1, <3>2
  <2>2. DoneMeansAllReaped'
    BY <1>4, <1>s, <2>1 DEF TestLive, DoneMeansAllReaped
  <2>3. ReapTypes'
    BY <1>i, <1>4 DEF TestLive, ReapTypes
  <2>4. CountMatchesChildren'
    BY <1>i, <1>4, <1>s, <1>f DEF TestLive, CountMatchesChildren, ReapTypes
  <2>5. NoLostSigchld'
    BY <1>i, <1>4, <1>s DEF TestLive, NoLostSigchld
  <2>6. SignumBound'
    BY <1>i, <1>4, <1>s, <1>f DEF TestLive, SignumBound, ReapTypes
  <2>7. ForkProgress'
    BY <1>i, <1>4 DEF TestLive, ForkProgress, ReapTypes
  <2>8. MaskInv'
    BY <1>i, <1>4 DEF TestLive, MaskInv
  <2>9. QED
    BY <2>3, <2>4, <2>5, <2>6, <2>2, <2>7, <2>8 DEF IInv
<1>5. ASSUME NEW c \in Children, ChildExit(c)
      PROVE  IInv'
  <2>1. /\ c \notin In("zombie") \cup In("reaped")
        /\ (In("zombie") \cup In("reaped"))' = (In("zombie") \cup In("reaped")) \cup {c}
        /\ In("reaped")' = In("reaped")
    BY <1>i, <1>5 DEF ChildExit, In, ReapTypes
  <2>2. Cardinality((In("zombie") \cup In("reaped"))')
          = Cardinality(In("zombie") \cup In("reaped")) + 1
    BY <1>f, <2>1, InAdd
  <2>3. SignumBound'
    BY <1>i, <1>5, <1>f, <2>2 DEF ChildExit, SignumBound, ReapTypes
  <2>4. ReapTypes'
    BY <1>i, <1>5 DEF ChildExit, ReapTypes
  <2>5. ForkProgress'
    BY <1>i, <1>5 DEF ChildExit, ReapTypes, ForkProgress
  <2>6. MaskInv'
    BY <1>i, <1>5 DEF ChildExit, ForkProgress, MaskInv, Children
  <2>7. CountMatchesChildren' /\ DoneMeansAllReaped'
    BY <1>i, <1>5, <2>1 DEF ChildExit, CountMatchesChildren, DoneMeansAllReaped
  <2>8. NoLostSigchld'
    BY <1>5 DEF ChildExit, NoLostSigchld
  <2>9. QED
    BY <2>3, <2>4, <2>5, <2>6, <2>7, <2>8 DEF IInv
<1>6. CASE Deliver
  <2>1. ReapTypes'
    BY <1>i, <1>6 DEF Deliver, ReapTypes
  <2>2. CountMatchesChildren'
    BY <1>i, <1>6, <1>s, <1>f DEF Deliver, CountMatchesChildren, ReapTypes
  <2>3. NoLostSigchld'
    BY <1>i, <1>6, <1>s DEF Deliver, NoLostSigchld
  <2>4. SignumBound'
    <3>1. /\ pending = SIGCHLD /\ hpc = "idle" /\ signum' = signum
          /\ pending' = {} /\ hpc' = "reap" /\ SIGCHLD # {}
      BY <1>6 DEF Deliver
    <3>2. signum + 1 + 0 <= Cardinality(In("zombie") \cup In("reaped")) /\ signum \in Nat
      BY <1>i, <3>1 DEF SignumBound, ReapTypes
    <3>3. Cardinality(In("zombie") \cup In("reaped"))'
            = Cardinality(In("zombie") \cup In("reaped"))
      BY <1>6, <1>s DEF Deliver
    <3>4. SignumBound' <=> signum' + 0 + 1 <= Cardinality(In("zombie") \cup In("reaped"))'
      BY <3>1 DEF SignumBound
    <3>5. QED
      BY <3>1, <3>2, <3>3, <3>4, <1>f
  <2>5. DoneMeansAllReaped'
    BY <1>i, <1>6, <1>s DEF Deliver, DoneMeansAllReaped
  <2>6. ForkProgress'
    BY <1>i, <1>6 DEF Deliver, ForkProgress, ReapTypes
  <2>7. MaskInv'
    BY <1>i, <1>6 DEF Deliver, MaskInv
  <2>8. QED
    BY <2>1, <2>2, <2>3, <2>4, <2>5, <2>6, <2>7 DEF IInv
<1>7. CASE HandlerReap
  <2> PICK c \in In("zombie") : child' = [child EXCEPT ![c] = "reaped"]
    BY <1>7 DEF HandlerReap
  <2>1. c \in Children /\ child[c] = "zombie" /\ c \notin In("reaped")
    BY DEF In
  <2>2. /\ In("reaped")' = In("reaped") \cup {c}
        /\ (In("zombie") \cup In("reaped"))' = In("zombie") \cup In("reaped")
    BY <1>i, <2>1 DEF In, ReapTypes
  <2>3. Cardinality(In("reaped")') = Cardinality(In("reaped")) + 1
    BY <1>f, <2>1, <2>2, InAdd
  <2>4. CountMatchesChildren'
    BY <1>i, <1>7, <1>f, <2>3 DEF HandlerReap, CountMatchesChildren, ReapTypes, MaskInv
  <2>5. ReapTypes' /\ ForkProgress'
    BY <1>i, <1>7, <2>1 DEF HandlerReap, ReapTypes, ForkProgress
  <2>6. SignumBound'
    BY <1>i, <1>7, <2>2 DEF HandlerReap, SignumBound
  <2>7. NoLostSigchld' /\ DoneMeansAllReaped' /\ MaskInv'
    BY <1>i, <1>7 DEF HandlerReap, NoLostSigchld, DoneMeansAllReaped, MaskInv
  <2>8. QED
    BY <2>4, <2>5, <2>6, <2>7 DEF IInv
<1>8. CASE HandlerNoMore
  <2>1. ReapTypes'
    BY <1>i, <1>8 DEF HandlerNoMore, ReapTypes
  <2>2. CountMatchesChildren'
    BY <1>i, <1>8, <1>s, <1>f DEF HandlerNoMore, CountMatchesChildren, ReapTypes
  <2>3. NoLostSigchld'
    BY <1>i, <1>8, <1>s DEF HandlerNoMore, NoLostSigchld
  <2>4. SignumBound'
    BY <1>i, <1>8, <1>s, <1>f DEF HandlerNoMore, SignumBound, ReapTypes
  <2>5. DoneMeansAllReaped'
    BY <1>i, <1>8, <1>s DEF HandlerNoMore, DoneMeansAllReaped
  <2>6. ForkProgress'
    BY <1>i, <1>8 DEF HandlerNoMore, ForkProgress, ReapTypes
  <2>7. MaskInv'
    BY <1>i, <1>8 DEF HandlerNoMore, MaskInv
  <2>8. QED
    BY <2>1, <2>2, <2>3, <2>4, <2>5, <2>6, <2>7 DEF IInv
<1>9. CASE HandlerReturn
  <2>1. ReapTypes'
    BY <1>i, <1>9 DEF HandlerReturn, ReapTypes
  <2>2. CountMatchesChildren'
    BY <1>i, <1>9, <1>s, <1>f DEF HandlerReturn, CountMatchesChildren, ReapTypes
  <2>3. NoLostSigchld'
    BY <1>i, <1>9, <1>s DEF HandlerReturn, NoLostSigchld
  <2>4. SignumBound'
    BY <1>i, <1>9, <1>s, <1>f DEF HandlerReturn, SignumBound, ReapTypes
  <2>5. DoneMeansAllReaped'
    BY <1>i, <1>9, <1>s DEF HandlerReturn, DoneMeansAllReaped
  <2>6. ForkProgress'
    BY <1>i, <1>9 DEF HandlerReturn, ForkProgress, ReapTypes
  <2>7. MaskInv'
    BY <1>i, <1>9 DEF HandlerReturn, MaskInv
  <2>8. QED
    BY <2>1, <2>2, <2>3, <2>4, <2>5, <2>6, <2>7 DEF IInv
<1>10. CASE Suspend
  <2>1. ReapTypes'
    BY <1>i, <1>10 DEF Suspend, ReapTypes
  <2>2. CountMatchesChildren'
    BY <1>i, <1>10, <1>s, <1>f DEF Suspend, CountMatchesChildren, ReapTypes
  <2>3. NoLostSigchld'
    BY <1>i, <1>10, <1>s DEF Suspend, NoLostSigchld
  <2>4. SignumBound'
    BY <1>i, <1>10, <1>s, <1>f DEF Suspend, SignumBound, ReapTypes
  <2>5. DoneMeansAllReaped'
    BY <1>i, <1>10, <1>s DEF Suspend, DoneMeansAllReaped
  <2>6. ForkProgress'
    BY <1>i, <1>10 DEF Suspend, ForkProgress, ReapTypes
  <2>7. MaskInv'
    BY <1>i, <1>10 DEF Suspend, MaskInv
  <2>8. QED
    BY <2>1, <2>2, <2>3, <2>4, <2>5, <2>6, <2>7 DEF IInv
<1>11. CASE UNCHANGED reapVars
  <2>1. ReapTypes'
    BY <1>i, <1>11 DEF reapVars, ReapTypes
  <2>2. CountMatchesChildren'
    BY <1>i, <1>11, <1>s, <1>f DEF reapVars, CountMatchesChildren, ReapTypes
  <2>3. NoLostSigchld'
    BY <1>i, <1>11, <1>s DEF reapVars, NoLostSigchld
  <2>4. SignumBound'
    BY <1>i, <1>11, <1>s, <1>f DEF reapVars, SignumBound, ReapTypes
  <2>5. DoneMeansAllReaped'
    BY <1>i, <1>11, <1>s DEF reapVars, DoneMeansAllReaped
  <2>6. ForkProgress'
    BY <1>i, <1>11 DEF reapVars, ForkProgress, ReapTypes
  <2>7. MaskInv'
    BY <1>i, <1>11 DEF reapVars, MaskInv
  <2>8. QED
    BY <2>1, <2>2, <2>3, <2>4, <2>5, <2>6, <2>7 DEF IInv
<1>12. QED
  BY <1>1, <1>2, <1>3, <1>4, <1>5, <1>6, <1>7, <1>8, <1>9, <1>10, <1>11 DEF ReapNext

-----------------------------------------------------------------------------
\* The inductive invariant holds in every reachable state, for every N.
THEOREM InductiveInvariant == ReapSpec => []IInv
<1>1. QED
  BY InitIInv, NextIInv, PTL DEF ReapSpec

\* Type correctness of multi_SIGCHLD.c's state.
THEOREM TypeCorrect == ReapSpec => []ReapTypes
<1>1. IInv => ReapTypes
  BY DEF IInv
<1>2. QED
  BY <1>1, InductiveInvariant, PTL

\* numLiveChildren is exact: the volatile int the handler decrements always
\* agrees with the children not yet reaped.
THEOREM CounterExact == ReapSpec => []CountMatchesChildren
<1>1. IInv => CountMatchesChildren
  BY DEF IInv
<1>2. QED
  BY <1>1, InductiveInvariant, PTL

\* No exit is missed although SIGCHLDs coalesce: a zombie implies a pending
\* SIGCHLD or a handler still in its waitpid loop.
THEOREM NoExitMissed == ReapSpec => []NoLostSigchld
<1>1. IInv => NoLostSigchld
  BY DEF IInv
<1>2. QED
  BY <1>1, InductiveInvariant, PTL

\* "All %d children have terminated" is printed only when it is true.
THEOREM AllReapedAtExit == ReapSpec => []DoneMeansAllReaped
<1>1. IInv => DoneMeansAllReaped
  BY DEF IInv
<1>2. QED
  BY <1>1, InductiveInvariant, PTL

\* The number of SIGCHLDs reported never exceeds the number of exits.
THEOREM CatchesBounded == ReapSpec => []SignumBound
<1>1. IInv => SignumBound
  BY DEF IInv
<1>2. QED
  BY <1>1, InductiveInvariant, PTL
=============================================================================
