----------------------------- MODULE DirMonitor -----------------------------
(***************************************************************************)
(* practice/19.1: an inotify monitor.  nftw() puts a watch on everything    *)
(* below a directory; the program keeps the names in a table by watch       *)
(* descriptor and extends it when a file is created.  The tree is a root    *)
(* directory "R" with the files "a" and "b" and a directory "S" with "c".   *)
(***************************************************************************)
EXTENDS Integers, Sequences, FiniteSets

CONSTANTS
  Slots,       \* WDNAMENUM, the size of the table
  MaxChanges   \* bound: how many changes other programs make to the tree

ASSUME MonitorAssumption == Slots \in Nat \ {0} /\ MaxChanges \in Nat

VARIABLES
  tree,      \* what exists
  changes,   \* how many changes were made
  calm,      \* nothing has been deleted or moved
  wdOf,      \* wdOf[o]: the watch descriptor of o in the kernel, 0 for none
  lastWd,    \* the last descriptor given out
  queue,     \* the inotify events not handled yet
  monPc,     \* "off" "walk" "read" "exit" "undefined"
  toWalk,    \* nftw(): what is still to be visited, or listed, as <<op, o>>
  table,     \* wdName: name is "" for NULL, "freed" for a dangling pointer
  count,     \* wdName_count
  purged     \* remove_inodity_for_entry() has run

monitorVars == <<tree, changes, calm, wdOf, lastWd, queue, monPc, toWalk, table,
                 count, purged>>
treeVars == <<tree, changes, calm>>

DirOf == [a |-> "R", b |-> "R", c |-> "S", S |-> "R"]
Objects == DOMAIN DirOf \cup {"R"}
Moveable == {"a", "b", "c"}
NoEntry == [wd |-> 0, name |-> ""]

MonitorInit ==
  /\ tree = {"R"} /\ changes = 0 /\ calm = TRUE
  /\ wdOf = [o \in Objects |-> 0] /\ lastWd = 0
  /\ queue = <<>>
  /\ monPc = "off" /\ toWalk = {}
  /\ table = [i \in 1..Slots |-> NoEntry]
  /\ count = 0 /\ purged = FALSE

-----------------------------------------------------------------------------
(* The tree and the kernel.                                                *)

\* An event of the watch of o, if it has one; only IN_CREATE and IN_DELETE of
\* files matter, a directory's carry IN_ISDIR and match no case of the switch.
Event(o, mask, name) ==
  IF wdOf[o] = 0 THEN <<>> ELSE <<[wd |-> wdOf[o], mask |-> mask, name |-> name]>>

Change(events) ==
  /\ monPc \in {"walk", "read"} /\ changes < MaxChanges
  /\ changes' = changes + 1
  /\ queue' = queue \o events
  /\ UNCHANGED <<lastWd, monPc, toWalk, table, count, purged>>

Create(o) ==
  /\ o \notin tree /\ DirOf[o] \in tree
  /\ tree' = tree \cup {o}
  /\ Change(Event(DirOf[o], IF o = "S" THEN "other" ELSE "create", o))
  /\ UNCHANGED <<wdOf, calm>>

Unlink(o) ==
  /\ o \in tree
  /\ tree' = tree \ {o} /\ calm' = FALSE
  /\ Change(Event(DirOf[o], "delete", o) \o Event(o, "other", ""))
  /\ wdOf' = [wdOf EXCEPT ![o] = 0]

\* rename() keeps the inode and its watch; no case of the switch uses the name.
Move(o, to) ==
  /\ o \in tree /\ to \notin tree /\ DirOf[to] \in tree
  /\ tree' = (tree \ {o}) \cup {to} /\ calm' = FALSE
  /\ Change(Event(DirOf[o], "other", o) \o Event(DirOf[to], "other", to)
            \o Event(o, "other", ""))
  /\ wdOf' = [wdOf EXCEPT ![o] = 0, ![to] = wdOf[o]]

-----------------------------------------------------------------------------
(* The monitor.                                                            *)

\* inotify_init() and nftw().
MonitorStarts ==
  /\ monPc = "off"
  /\ \E files \in SUBSET Moveable, S \in SUBSET {"S"} :
       /\ "c" \in files => S # {}
       /\ tree' = {"R"} \cup S \cup files
  /\ monPc' = "walk" /\ toWalk' = {<<"visit", "R">>}
  /\ UNCHANGED <<changes, calm, wdOf, lastWd, queue, table, count, purged>>

Free == {i \in 1..Slots : table[i].name = ""}
Min1(S) == CHOOSE i \in S : \A j \in S : i <= j

\* add_inodity_for_entry: the kernel has one descriptor for an inode, asked for
\* again or not; the first free entry is filled, beyond the table if none is.
Adds(o) ==
  /\ wdOf' = [wdOf EXCEPT ![o] = IF @ = 0 THEN lastWd + 1 ELSE @]
  /\ lastWd' = IF wdOf[o] = 0 THEN lastWd + 1 ELSE lastWd
  /\ IF Free = {} THEN monPc' = "undefined" /\ UNCHANGED <<table, count>>
     ELSE /\ table' = [table EXCEPT ![Min1(Free)] = [wd |-> wdOf'[o], name |-> o]]
          /\ count' = count + 1
          /\ UNCHANGED monPc

\* inotify_add_watch() or stat() finds nothing under the name: errExit().
Vanished == monPc' = "exit" /\ UNCHANGED <<wdOf, lastWd, table, count>>

\* nftw() calls nftw_func for a directory before it reads its entries.
WalkVisits(o) ==
  /\ monPc = "walk" /\ <<"visit", o>> \in toWalk
  /\ toWalk' = (toWalk \ {<<"visit", o>>})
               \cup (IF o \in {"R", "S"} THEN {<<"list", o>>} ELSE {})
  /\ IF o \in tree THEN Adds(o) ELSE Vanished
  /\ UNCHANGED <<treeVars, queue, purged>>

WalkLists(o) ==
  /\ monPc = "walk" /\ <<"list", o>> \in toWalk
  /\ toWalk' = (toWalk \ {<<"list", o>>})
               \cup {<<"visit", e>> : e \in {e \in tree \ {"R"} : DirOf[e] = o}}
  /\ UNCHANGED <<treeVars, wdOf, lastWd, queue, monPc, table, count, purged>>

WalkEnds ==
  /\ monPc = "walk" /\ toWalk = {}
  /\ monPc' = "read"
  /\ UNCHANGED <<treeVars, wdOf, lastWd, queue, toWalk, table, count, purged>>

\* remove_inodity_for_entry, for the entry i of the DIRECTORY the event is of:
\* the watch taken away is that of the entry behind the last one, the name
\* freed that of entry i, and the entry cleared the first.  The kernel answers
\* the end of a watch with an event.
Removes(i) ==
  LET at == count + 1
      wd == IF at \in 1..Slots THEN table[at].wd ELSE 0
      gone == {o \in Objects : wdOf[o] # 0 /\ wdOf[o] = wd}
  IN /\ wdOf' = [o \in Objects |-> IF o \in gone THEN 0 ELSE wdOf[o]]
     /\ queue' = Tail(queue) \o
          (IF gone = {} THEN <<>> ELSE <<[wd |-> wd, mask |-> "other", name |-> ""]>>)
     /\ count' = count - 1
     /\ table' = [table EXCEPT ![i].name = "freed", ![1] = NoEntry]
     /\ purged' = TRUE
     /\ UNCHANGED <<lastWd, monPc>>

\* The entry of an event; no entry leaves temp uninitialised, and a freed name
\* is read: both undefined.
Entries(wd) == {i \in 1..Slots : table[i].wd = wd}

\* Fault: only the first of the events that read() returned is handled.
HandlesFirstOnly ==
  /\ monPc = "read" /\ queue # <<>>
  /\ queue' = <<>>
  /\ IF Head(queue).mask = "create" /\ Head(queue).name \in tree
       THEN Adds(Head(queue).name)
       ELSE UNCHANGED <<wdOf, lastWd, table, count, monPc>>
  /\ UNCHANGED <<treeVars, toWalk, purged>>

MonitorHandles ==
  /\ monPc = "read" /\ queue # <<>>
  /\ LET e == Head(queue) IN
       IF Entries(e.wd) = {} \/ table[Min1(Entries(e.wd))].name = "freed"
         THEN /\ monPc' = "undefined"
              /\ queue' = Tail(queue)
              /\ UNCHANGED <<wdOf, lastWd, table, count, purged>>
       ELSE IF e.mask = "delete" THEN Removes(Min1(Entries(e.wd)))
       ELSE /\ queue' = Tail(queue)
            /\ UNCHANGED purged
            /\ CASE e.mask = "create" /\ e.name \in tree -> Adds(e.name)
                 [] e.mask = "create" /\ e.name \notin tree -> Vanished
                 [] OTHER -> UNCHANGED <<wdOf, lastWd, table, count, monPc>>
  /\ UNCHANGED <<treeVars, toWalk>>

MonitorStep ==
  \/ MonitorHandles \/ WalkEnds
  \/ \E o \in Objects : WalkVisits(o) \/ WalkLists(o)
TreeChanges ==
  \/ \E o \in Moveable \cup {"S"} : Create(o)
  \/ \E o \in Moveable : Unlink(o) \/ \E to \in Moveable : Move(o, to)
MonitorNext == MonitorStarts \/ MonitorStep \/ TreeChanges

-----------------------------------------------------------------------------
\* What the monitor knows is right until the tree shrinks or the table is full,
\* whatever is created while nftw() walks and while events wait: it ends only
\* for a name that vanished before it was looked at (lines 47-50, 109-111); it
\* reads a wrong or unknown entry only after its own removal code has run
\* (lines 70-76) or with a full table; and with nothing deleted or moved and no
\* event waiting, every file of a watched directory is watched, and listed
\* under its own name.
MonitorKnowsItsWatches ==
  /\ monPc = "exit" => ~calm
  /\ monPc = "undefined" => purged \/ Free = {}
  /\ (monPc = "read" /\ calm /\ queue = <<>>) =>
       \A o \in tree \cap Moveable :
         wdOf[DirOf[o]] # 0 => \E i \in 1..Slots : table[i] = [wd |-> wdOf[o], name |-> o]
=============================================================================
