---------------------------- MODULE AppendWriters ----------------------------
(***************************************************************************)
(* practice/5.3: atomic_append writes bytes to the end of a file, with      *)
(* O_APPEND or, given a third argument, with lseek() before each write().   *)
(* Two processes are started with the same file.                            *)
(***************************************************************************)
EXTENDS Integers, FiniteSets

CONSTANT MaxBytes   \* bound: the num-bytes of a process, the old length

ASSUME BytesAssumption == MaxBytes \in Nat

VARIABLES
  appendPc,   \* appendPc[w]: "off" "loop" "write" "ended"
  uselseek,   \* uselseek[w]: a third argument was given
  bytes,      \* bytes[w]: count, what is left to be written
  written,    \* written[w]: how many write() calls have succeeded
  offset,     \* offset[w]: the offset of w's descriptor
  oldLength,  \* the length of the file before
  length      \* its length now

appendVars == <<appendPc, uselseek, bytes, written, offset, oldLength, length>>

Writers == {"one", "two"}

AppendInit ==
  /\ appendPc = [w \in Writers |-> "off"]
  /\ uselseek = [w \in Writers |-> FALSE]
  /\ bytes = [w \in Writers |-> 0]
  /\ written = [w \in Writers |-> 0]
  /\ offset = [w \in Writers |-> 0]
  /\ oldLength = 0 /\ length = 0

\* The file may be there already.
FileExists ==
  /\ \A w \in Writers : appendPc[w] = "off"
  /\ oldLength' \in 1..MaxBytes /\ length' = oldLength'
  /\ UNCHANGED <<appendPc, uselseek, bytes, written, offset>>

\* Arguments and open(): the offset is 0.
AppendOpens(w) ==
  /\ appendPc[w] = "off"
  /\ \E n \in 0..MaxBytes, seek \in BOOLEAN :
       /\ bytes' = [bytes EXCEPT ![w] = n]
       /\ uselseek' = [uselseek EXCEPT ![w] = seek]
  /\ appendPc' = [appendPc EXCEPT ![w] = "loop"]
  /\ UNCHANGED <<written, offset, oldLength, length>>

\* "flags = uselseek ? 0 : O_APPEND".
Flags(w) == IF uselseek[w] THEN {} ELSE {"O_APPEND"}

\* The end of the loop, or lseek(SEEK_END) if asked for.
AppendSeeks(w) ==
  /\ appendPc[w] = "loop"
  /\ appendPc' = [appendPc EXCEPT ![w] = IF bytes[w] = 0 THEN "ended" ELSE "write"]
  /\ offset' = IF uselseek[w] /\ bytes[w] > 0 THEN [offset EXCEPT ![w] = length] ELSE offset
  /\ UNCHANGED <<uselseek, bytes, written, oldLength, length>>

\* Fault: O_APPEND is not passed to open(), every byte goes to the offset.
AppendWritesAtOffset(w) ==
  /\ appendPc[w] = "write"
  /\ length' = IF offset[w] = length THEN length + 1 ELSE length
  /\ offset' = [offset EXCEPT ![w] = @ + 1]
  /\ bytes' = [bytes EXCEPT ![w] = @ - 1]
  /\ written' = [written EXCEPT ![w] = @ + 1]
  /\ appendPc' = [appendPc EXCEPT ![w] = "loop"]
  /\ UNCHANGED <<uselseek, oldLength>>

\* write() of one byte: where the file ends now, or at the offset; or it fails.
AppendWrites(w) ==
  /\ appendPc[w] = "write"
  /\ \/ LET at == IF "O_APPEND" \in Flags(w) THEN length ELSE offset[w] IN
          /\ length' = IF at = length THEN length + 1 ELSE length
          /\ offset' = [offset EXCEPT ![w] = at + 1]
          /\ bytes' = [bytes EXCEPT ![w] = @ - 1]
          /\ written' = [written EXCEPT ![w] = @ + 1]
          /\ appendPc' = [appendPc EXCEPT ![w] = "loop"]
     \/ /\ appendPc' = [appendPc EXCEPT ![w] = "ended"]
        /\ UNCHANGED <<bytes, written, offset, length>>
  /\ UNCHANGED <<uselseek, oldLength>>

AppendNext ==
  \/ FileExists
  \/ \E w \in Writers : AppendOpens(w) \/ AppendSeeks(w) \/ AppendWrites(w)

-----------------------------------------------------------------------------
\* How long the file is when each process has written written[w] bytes: with
\* O_APPEND in both no byte is lost; a process that seeks may overwrite bytes
\* of the other, written between its lines 37 and 42, but never one of the old
\* file nor one of its own.
AppendsAreKept ==
  LET grown == length - oldLength
      total == written["one"] + written["two"]
      seekers == {w \in Writers : uselseek[w]}
  IN /\ grown <= total
     /\ \A w \in Writers : grown >= written[w]
     /\ seekers = {} => grown = total
=============================================================================
