------------------------------ MODULE PathNames ------------------------------
(***************************************************************************)
(* practice/31.2: dirname() and basename() with one buffer each in          *)
(* thread-specific data.  A path is a sequence of the characters "/", "."   *)
(* and "a", which stands for every other one; main() calls each function    *)
(* twice, in turn, with the same path.                                      *)
(***************************************************************************)
EXTENDS Integers, Sequences, FiniteSets

CONSTANT MaxPath   \* bound: the length of the path

ASSUME PathAssumption == MaxPath \in Nat

VARIABLES
  path,       \* argv[1]
  call,       \* the next of main's four calls, 0 before the first, 5 at the end
  dirBuf,     \* what myDirname() returned last; NULL, a buffer's content
  baseBuf,    \* what myBasename() returned last
  fdZero      \* descriptor 0 is free (the program was started without stdin)

pathVars == <<path, call, dirBuf, baseBuf, fdZero>>

NULL == <<"NULL">>
Paths == UNION {[1..n -> {"/", ".", "a"}] : n \in 0..MaxPath}

\* p without the characters at some positions: what is left of the first n, for each n.
Without(p, dropped) ==
  LET to[n \in 0..Len(p)] ==
        IF n = 0 THEN <<>>
        ELSE IF n \in dropped THEN to[n - 1] ELSE Append(to[n - 1], p[n])
  IN  to

\* judgePath: of slashes in a row the first is kept, one at the end is dropped.
Repeated(p) == {n \in 2..Len(p) : p[n] = "/" /\ p[n - 1] = "/"}
Squeeze(p) == Without(p, Repeated(p))[Len(p)]
Clean(p) ==
  LET to == Squeeze(p) IN
    IF to # <<>> /\ to[Len(to)] = "/" THEN SubSeq(to, 1, Len(to) - 1) ELSE to

\* Where the loops that start at the end find a slash; 0 if nowhere.
LastSlash(p) ==
  CHOOSE i \in 0..Len(p) : /\ i > 0 => p[i] = "/"
                           /\ \A j \in i+1..Len(p) : p[j] # "/"

\* The directory; "/" and ".." reach "if (len < 0)" with len uninitialised.
DirNames(p) ==
  IF p \in {<<"/">>, <<".", ".">>} THEN {p, <<".">>}
  ELSE LET i == LastSlash(Clean(p)) IN
         {IF i = 0 THEN <<".">> ELSE SubSeq(Clean(p), 1, i - 1)}

\* Fault: "temp++" is left out, the name keeps its slash.
BaseNameWithSlash(p) ==
  LET i == LastSlash(Clean(p)) IN
    IF p \in {<<"/">>, <<".">>, <<".", ".">>} \/ i = 0 THEN p
    ELSE SubSeq(Clean(p), i, Len(Clean(p)))

\* What follows the last slash; without one the path as it was given.
BaseName(p) ==
  LET i == LastSlash(Clean(p)) IN
    IF p \in {<<"/">>, <<".">>, <<".", ".">>} \/ i = 0 THEN p
    ELSE SubSeq(Clean(p), i + 1, Len(Clean(p)))

-----------------------------------------------------------------------------
PathInit ==
  /\ path = <<>> /\ call = 0
  /\ dirBuf = NULL /\ baseBuf = NULL
  /\ fdZero = FALSE

PathStarts ==
  /\ call = 0
  /\ path' \in Paths
  /\ fdZero' \in BOOLEAN
  /\ call' = 1
  /\ UNCHANGED <<dirBuf, baseBuf>>

\* open() of the cleaned path gets descriptor 0, if the path exists: NULL is
\* returned, and the descriptor stays open.
OpensZero ==
  /\ fdZero /\ fdZero' = FALSE
  /\ path \notin {<<"/">>, <<".", ".">>} /\ Clean(path) # <<>>

CallDirname ==
  /\ call \in {1, 3}
  /\ \/ dirBuf' \in DirNames(path) /\ UNCHANGED fdZero
     \/ dirBuf' = NULL /\ OpensZero
  /\ call' = call + 1
  /\ UNCHANGED <<path, baseBuf>>

CallBasename ==
  /\ call \in {2, 4}
  /\ \/ baseBuf' = BaseName(path) /\ UNCHANGED fdZero
     \/ baseBuf' = NULL /\ OpensZero /\ path # <<".">>
  /\ call' = call + 1
  /\ UNCHANGED <<path, dirBuf>>

PathNext == PathStarts \/ CallDirname \/ CallBasename

-----------------------------------------------------------------------------
\* The path without the slashes that another slash or the end follows.
Idle(p) == {n \in 1..Len(p) : p[n] = "/" /\ (n = Len(p) \/ p[n + 1] = "/")}
Normal(p) == Without(p, Idle(p))[Len(p)]

\* Directory and base name together are the path again (both calls, whichever
\* buffer was written last): joined by a slash if the normal form has one,
\* and otherwise the directory is "." and the base name the path as given;
\* "/" and ".." are their own base name.
NamesJoinBack ==
  (call >= 3 /\ dirBuf # NULL /\ baseBuf # NULL) =>
    IF path \in {<<"/">>, <<".", ".">>}
      THEN dirBuf \in {path, <<".">>} /\ baseBuf = path
    ELSE IF \E i \in DOMAIN Normal(path) : Normal(path)[i] = "/"
      THEN dirBuf \o <<"/">> \o baseBuf = Normal(path)
    ELSE dirBuf = <<".">> /\ baseBuf = path
=============================================================================
