----------------------------- MODULE BlockStream -----------------------------
(***************************************************************************)
(* What a copy program promises whoever reads its output: the blocks of    *)
(* the source in order, each once, and an end only after the last.         *)
(***************************************************************************)
EXTENDS Naturals, Sequences

CONSTANT Size   \* the blocks of the source are 1..Size

VARIABLES
  stream,       \* the blocks delivered so far
  state         \* "open" until the end has been announced

streamVars == <<stream, state>>

StreamInit == stream = <<>> /\ state = "open"

Deliver ==
  /\ state = "open" /\ Len(stream) < Size
  /\ stream' = Append(stream, Len(stream) + 1)
  /\ UNCHANGED state

Close ==
  /\ state = "open" /\ Len(stream) = Size
  /\ state' = "closed"
  /\ UNCHANGED stream

StreamNext == Deliver \/ Close

StreamSpec == StreamInit /\ [][StreamNext]_streamVars
=============================================================================
