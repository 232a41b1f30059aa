---------------------------- MODULE MCShmTransfer ----------------------------
(* ShmTransfer under every fault. *)
EXTENDS ShmTransfer, TLC

CONSTANTS r1, r2

TwoReaders == {r1, r2}
AllFaults == {"kill", "fail", "foreign"}

\* The readers are alike.
ReaderSymmetry == Permutations(TwoReaders)
=============================================================================
