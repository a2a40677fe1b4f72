---------------------------- MODULE MCSpscQueue ----------------------------
(* The instance of SpscQueue for TLC. *)
EXTENDS SpscQueue, TLC

CONSTANTS b1, b2, b3, b4

FourBuffers == {b1, b2, b3, b4}

\* Buffers are only compared for equality.
BufferSymmetry == Permutations(FourBuffers)
=============================================================================
