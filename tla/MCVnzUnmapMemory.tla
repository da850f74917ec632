-------------------------- MODULE MCVnzUnmapMemory --------------------------
(* Values of the constants of VnzUnmapMemory for TLC.                      *)
EXTENDS VnzUnmapMemory, TLC

CONSTANTS t1, t2, t3, c1, c2

ThreeThreads == {t1, t2, t3}
\* c1 is freed by whoever holds it; c2 by any thread at any time.
TwoChunks == {c1, c2}
OneRaced == {c2}

\* Threads are interchangeable.
ThreadSymmetry == Permutations(Thread)
=============================================================================
