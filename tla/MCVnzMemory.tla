----------------------------- MODULE MCVnzMemory -----------------------------
(* Values of the constants of VnzMemory for TLC.                           *)
EXTENDS VnzMemory, TLC

CONSTANTS t1, t2, v1, v2

TwoThreads == {t1, t2}
TwoValues == {v1, v2}

\* Four lines of two bytes: a range that begins and ends inside lines 0 and 1, and
\* one that fills lines 1 and 2.  Line 3 is never mapped.
Ranges == {[va |-> 1, size |-> 2], [va |-> 2, size |-> 4]}

\* Threads are interchangeable.
Symmetry == Permutations(TwoThreads)
=============================================================================
