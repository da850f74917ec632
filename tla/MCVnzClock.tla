----------------------------- MODULE MCVnzClock -----------------------------
(* Values of the constants of VnzClock for TLC.                            *)
EXTENDS VnzClock, TLC

CONSTANTS p1, p2, t1, t2, t3

TwoProcesses == {p1, p2}
ThreeThreads == {t1, t2, t3}
PairAndOne == t1 :> p1 @@ t2 :> p1 @@ t3 :> p2

\* The default, two other legal frequencies and an illegal one.
SomeClocks == {166, 333, 41, 500}
=============================================================================
