---------------------------- MODULE MCVnzBridge -----------------------------
(* Values of the constants of VnzBridge for TLC.                           *)
EXTENDS VnzBridge, TLC

CONSTANTS p1, p2, t1, t2, t3, b1, b2, b3

TwoProcesses == {p1, p2}
TwoThreads == {t1, t2}
ThreeThreads == {t1, t2, t3}
\* t1 and t2 belong to p1, t3 to p2; or t1 to p1 and t2 to p2; or both to p1.
PairAndOne == t1 :> p1 @@ t2 :> p1 @@ t3 :> p2
OneEach == t1 :> p1 @@ t2 :> p2
BothOfOne == t1 :> p1 @@ t2 :> p1

OneBlock == {b1}
TwoBlocks == {b1, b2}
ThreeBlocks == {b1, b2, b3}
OwnerOfOne == b1 :> p1
OwnerOfEach == b1 :> p1 @@ b2 :> p2
\* b1 and b3 belong to p1, b2 to p2; b3 does not hold a MeP ELF.
OwnerOfThree == b1 :> p1 @@ b2 :> p2 @@ b3 :> p1

\* Argument forms: none, a block at the limit, a block above it.
BlockOrNone == {[ptr |-> FALSE, size |-> 0], [ptr |-> TRUE, size |-> 500]}
DocumentedArgs == BlockOrNone \cup {[ptr |-> TRUE, size |-> 501]}
\* Also no block but a size, just above the limit.
AnyArgs == DocumentedArgs \cup {[ptr |-> FALSE, size |-> 501]}

\* The operations that must not overlap for the statics to stay consistent.
SessionDiscipline == {{"inject"}, {"restore"}, {"restore", "exec"}}
\* ... and executions one at a time.
SerialDiscipline == SessionDiscipline \cup {{"exec"}}
NoDiscipline == {}

\* Kernel map ids are interchangeable, and so are t1 and t2, both of them p1's.
PairSymmetry == Permutations(MapId) \cup Permutations({t1, t2})
=============================================================================
