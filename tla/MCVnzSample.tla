----------------------------- MODULE MCVnzSample -----------------------------
(* Values of the constants of VnzSample for TLC.                           *)
EXTENDS VnzSample

CONSTANTS p1, p2

TwoProcesses == {p1, p2}
=============================================================================
