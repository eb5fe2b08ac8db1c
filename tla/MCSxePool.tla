------------------------------ MODULE MCSxePool ------------------------------
(* Model checking of SxePool on small pools. *)
EXTENDS SxePool, TLC

Symmetry == Permutations(Thread)
=============================================================================
