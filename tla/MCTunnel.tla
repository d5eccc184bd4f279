------------------------------ MODULE MCTunnel ------------------------------
(* Operators and pids are interchangeable.                                 *)
EXTENDS Tunnel, TLC

Symmetry == Permutations(Operators) \cup Permutations(Pids)
=============================================================================
