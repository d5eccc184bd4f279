------------------------------ MODULE MCMining ------------------------------
(* Hash values on both sides of the targets of short and long exponents,   *)
(* and of byte boundaries.                                                 *)
EXTENDS Mining

MCHashValues == {0, 1, 4, 31, 64, 124, 500, 1023}
=============================================================================
