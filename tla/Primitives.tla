----------------------------- MODULE Primitives -----------------------------
(***************************************************************************)
(* The vocabulary every module of this project shares: the cryptographic   *)
(* digests of src/lib.rs and the width of the `u32` heights.               *)
(*                                                                         *)
(* A digest is symbolic: it is the record of what was hashed.  Equal       *)
(* digests therefore mean equal preimages (the collision resistance that   *)
(* the verifier relies on) and the three hash functions never meet.  The   *)
(* numeric value of a block hash, which proof of work compares, is the     *)
(* operator HashBytes of module Pow.                                       *)
(***************************************************************************)
EXTENDS Integers, Sequences

CONSTANTS
    MaxU32,   \* the largest height a u32 holds
    Absent    \* what Option::None stands for

ASSUME MaxU32Assumption == MaxU32 \in Nat

Sha256d(data)   == [sha256d |-> data]
Sha256(data)    == [sha256 |-> data]
Keccak256(data) == [keccak256 |-> data]

\* A Vec: a sequence of anything.
IsVector(s) == Len(s) \in Nat /\ s = [k \in 1..Len(s) |-> s[k]]

\* checked_add answers None unless the exact sum is a u32.
Fits(n) == n <= MaxU32
=============================================================================
