------------------------------- MODULE Merkle -------------------------------
(***************************************************************************)
(* src/merkle.rs: recomputing a Merkle root from a claimed branch.         *)
(* The loop state of compute_merkle_root_from_branch is a record [h, idx,  *)
(* num, error]; MerkleBranch runs the loop step by step and               *)
(* VerifyInclusion folds it.                                               *)
(***************************************************************************)
EXTENDS Primitives, SequencesExt

HashPair(left, right) == Sha256d([left |-> left, right |-> right])

TreeDepth[n \in Nat] == IF n <= 1 THEN 0 ELSE 1 + TreeDepth[(n + 1) \div 2]

\* The checks made before the loop; the sibling count is what the caller has.
OpeningError(index, count, total) ==
    IF total = 0 THEN "EmptyTree"
    ELSE IF index >= total THEN "IndexOutOfRange"
    ELSE IF count # TreeDepth[total] THEN "BranchLengthMismatch"
    ELSE "ok"

OpenBranch(txid, index, count, total) ==
    [h |-> txid, idx |-> index, num |-> total,
     error |-> OpeningError(index, count, total)]

\* Deviations: the parity of the row alone, a duplicate passed off as a node of
\* its own, and a row halved without its odd node.  Nothing else uses them.
IsInOddRow(b) == b.num % 2 = 1

IsLastOdd(b) == b.num % 2 = 1 /\ b.idx = b.num - 1

SiblingErrorDuplicateOk(b, sib) ==
    IF IsLastOdd(b) /\ sib # b.h THEN "MalformedDuplication" ELSE "ok"

SiblingError(b, sib) ==
    IF IsLastOdd(b)
    THEN IF sib = b.h THEN "ok" ELSE "MalformedDuplication"
    ELSE IF sib = b.h THEN "IdenticalChildren" ELSE "ok"

BranchStepFloor(b, sib) ==
    IF b.error # "ok" THEN b
    ELSE IF SiblingError(b, sib) # "ok" THEN [b EXCEPT !.error = SiblingError(b, sib)]
    ELSE [h     |-> IF b.idx % 2 = 0 THEN HashPair(b.h, sib) ELSE HashPair(sib, b.h),
          idx   |-> b.idx \div 2,
          num   |-> b.num \div 2,
          error |-> "ok"]

\* The last odd node has an even index, so it is hashed with its own copy.
BranchStep(b, sib) ==
    IF b.error # "ok" THEN b
    ELSE IF SiblingError(b, sib) # "ok" THEN [b EXCEPT !.error = SiblingError(b, sib)]
    ELSE [h     |-> IF b.idx % 2 = 0 THEN HashPair(b.h, sib) ELSE HashPair(sib, b.h),
          idx   |-> b.idx \div 2,
          num   |-> (b.num + 1) \div 2,
          error |-> "ok"]

CloseBranch(b, expectedRoot) ==
    IF b.error = "ok" /\ b.h # expectedRoot THEN "RootMismatch" ELSE b.error

\* verify_merkle_inclusion
VerifyInclusion(txid, proof, expectedRoot) ==
    CloseBranch(FoldLeft(BranchStep,
                         OpenBranch(txid, proof.tx_index, Len(proof.siblings),
                                    proof.total_transactions),
                         proof.siblings),
                expectedRoot)
=============================================================================
