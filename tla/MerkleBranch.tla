----------------------------- MODULE MerkleBranch -----------------------------
(***************************************************************************)
(* The loop of compute_merkle_root_from_branch (src/merkle.rs) run against *)
(* a real block: the prover names a txid, an index and a transaction       *)
(* count, and hands over one sibling per level; nothing ties the claimed   *)
(* count to the block's own, and the siblings may be any digest.           *)
(*                                                                         *)
(* Digests are symbolic: no txid is also the digest of a pair of nodes.    *)
(***************************************************************************)
EXTENDS Merkle, FiniteSets

CONSTANTS
    MaxTxs,     \* bound on the transactions of a block
    MaxClaim,   \* bound on the claimed transaction count
    Stray       \* a digest that is nowhere in the block

ASSUME MerkleBranchAssumption == MaxTxs \in Nat \ {0} /\ MaxClaim \in Nat

VARIABLES
    size,       \* transactions in the block
    claim,      \* [txid, index, total, count]: what the prover says
    level,      \* siblings consumed
    branch,     \* the loop's h, idx, num and error
    result      \* what verify_merkle_inclusion returns

vars == <<size, claim, level, branch, result>>

-----------------------------------------------------------------------------
(* The block's real tree, computed level by level from all its txids. The  *)
(* last node of an odd level is paired with itself.                        *)

Leaf(k) == Sha256d([tx |-> k])

Parents(row) ==
    LET width == Len(row)
    IN  [k \in 1..((width + 1) \div 2) |->
            HashPair(row[2 * k - 1], row[IF 2 * k <= width THEN 2 * k ELSE width])]

Tree(n) ==
    LET Row[l \in Nat] == IF l = 0 THEN [k \in 1..n |-> Leaf(k)] ELSE Parents(Row[l - 1])
    IN  [l \in 0..TreeDepth[n] |-> Row[l]]

Rows == [n \in 1..MaxTxs |-> Tree(n)]
Root(n) == Rows[n][TreeDepth[n]][1]

ASSUME StrayAssumption ==
    \A n \in 1..MaxTxs : \A l \in 0..TreeDepth[n] : \A k \in 1..Len(Rows[n][l]) :
        Stray # Rows[n][l][k]

\* Siblings the prover may hand over at a level: the block's nodes there, the
\* running hash and a stray digest.  Any other digest changes the root as the
\* stray one does.
Offered(n, l, h) ==
    {h, Stray} \cup IF l <= TreeDepth[n] THEN {Rows[n][l][k] : k \in DOMAIN Rows[n][l]} ELSE {}

\* The places (from 0) of a transaction and of its ancestors, row by row
Places(n, index) ==
    LET at[l \in 0..TreeDepth[n]] == IF l = 0 THEN index ELSE at[l - 1] \div 2
    IN  at

\* The siblings of transaction index (from 0) in a block of n.
GenuineSibling(n, l, index) ==
    LET row  == Rows[n][l]
        at   == Places(n, index)[l]
        mate == IF at % 2 = 0 THEN at + 1 ELSE at - 1
    IN  IF mate < Len(row) THEN row[mate + 1] ELSE row[at + 1]

-----------------------------------------------------------------------------
\* Opening: an index or count out of range fails before the loop.
Init ==
    /\ size \in 1..MaxTxs
    /\ claim \in [txid : {Leaf(k) : k \in 1..size} \cup {Stray},
                  index : 0..MaxClaim, total : 0..MaxClaim, count : 0..TreeDepth[MaxClaim]]
    /\ level = 0
    /\ branch = OpenBranch(claim.txid, claim.index, claim.count, claim.total)
    /\ result = "none"

Consume ==
    /\ result = "none" /\ branch.error = "ok" /\ level < claim.count
    /\ \E sib \in Offered(size, level, branch.h) : branch' = BranchStep(branch, sib)
    /\ level' = level + 1
    /\ UNCHANGED <<size, claim, result>>

Conclude ==
    /\ result = "none"
    /\ branch.error # "ok" \/ level = claim.count
    /\ result' = CloseBranch(branch, Root(size))
    /\ UNCHANGED <<size, claim, level, branch>>

Returned == result # "none" /\ UNCHANGED vars

Next == Consume \/ Conclude \/ Returned

Spec == Init /\ [][Next]_vars

-----------------------------------------------------------------------------
(* Properties *)

\* The loop state stays in range: while no error is found, the node exists in
\* the claimed tree's row, and the row shrinks to one node exactly when the
\* siblings run out.
TypeOK ==
    /\ size \in 1..MaxTxs /\ level \in 0..claim.count
    /\ result \in {"none", "ok", "EmptyTree", "IndexOutOfRange", "BranchLengthMismatch",
                   "IdenticalChildren", "MalformedDuplication", "RootMismatch"}
    /\ branch.error = "ok" =>
        /\ branch.idx < branch.num
        /\ (branch.num = 1) <=> (level = claim.count)

\* A proof accepted against the block's root places the txid where it really
\* is, whatever transaction count the prover claimed: no duplicated last node
\* (CVE-2012-2459) is passed off as a transaction of its own.
AcceptedIsInBlock ==
    result = "ok" => /\ claim.index < size
                     /\ claim.txid = Leaf(claim.index + 1)

\* The genuine branch of every transaction is accepted, the last odd one and
\* the single transaction included.
GenuineAccepted ==
    \A index \in 0..(size - 1) :
        VerifyInclusion(Leaf(index + 1),
            [tx_index |-> index, total_transactions |-> size,
             siblings |-> [l \in 1..TreeDepth[size] |-> GenuineSibling(size, l - 1, index)]],
            Root(size)) = "ok"
=============================================================================
