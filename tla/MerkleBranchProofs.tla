------------------------- MODULE MerkleBranchProofs -------------------------
(***************************************************************************)
(* MerkleBranch's loop invariant and the soundness of Merkle proofs, for   *)
(* blocks of any number of transactions, every claimed count and every     *)
(* sibling a prover may hand over.                                         *)
(*                                                                         *)
(* The depth of a tree and the fold over a branch are recursive functions. *)
(* That they satisfy the equations they are defined by is proved from the  *)
(* least number of a set, since an induction principle takes its property  *)
(* as a parameter.                                                         *)
(***************************************************************************)
EXTENDS MerkleBranch, WellFoundedInduction, SequenceTheorems, TLAPS

-----------------------------------------------------------------------------
(* Recursion over the naturals *)

\* A set of numbers has a least one.
LEMMA LeastNumber ==
    ASSUME NEW T, T \subseteq Nat, T # {}
    PROVE  \E x \in T : \A y \in T : x <= y
<1> DEFINE R == OpToRel(<, Nat)
<1>1. IsWellFoundedOn(R, Nat)
    BY NatLessThanWellFounded
<1>2. \A x, y \in Nat : <<y, x>> \in R <=> y < x
    BY DEF OpToRel
<1> HIDE DEF R
<1>3. PICK x \in T : \A y \in T : ~(<<y, x>> \in R)
    BY <1>1, WFMin
<1>4. ASSUME NEW y \in T PROVE x <= y
    <2>1. x \in Nat /\ y \in Nat /\ ~(y < x)
        BY <1>2, <1>3
    <2> QED BY <2>1
<1> QED BY <1>4

\* So whatever fails for some number fails for a first one.
LEMMA FirstFailure ==
    ASSUME NEW T, T \subseteq Nat, T # {}
    PROVE  \E x \in T : \A y \in Nat : y < x => y \notin T
<1>1. PICK x \in T : \A y \in T : x <= y
    BY LeastNumber
<1>2. ASSUME NEW y \in Nat, y < x, y \in T PROVE FALSE
    BY <1>1, <1>2
<1> QED BY <1>1, <1>2

\* A sequence is as long as its index set.
LEMMA LengthOf ==
    ASSUME NEW w \in Nat, NEW s, s = [k \in 1..w |-> s[k]]
    PROVE  Len(s) = w
<1> DEFINE S == {s[k] : k \in 1..w}
<1>1. s \in [1..w -> S]
    OBVIOUS
<1>2. s \in Seq(S)
    BY <1>1, SeqDef
<1>3. DOMAIN s = 1..Len(s) /\ Len(s) \in Nat
    BY <1>2, LenProperties
<1>4. DOMAIN s = 1..w
    OBVIOUS
<1> QED BY <1>3, <1>4

\* tree_depth (merkle.rs:10-19) is defined for every transaction count.
LEMMA TreeDepthExists ==
    \E f : f = [n \in Nat |-> IF n <= 1 THEN 0 ELSE 1 + f[(n + 1) \div 2]]
<1> DEFINE Depth(g, n)  == IF n <= 1 THEN 0 ELSE 1 + g[(n + 1) \div 2]
           UpTo(g, n)   == g = [m \in Nat |-> g[m]] /\ \A m \in 0..n : g[m] = Depth(g, m)
           part(n)      == CHOOSE g : UpTo(g, n)
           whole        == [n \in Nat |-> part(n)[n]]
<1>1. \A n \in Nat : n > 1 => (n + 1) \div 2 \in Nat /\ (n + 1) \div 2 < n
    OBVIOUS
<1>2. \A n \in Nat : \E g : UpTo(g, n)
    <2> DEFINE T == {n \in Nat : ~\E g : UpTo(g, n)}
    <2> SUFFICES ASSUME T # {} PROVE FALSE
        OBVIOUS
    <2>1. T \subseteq Nat
        OBVIOUS
    <2>2. PICK n \in T : \A m \in Nat : m < n => m \notin T
        BY <2>1, FirstFailure
    <2>3. n \in Nat /\ ~\E g : UpTo(g, n)
        OBVIOUS
    <2>4. CASE n = 0
        <3> DEFINE g == [m \in Nat |-> 0]
        <3>1. UpTo(g, n)
            BY <2>4
        <3> QED BY <3>1, <2>3
    <2>5. CASE n # 0
        <3>1. n - 1 \in Nat /\ n - 1 < n
            BY <2>3, <2>5
        <3>2. PICK h : UpTo(h, n - 1)
            BY <3>1, <2>2
        <3> DEFINE g == [m \in Nat |-> IF m = n THEN Depth(h, n) ELSE h[m]]
        <3>3. g = [m \in Nat |-> g[m]]
            OBVIOUS
        <3>4. ASSUME NEW m \in 0..n PROVE g[m] = Depth(g, m)
            <4>1. m \in Nat /\ m <= n
                BY <2>3
            <4>2. Depth(g, m) = Depth(h, m)
                <5>1. CASE m <= 1
                    BY <5>1
                <5>2. CASE m > 1
                    <6>1. (m + 1) \div 2 \in Nat /\ (m + 1) \div 2 # n
                        BY <5>2, <4>1, <1>1, <2>3
                    <6>2. g[(m + 1) \div 2] = h[(m + 1) \div 2]
                        BY <6>1
                    <6> QED BY <6>2
                <5> QED BY <5>1, <5>2, <4>1
            <4>3. CASE m = n
                BY <4>1, <4>2, <4>3
            <4>4. CASE m # n
                <5>1. m \in 0..(n - 1)
                    BY <4>1, <4>4, <2>3
                <5> QED BY <5>1, <4>1, <4>2, <4>4, <3>2
            <4> QED BY <4>3, <4>4
        <3>5. UpTo(g, n)
            BY <3>3, <3>4
        <3> QED BY <3>5, <2>3
    <2> QED BY <2>4, <2>5
<1>3. ASSUME NEW n \in Nat, NEW m \in Nat, NEW g, NEW h, UpTo(g, n), UpTo(h, m)
      PROVE  \A k \in Nat : k <= n /\ k <= m => g[k] = h[k]
    <2> DEFINE T == {k \in Nat : k <= n /\ k <= m /\ g[k] # h[k]}
    <2> SUFFICES ASSUME T # {} PROVE FALSE
        OBVIOUS
    <2>1. T \subseteq Nat
        OBVIOUS
    <2>2. PICK k \in T : \A j \in Nat : j < k => j \notin T
        BY <2>1, FirstFailure
    <2>3. k \in Nat /\ k <= n /\ k <= m /\ g[k] # h[k]
        OBVIOUS
    <2>4. g[k] = Depth(g, k) /\ h[k] = Depth(h, k)
        <3>1. k \in 0..n /\ k \in 0..m
            BY <2>3
        <3> QED BY <3>1, <1>3
    <2>5. k > 1 /\ g[(k + 1) \div 2] # h[(k + 1) \div 2]
        BY <2>3, <2>4
    <2> DEFINE j == (k + 1) \div 2
    <2>6. j \in Nat /\ j < k
        BY <2>3, <2>5, <1>1
    <2> HIDE DEF j
    <2>7. j <= n /\ j <= m
        BY <2>3, <2>6
    <2>8. j \in T
        BY <2>5, <2>6, <2>7 DEF j
    <2> QED BY <2>2, <2>6, <2>8
<1>4. \A n \in Nat : UpTo(part(n), n)
    BY <1>2
<1> HIDE DEF part
<1>5. ASSUME NEW n \in Nat PROVE whole[n] = Depth(whole, n)
    <2>1. part(n)[n] = Depth(part(n), n)
        BY <1>4
    <2>2. CASE n <= 1
        BY <2>1, <2>2
    <2>3. CASE n > 1
        <3> DEFINE k == (n + 1) \div 2
        <3>1. k \in Nat /\ k < n
            BY <2>3, <1>1
        <3> HIDE DEF k
        <3>2. UpTo(part(n), n) /\ UpTo(part(k), k) /\ k <= n /\ k <= k
            BY <3>1, <1>4
        <3> HIDE DEF UpTo
        <3>3. part(n)[k] = part(k)[k]
            BY <3>1, <3>2, <1>3
        <3> QED BY <3>1, <3>3, <2>1, <2>3 DEF k
    <2> QED BY <2>2, <2>3
<1>6. whole = [n \in Nat |-> Depth(whole, n)]
    BY <1>5
<1> QED BY <1>6

\* It is 0 for up to one transaction, and one more than that of half as many,
\* rounded up, for all others.
LEMMA TreeDepthIs ==
    ASSUME NEW n \in Nat
    PROVE  TreeDepth[n] = IF n <= 1 THEN 0 ELSE 1 + TreeDepth[(n + 1) \div 2]
<1>1. TreeDepth = [m \in Nat |-> IF m <= 1 THEN 0 ELSE 1 + TreeDepth[(m + 1) \div 2]]
    BY TreeDepthExists DEF TreeDepth
<1> QED BY <1>1

\* It is a number,
LEMMA TreeDepthIsNat == ASSUME NEW n \in Nat PROVE TreeDepth[n] \in Nat
<1> DEFINE T == {m \in Nat : TreeDepth[m] \notin Nat}
<1> SUFFICES ASSUME T # {} PROVE FALSE
    OBVIOUS
<1>1. T \subseteq Nat
    OBVIOUS
<1>2. PICK m \in T : \A j \in Nat : j < m => j \notin T
    BY <1>1, FirstFailure
<1>3. m \in Nat /\ TreeDepth[m] \notin Nat
    OBVIOUS
<1>4. m > 1 /\ TreeDepth[m] = 1 + TreeDepth[(m + 1) \div 2]
    BY <1>3, TreeDepthIs
<1>5. (m + 1) \div 2 \in Nat /\ (m + 1) \div 2 < m
    BY <1>3, <1>4
<1>6. TreeDepth[(m + 1) \div 2] \in Nat
    BY <1>2, <1>5
<1> QED BY <1>3, <1>4, <1>6

\* and 0 only for a tree of one node or none.
LEMMA TreeDepthZero == ASSUME NEW n \in Nat PROVE TreeDepth[n] = 0 <=> n <= 1
<1>1. CASE n > 1
    <2>1. (n + 1) \div 2 \in Nat
        BY <1>1
    <2>2. TreeDepth[(n + 1) \div 2] \in Nat
        BY <2>1, TreeDepthIsNat
    <2> QED BY <2>2, <1>1, TreeDepthIs
<1> QED BY <1>1, TreeDepthIs

-----------------------------------------------------------------------------
(* The loop over the branch *)

\* The fold over a branch is a recursive function on the sets of its places, which
\* takes the greatest place off each time.
FoldFrom(g, b, seq, n) ==
    g = [s \in SUBSET (1..n) |->
            IF s = {} THEN b ELSE BranchStep(g[s \ {Max(s)}], seq[Max(s)])]

\* There is such a function.
LEMMA FoldExists ==
    ASSUME NEW b, NEW seq, NEW n \in Nat PROVE \E g : FoldFrom(g, b, seq, n)
<1> DEFINE Step(g, s) == IF s = {} THEN b ELSE BranchStep(g[s \ {Max(s)}], seq[Max(s)])
           T == {m \in Nat : ~\E g : g = [s \in SUBSET (1..m) |-> Step(g, s)]}
<1> SUFFICES ASSUME T # {} PROVE FALSE
    BY DEF FoldFrom
<1>1. PICK m \in T : \A j \in Nat : j < m => j \notin T
    BY FirstFailure
<1>2. m \in Nat /\ ~\E g : g = [s \in SUBSET (1..m) |-> Step(g, s)]
    OBVIOUS
<1>3. CASE m = 0
    <2> DEFINE g == [s \in SUBSET (1..m) |-> b]
    <2>1. \A s \in SUBSET (1..m) : s = {}
        BY <1>3
    <2>2. g = [s \in SUBSET (1..m) |-> Step(g, s)]
        BY <2>1
    <2> QED BY <2>2, <1>2
<1>4. CASE m # 0
    <2>1. m - 1 \in Nat /\ m - 1 < m
        BY <1>2, <1>4
    <2>2. PICK h : h = [s \in SUBSET (1..(m - 1)) |-> Step(h, s)]
        BY <2>1, <1>1
    <2> DEFINE g == [s \in SUBSET (1..m) |->
                        IF m \in s THEN BranchStep(h[s \ {m}], seq[m]) ELSE h[s]]
    <2>3. ASSUME NEW s \in SUBSET (1..m) PROVE g[s] = Step(g, s)
        <3>1. CASE m \in s
            <4>1. Max(s) = m
                <5>1. \A x \in s : x \in Nat /\ m >= x
                    BY <1>2
                <5>2. \A x \in s : (\A y \in s : x >= y) => x = m
                    BY <5>1, <3>1, <1>2
                <5> QED BY <5>1, <5>2, <3>1 DEF Max
            <4>2. s \ {m} \in SUBSET (1..m) /\ m \notin s \ {m}
                OBVIOUS
            <4>3. g[s \ {m}] = h[s \ {m}]
                BY <4>2
            <4>4. g[s] = BranchStep(h[s \ {m}], seq[m])
                BY <3>1
            <4> HIDE DEF g
            <4> QED BY <4>1, <4>3, <4>4, <3>1
        <3>2. CASE m \notin s
            <4>1. s \in SUBSET (1..(m - 1))
                BY <3>2, <1>2
            <4>2. g[s] = h[s] /\ h[s] = Step(h, s)
                BY <3>2, <4>1, <2>2
            <4>3. s \ {Max(s)} \in SUBSET (1..m) /\ m \notin s \ {Max(s)}
                BY <3>2
            <4>4. g[s \ {Max(s)}] = h[s \ {Max(s)}]
                BY <4>3
            <4> HIDE DEF g
            <4> QED BY <4>2, <4>4
        <3> QED BY <3>1, <3>2
    <2>4. g = [s \in SUBSET (1..m) |-> Step(g, s)]
        BY <2>3
    <2> QED BY <2>4, <1>2
<1> QED BY <1>3, <1>4

\* It goes through the branch from its first sibling to its last: if f has the
\* loop's state before the first turn and after each, the fold is the last of them.
LEMMA BranchFold ==
    ASSUME NEW n \in Nat, NEW seq, DOMAIN seq = 1..n,
           NEW f, \A k \in 1..n : f[k] = BranchStep(f[k - 1], seq[k])
    PROVE  FoldLeft(BranchStep, f[0], seq) = f[n]
<1> DEFINE Step(g, s) == IF s = {} THEN f[0]
                         ELSE BranchStep(g[s \ {Max(s)}], seq[Max(s)])
           fold == CHOOSE g : FoldFrom(g, f[0], seq, n)
<1>1. FoldLeft(BranchStep, f[0], seq) = fold[1..n]
    BY DEF FoldLeft, MapThenFoldSet, FoldFrom
<1>2. fold = [s \in SUBSET (1..n) |-> Step(fold, s)]
    <2>1. FoldFrom(fold, f[0], seq, n)
        BY FoldExists
    <2> QED BY <2>1 DEF FoldFrom
<1> HIDE DEF fold
<1>3. \A k \in 0..n : fold[1..k] = f[k]
    <2> DEFINE T == {k \in 0..n : fold[1..k] # f[k]}
    <2> SUFFICES ASSUME T # {} PROVE FALSE
        OBVIOUS
    <2>1. T \subseteq Nat
        OBVIOUS
    <2>2. PICK k \in T : \A j \in Nat : j < k => j \notin T
        BY <2>1, FirstFailure
    <2>3. k \in Nat /\ k <= n /\ fold[1..k] # f[k] /\ 1..k \in SUBSET (1..n)
        OBVIOUS
    <2>4. fold[1..k] = Step(fold, 1..k)
        BY <2>3, <1>2
    <2>5. CASE k = 0
        <3>1. 1..k = {}
            BY <2>5
        <3> QED BY <3>1, <2>3, <2>4, <2>5
    <2>6. CASE k # 0
        <3>1. k - 1 \in 0..n /\ k - 1 < k /\ k \in 1..n /\ k \in 1..k
            BY <2>3, <2>6
        <3>2. Max(1..k) = k
            <4>1. \A x \in 1..k : x \in Nat /\ k >= x
                BY <2>3
            <4>2. \A x \in 1..k : (\A y \in 1..k : x >= y) => x = k
                BY <4>1, <3>1, <2>3
            <4> QED BY <4>1, <4>2, <3>1 DEF Max
        <3>3. (1..k) \ {k} = 1..(k - 1) /\ 1..k # {}
            <4>1. \A x : x \in (1..k) \ {k} <=> x \in 1..(k - 1)
                BY <2>3
            <4> QED BY <4>1, <3>1
        <3>4. fold[1..k] = BranchStep(fold[1..(k - 1)], seq[k])
            BY <2>4, <3>2, <3>3
        <3>5. fold[1..(k - 1)] = f[k - 1]
            BY <2>2, <3>1
        <3>6. f[k] = BranchStep(f[k - 1], seq[k])
            BY <3>1
        <3> QED BY <2>3, <3>4, <3>5, <3>6
    <2> QED BY <2>5, <2>6
<1> QED BY <1>1, <1>3

-----------------------------------------------------------------------------
(* The rows of a block's tree *)

\* The rows of a tree, without the limit of its depth, are defined for every
\* level.
LEMMA RowsExist ==
    ASSUME NEW leaves
    PROVE  \E f : f = [l \in Nat |-> IF l = 0 THEN leaves ELSE Parents(f[l - 1])]
<1> DEFINE Row(g, l)  == IF l = 0 THEN leaves ELSE Parents(g[l - 1])
           UpTo(g, n) == g = [l \in Nat |-> g[l]] /\ \A l \in 0..n : g[l] = Row(g, l)
           part(n)    == CHOOSE g : UpTo(g, n)
           whole      == [l \in Nat |-> part(l)[l]]
<1>1. \A n \in Nat : \E g : UpTo(g, n)
    <2> DEFINE T == {n \in Nat : ~\E g : UpTo(g, n)}
    <2> SUFFICES ASSUME T # {} PROVE FALSE
        OBVIOUS
    <2>1. T \subseteq Nat
        OBVIOUS
    <2>2. PICK n \in T : \A m \in Nat : m < n => m \notin T
        BY <2>1, FirstFailure
    <2>3. n \in Nat /\ ~\E g : UpTo(g, n)
        OBVIOUS
    <2>4. CASE n = 0
        <3> DEFINE g == [l \in Nat |-> leaves]
        <3>1. UpTo(g, n)
            BY <2>4
        <3> QED BY <3>1, <2>3
    <2>5. CASE n # 0
        <3>1. n - 1 \in Nat /\ n - 1 < n
            BY <2>3, <2>5
        <3>2. PICK h : UpTo(h, n - 1)
            BY <3>1, <2>2
        <3> DEFINE g == [l \in Nat |-> IF l = n THEN Parents(h[n - 1]) ELSE h[l]]
        <3>3. g = [l \in Nat |-> g[l]]
            OBVIOUS
        <3>4. g[n - 1] = h[n - 1] /\ g[n] = Parents(h[n - 1])
            BY <3>1, <2>3
        <3>5. ASSUME NEW l \in 0..n PROVE g[l] = Row(g, l)
            <4>1. l \in Nat /\ l <= n
                BY <2>3
            <4>2. CASE l = n
                BY <4>2, <3>4, <2>5
            <4>3. CASE l # n
                <5>1. l \in 0..(n - 1) /\ g[l] = h[l]
                    BY <4>1, <4>3, <2>3
                <5>2. h[l] = Row(h, l)
                    BY <5>1, <3>2
                <5>3. CASE l = 0
                    BY <5>1, <5>2, <5>3
                <5>4. CASE l # 0
                    <6>1. l - 1 \in Nat /\ l - 1 # n
                        BY <4>1, <5>4, <2>3
                    <6>2. g[l - 1] = h[l - 1]
                        BY <6>1
                    <6> QED BY <6>2, <5>1, <5>2, <5>4
                <5> QED BY <5>3, <5>4
            <4> QED BY <4>2, <4>3
        <3>6. UpTo(g, n)
            BY <3>3, <3>5
        <3> QED BY <3>6, <2>3
    <2> QED BY <2>4, <2>5
<1>2. ASSUME NEW n \in Nat, NEW m \in Nat, NEW g, NEW h, UpTo(g, n), UpTo(h, m)
      PROVE  \A k \in Nat : k <= n /\ k <= m => g[k] = h[k]
    <2> DEFINE T == {k \in Nat : k <= n /\ k <= m /\ g[k] # h[k]}
    <2> SUFFICES ASSUME T # {} PROVE FALSE
        OBVIOUS
    <2>1. T \subseteq Nat
        OBVIOUS
    <2>2. PICK k \in T : \A j \in Nat : j < k => j \notin T
        BY <2>1, FirstFailure
    <2>3. k \in Nat /\ k <= n /\ k <= m /\ g[k] # h[k]
        OBVIOUS
    <2>4. g[k] = Row(g, k) /\ h[k] = Row(h, k)
        <3>1. k \in 0..n /\ k \in 0..m
            BY <2>3
        <3> QED BY <3>1, <1>2
    <2>5. k # 0 /\ g[k - 1] # h[k - 1]
        BY <2>3, <2>4
    <2>6. k - 1 \in Nat /\ k - 1 < k /\ k - 1 <= n /\ k - 1 <= m
        BY <2>3, <2>5
    <2>7. k - 1 \in T
        BY <2>5, <2>6
    <2> QED BY <2>2, <2>6, <2>7
<1>3. \A n \in Nat : UpTo(part(n), n)
    BY <1>1
<1> HIDE DEF part
<1>4. ASSUME NEW n \in Nat PROVE whole[n] = Row(whole, n)
    <2>1. part(n)[n] = Row(part(n), n)
        BY <1>3
    <2>2. CASE n = 0
        BY <2>1, <2>2
    <2>3. CASE n # 0
        <3>1. n - 1 \in Nat /\ n - 1 <= n /\ n - 1 <= n - 1
            BY <2>3
        <3>2. UpTo(part(n), n) /\ UpTo(part(n - 1), n - 1)
            BY <3>1, <1>3
        <3> HIDE DEF UpTo
        <3>3. part(n)[n - 1] = part(n - 1)[n - 1]
            BY <3>1, <3>2, <1>2
        <3>4. whole[n - 1] = part(n - 1)[n - 1]
            BY <3>1
        <3> QED BY <3>3, <3>4, <2>1, <2>3
    <2> QED BY <2>2, <2>3
<1>5. whole = [n \in Nat |-> Row(whole, n)]
    BY <1>4
<1> QED BY <1>5

\* The lowest row has the txids, every other the parents of the row below.
LEMMA RowsAre ==
    ASSUME NEW n \in 1..MaxTxs
    PROVE  /\ TreeDepth[n] \in Nat
           /\ Rows[n][0] = [k \in 1..n |-> Leaf(k)]
           /\ \A l \in 1..TreeDepth[n] : Rows[n][l] = Parents(Rows[n][l - 1])
<1> DEFINE leaves == [k \in 1..n |-> Leaf(k)]
           D == TreeDepth[n]
           Row == CHOOSE f : f = [l \in Nat |-> IF l = 0 THEN leaves ELSE Parents(f[l - 1])]
<1>1. n \in Nat
    BY MerkleBranchAssumption
<1>2. D \in Nat
    BY <1>1, TreeDepthIsNat
<1>3. Rows[n] = [l \in 0..D |-> Row[l]]
    BY DEF Rows, Tree
<1> HIDE DEF leaves, D
<1>4. Row = [l \in Nat |-> IF l = 0 THEN leaves ELSE Parents(Row[l - 1])]
    BY RowsExist
<1> HIDE DEF Row
<1>5. Row[0] = leaves /\ 0 \in 0..D
    BY <1>2, <1>4
<1>6. ASSUME NEW l \in 1..D PROVE Rows[n][l] = Parents(Rows[n][l - 1])
    <2>1. l \in Nat /\ l # 0 /\ l \in 0..D /\ l - 1 \in 0..D
        BY <1>2
    <2>2. Row[l] = Parents(Row[l - 1])
        BY <2>1, <1>4
    <2> QED BY <2>1, <2>2, <1>3
<1>7. Rows[n][0] = leaves
    BY <1>3, <1>5
<1> QED BY <1>2, <1>6, <1>7 DEF leaves, D

\* The parents of a row are half as many, rounded up: each digests a node at an
\* odd place and its right neighbour, or itself where there is none.
LEMMA ParentsAre ==
    ASSUME NEW row, Len(row) \in Nat
    PROVE  /\ Len(Parents(row)) = (Len(row) + 1) \div 2
           /\ \A k \in 1..((Len(row) + 1) \div 2) :
                Parents(row)[k] = HashPair(row[2 * k - 1],
                                           row[IF 2 * k <= Len(row) THEN 2 * k ELSE Len(row)])
<1> DEFINE w == (Len(row) + 1) \div 2
           node(k) == HashPair(row[2 * k - 1],
                               row[IF 2 * k <= Len(row) THEN 2 * k ELSE Len(row)])
<1>1. w \in Nat
    OBVIOUS
<1>2. Parents(row) = [k \in 1..w |-> node(k)]
    BY DEF Parents
<1> HIDE DEF w, node
<1>3. /\ Parents(row) = [k \in 1..w |-> Parents(row)[k]]
      /\ \A k \in 1..w : Parents(row)[k] = node(k)
    BY <1>2
<1>4. Len(Parents(row)) = w
    BY <1>1, <1>3, LengthOf
<1> QED BY <1>3, <1>4 DEF w, node

\* Every row has at least one node, and as many levels above it as its length
\* demands; the topmost row is the root alone.
LEMMA RowLengths ==
    ASSUME NEW n \in 1..MaxTxs, NEW l \in 0..TreeDepth[n]
    PROVE  /\ Len(Rows[n][l]) \in Nat \ {0}
           /\ TreeDepth[Len(Rows[n][l])] = TreeDepth[n] - l
<1> DEFINE D == TreeDepth[n]
           Good(q) == /\ Len(Rows[n][q]) \in Nat \ {0}
                      /\ TreeDepth[Len(Rows[n][q])] = D - q
           T == {q \in 0..D : ~Good(q)}
<1>1. n \in Nat \ {0} /\ D \in Nat
    <2>1. n \in Nat \ {0}
        BY MerkleBranchAssumption
    <2> QED BY <2>1, TreeDepthIsNat
<1> SUFFICES ASSUME T # {} PROVE FALSE
    OBVIOUS
<1> HIDE DEF D
<1>2. T \subseteq Nat
    BY <1>1
<1>3. PICK q \in T : \A m \in Nat : m < q => m \notin T
    BY <1>2, FirstFailure
<1>4. q \in Nat /\ q <= D /\ ~Good(q)
    BY <1>1
<1>5. CASE q = 0
    <2>1. Len(Rows[n][0]) = n
        BY <1>1, RowsAre, LengthOf
    <2>2. D - 0 = D
        BY <1>1
    <2>3. Good(q)
        BY <1>1, <1>5, <2>1, <2>2 DEF D
    <2> QED BY <1>4, <2>3
<1>6. CASE q # 0
    <2> DEFINE w == Len(Rows[n][q - 1])
    <2>1. q - 1 \in Nat /\ q - 1 < q /\ q - 1 \in 0..D /\ q \in 1..D
        BY <1>1, <1>4, <1>6
    <2>2. Good(q - 1)
        BY <1>3, <2>1
    <2>3. w \in Nat \ {0} /\ TreeDepth[w] = D - (q - 1)
        BY <2>2
    <2>4. Len(Rows[n][q]) = (w + 1) \div 2
        BY <2>1, <2>3, RowsAre, ParentsAre DEF D
    <2> HIDE DEF w
    <2>5. TreeDepth[w] # 0
        BY <1>1, <1>4, <2>3
    <2>6. w > 1
        BY <2>3, <2>5, TreeDepthZero
    <2>7. (w + 1) \div 2 \in Nat \ {0}
        BY <2>3, <2>6
    <2>8. TreeDepth[w] = 1 + TreeDepth[(w + 1) \div 2] /\ TreeDepth[(w + 1) \div 2] \in Nat
        BY <2>3, <2>6, <2>7, TreeDepthIs, TreeDepthIsNat
    <2>9. TreeDepth[(w + 1) \div 2] = D - q
        BY <2>3, <2>8, <1>1, <1>4
    <2> QED BY <2>4, <2>7, <2>9, <1>4
<1> QED BY <1>5, <1>6

-----------------------------------------------------------------------------
(* Digests *)

\* A digest tells what was hashed: a txid is no inner node, and a node tells its
\* two children.
LEMMA DigestsDiffer ==
    /\ \A j, k : Leaf(j) = Leaf(k) => j = k
    /\ \A k, a, b : Leaf(k) # HashPair(a, b)
    /\ \A a, b, c, d : HashPair(a, b) = HashPair(c, d) => a = c /\ b = d
<1>1. \A x, y : Sha256d(x) = Sha256d(y) => x = y
    <2>1. \A x : Sha256d(x).sha256d = x
        BY DEF Sha256d
    <2> QED BY <2>1
<1>2. \A j, k : [tx |-> j] = [tx |-> k] => j = k
    <2>1. \A j : [tx |-> j].tx = j
        OBVIOUS
    <2> QED BY <2>1
<1>3. \A k, a, b : [tx |-> k] # [left |-> a, right |-> b]
    <2>1. \A k : DOMAIN [tx |-> k] = {"tx"}
        OBVIOUS
    <2>2. \A a, b : "left" \in DOMAIN [left |-> a, right |-> b]
        OBVIOUS
    <2> QED BY <2>1, <2>2
<1>4. \A a, b, c, d :
            [left |-> a, right |-> b] = [left |-> c, right |-> d] => a = c /\ b = d
    <2>1. \A a, b : [left |-> a, right |-> b].left = a /\ [left |-> a, right |-> b].right = b
        OBVIOUS
    <2> QED BY <2>1
<1> QED BY <1>1, <1>2, <1>3, <1>4 DEF Leaf, HashPair

-----------------------------------------------------------------------------
(* The inductive invariant *)

Errors == {"EmptyTree", "IndexOutOfRange", "BranchLengthMismatch", "IdenticalChildren",
           "MalformedDuplication"}

\* Types; while no error is found, the siblings left are as many as the claimed
\* row has levels above it.
Typed ==
    /\ size \in 1..MaxTxs
    /\ claim.index \in Nat /\ claim.total \in Nat /\ claim.count \in Nat
    /\ level \in 0..claim.count
    /\ result \in Errors \cup {"none", "ok", "RootMismatch"}
    /\ branch = [h |-> branch.h, idx |-> branch.idx, num |-> branch.num,
                 error |-> branch.error]
    /\ branch.error \in Errors \cup {"ok"}
    /\ branch.error = "ok" =>
        /\ branch.idx \in Nat /\ branch.num \in Nat /\ branch.idx < branch.num
        /\ TreeDepth[branch.num] = claim.count - level

\* When the running hash is a node of the block at all, it is one of the row the
\* loop has come to; the txid is then one of the block, and the claimed index its
\* own if the loop's index is the node's.
Traced ==
    branch.error = "ok" =>
        \A l \in 0..TreeDepth[size] : \A k \in 1..Len(Rows[size][l]) :
            branch.h = Rows[size][l][k] =>
                /\ l = level
                /\ \E j \in 1..size : /\ claim.txid = Leaf(j)
                                      /\ branch.idx = k - 1 => claim.index = j - 1

IInv == Typed /\ Traced /\ AcceptedIsInBlock

\* Opening (merkle.rs:43-68) leaves as many siblings as the claimed count demands,
\* and a txid that is one of the block's or none of its nodes.
LEMMA InitIInv == Init => IInv
<1> SUFFICES ASSUME Init PROVE IInv
    OBVIOUS
<1> USE DEF Init
<1>1. /\ size \in 1..MaxTxs /\ size \in Nat
      /\ claim.index \in Nat /\ claim.total \in Nat /\ claim.count \in Nat
      /\ claim.txid = Stray \/ \E k \in 1..size : claim.txid = Leaf(k)
    <2>1. TreeDepth[MaxClaim] \in Nat
        BY MerkleBranchAssumption, TreeDepthIsNat
    <2> QED BY <2>1, MerkleBranchAssumption
<1>2. branch = [h |-> claim.txid, idx |-> claim.index, num |-> claim.total,
                error |-> OpeningError(claim.index, claim.count, claim.total)]
    BY DEF OpenBranch
<1>3. /\ OpeningError(claim.index, claim.count, claim.total) \in Errors \cup {"ok"}
      /\ OpeningError(claim.index, claim.count, claim.total) = "ok" =>
            claim.index < claim.total /\ claim.count = TreeDepth[claim.total]
    BY <1>1 DEF OpeningError, Errors
<1>4. Typed
    <2>1. claim.count - 0 = claim.count /\ 0 \in 0..claim.count
        BY <1>1
    <2> QED BY <1>1, <1>2, <1>3, <2>1 DEF Typed
<1>5. Traced
    <2> SUFFICES ASSUME NEW l \in 0..TreeDepth[size], NEW k \in 1..Len(Rows[size][l]),
                        claim.txid = Rows[size][l][k]
                 PROVE  /\ l = 0
                        /\ \E j \in 1..size : /\ claim.txid = Leaf(j)
                                              /\ claim.index = k - 1 => claim.index = j - 1
        BY <1>2 DEF Traced
    <2>1. PICK j \in 1..size : claim.txid = Leaf(j)
        BY <1>1, StrayAssumption
    <2>2. l = 0
        <3> SUFFICES ASSUME l # 0 PROVE FALSE
            OBVIOUS
        <3>1. TreeDepth[size] \in Nat
            BY <1>1, RowsAre
        <3>2. l \in 1..TreeDepth[size] /\ l - 1 \in 0..TreeDepth[size]
            BY <3>1
        <3>3. Rows[size][l] = Parents(Rows[size][l - 1])
            BY <3>2, <1>1, RowsAre
        <3>4. Len(Rows[size][l - 1]) \in Nat
            BY <3>2, <1>1, RowLengths
        <3> DEFINE row == Rows[size][l - 1]
        <3>5. k \in 1..((Len(row) + 1) \div 2)
            BY <3>3, <3>4, ParentsAre
        <3> DEFINE mate == IF 2 * k <= Len(row) THEN 2 * k ELSE Len(row)
        <3>6. Parents(row)[k] = HashPair(row[2 * k - 1], row[mate])
            BY <3>4, <3>5, ParentsAre
        <3>7. Leaf(j) = Parents(row)[k]
            BY <3>3, <2>1
        <3> HIDE DEF row, mate
        <3> QED BY <3>6, <3>7, DigestsDiffer
    <2>3. k \in 1..size /\ claim.txid = Leaf(k)
        <3>1. Rows[size][0] = [q \in 1..size |-> Leaf(q)]
            BY <1>1, RowsAre
        <3>2. Len(Rows[size][0]) = size
            BY <3>1, <1>1, LengthOf
        <3> QED BY <3>1, <3>2, <2>2
    <2> QED BY <2>2, <2>3
<1>6. AcceptedIsInBlock
    BY DEF AcceptedIsInBlock
<1> QED BY <1>4, <1>5, <1>6 DEF IInv

-----------------------------------------------------------------------------
(* The loop *)

\* One turn on a sibling that passes the checks moves up one row (merkle.rs:72-92).
LEMMA TurnOfLoop ==
    ASSUME NEW b, NEW sib, b.error = "ok", SiblingError(b, sib) = "ok"
    PROVE  BranchStep(b, sib) =
               [h     |-> IF b.idx % 2 = 0 THEN HashPair(b.h, sib) ELSE HashPair(sib, b.h),
                idx   |-> b.idx \div 2,
                num   |-> (b.num + 1) \div 2,
                error |-> "ok"]
BY DEF BranchStep

\* A sibling that fails them ends the loop with its error.
LEMMA BadSibling ==
    ASSUME NEW b, NEW sib, b.error = "ok", SiblingError(b, sib) # "ok",
           b = [h |-> b.h, idx |-> b.idx, num |-> b.num, error |-> b.error]
    PROVE  /\ BranchStep(b, sib) = [h |-> b.h, idx |-> b.idx, num |-> b.num,
                                    error |-> SiblingError(b, sib)]
           /\ SiblingError(b, sib) \in Errors
<1>1. BranchStep(b, sib) = [b EXCEPT !.error = SiblingError(b, sib)]
    BY DEF BranchStep
<1>2. [[h |-> b.h, idx |-> b.idx, num |-> b.num, error |-> b.error]
            EXCEPT !.error = SiblingError(b, sib)]
        = [h |-> b.h, idx |-> b.idx, num |-> b.num, error |-> SiblingError(b, sib)]
    OBVIOUS
<1>3. SiblingError(b, sib) \in Errors
    BY DEF SiblingError, Errors
<1> QED BY <1>1, <1>2, <1>3

\* A sibling equal to the running hash is only let pass for the last node of an
\* odd row, whose index is even (merkle.rs:74-82).
LEMMA OddIndex ==
    ASSUME NEW b, NEW sib, b.idx \in Nat, b.num \in Nat, b.idx % 2 # 0,
           SiblingError(b, sib) = "ok"
    PROVE  sib # b.h
<1>1. ~(b.num % 2 = 1 /\ b.idx = b.num - 1)
    OBVIOUS
<1> QED BY <1>1 DEF SiblingError, IsLastOdd

\* The k-th parent of a row is what a turn of the loop made of the running hash h
\* at index i and a sibling.
MadeOf(h, sib, i, row, k) ==
    Parents(row)[k] = IF i % 2 = 0 THEN HashPair(h, sib) ELSE HashPair(sib, h)

\* Where in the row below that hash stands then: with an even index it is the left
\* child, with an odd one the right child, which is not the copy of the left.
LEMMA ChildOf ==
    ASSUME NEW h, NEW sib, NEW i \in Nat, NEW row, Len(row) \in Nat,
           NEW k \in 1..((Len(row) + 1) \div 2),
           MadeOf(h, sib, i, row, k), i % 2 # 0 => sib # h
    PROVE  \E q \in 1..Len(row) : h = row[q] /\ (i \div 2 = k - 1 => i = q - 1)
<1> DEFINE w == Len(row)
           mate == IF 2 * k <= w THEN 2 * k ELSE w
<1>1. Parents(row)[k] = HashPair(row[2 * k - 1], row[mate])
    BY ParentsAre
<1>2. k \in Nat /\ k >= 1 /\ 2 * k - 1 <= w /\ w \in Nat
    OBVIOUS
<1>3. 2 * k - 1 \in 1..w
    BY <1>2
<1>4. CASE i % 2 = 0
    <2>1. h = row[2 * k - 1]
        BY <1>1, <1>4, DigestsDiffer DEF MadeOf
    <2>2. i \div 2 = k - 1 => i = (2 * k - 1) - 1
        BY <1>2, <1>4
    <2> QED BY <2>1, <2>2, <1>3
<1>5. CASE i % 2 # 0
    <2>1. h = row[mate] /\ sib = row[2 * k - 1]
        BY <1>1, <1>5, DigestsDiffer DEF MadeOf
    <2>2. 2 * k <= w
        <3> SUFFICES ASSUME ~(2 * k <= w) PROVE FALSE
            OBVIOUS
        <3>1. w = 2 * k - 1
            BY <1>2
        <3> QED BY <2>1, <3>1, <1>5
    <2>3. 2 * k \in 1..w /\ mate = 2 * k
        BY <1>2, <2>2
    <2>4. i % 2 = 1
        BY <1>5
    <2>5. i \div 2 = k - 1 => i = 2 * k - 1
        BY <1>2, <2>4
    <2> QED BY <2>1, <2>3, <2>5
<1> QED BY <1>4, <1>5

\* A turn of the loop, whatever the sibling.
LEMMA ConsumeIInv == ASSUME IInv, Consume PROVE IInv'
<1> USE DEF Consume
<1>1. PICK sib : branch' = BranchStep(branch, sib)
    OBVIOUS
<1>2. /\ branch.error = "ok" /\ level < claim.count /\ level' = level + 1
      /\ UNCHANGED <<size, claim, result>>
      /\ size \in 1..MaxTxs /\ claim.count \in Nat /\ level \in Nat
      /\ branch.idx \in Nat /\ branch.num \in Nat /\ branch.idx < branch.num
      /\ TreeDepth[branch.num] = claim.count - level
    BY DEF IInv, Typed
<1>3. AcceptedIsInBlock'
    BY <1>2 DEF IInv, AcceptedIsInBlock
<1>4. CASE SiblingError(branch, sib) # "ok"
    <2>1. branch = [h |-> branch.h, idx |-> branch.idx, num |-> branch.num,
                    error |-> branch.error]
        BY DEF IInv, Typed
    <2>2. branch' = [h |-> branch.h, idx |-> branch.idx, num |-> branch.num,
                     error |-> SiblingError(branch, sib)]
        BY <1>1, <1>2, <1>4, <2>1, BadSibling
    <2>3. branch'.error \in Errors /\ branch'.error # "ok"
        BY <1>2, <1>4, <2>1, <2>2, BadSibling
    <2>4. Typed'
        BY <1>2, <2>2, <2>3 DEF IInv, Typed
    <2> QED BY <2>3, <2>4, <1>3 DEF IInv, Traced
<1>5. CASE SiblingError(branch, sib) = "ok"
    <2>1. branch' = [h     |-> IF branch.idx % 2 = 0 THEN HashPair(branch.h, sib)
                                                     ELSE HashPair(sib, branch.h),
                     idx   |-> branch.idx \div 2,
                     num   |-> (branch.num + 1) \div 2,
                     error |-> "ok"]
        BY <1>1, <1>2, <1>5, TurnOfLoop
    <2>2. /\ branch'.idx = branch.idx \div 2 /\ branch'.num = (branch.num + 1) \div 2
          /\ branch'.error = "ok"
          /\ branch'.h = IF branch.idx % 2 = 0 THEN HashPair(branch.h, sib)
                                               ELSE HashPair(sib, branch.h)
        BY <2>1
    <2>3. branch.num > 1
        <3>1. TreeDepth[branch.num] # 0
            BY <1>2
        <3> QED BY <3>1, <1>2, TreeDepthZero
    <2>4. /\ branch'.idx \in Nat /\ branch'.num \in Nat /\ branch'.idx < branch'.num
          /\ TreeDepth[branch'.num] = claim.count - level'
        <3>1. branch'.num \in Nat /\ branch'.idx \in Nat /\ branch'.idx < branch'.num
            BY <1>2, <2>2, <2>3
        <3>2. TreeDepth[branch.num] = 1 + TreeDepth[branch'.num]
            BY <1>2, <2>2, <2>3, TreeDepthIs
        <3>3. TreeDepth[branch'.num] \in Nat
            BY <3>1, TreeDepthIsNat
        <3> QED BY <3>1, <3>2, <3>3, <1>2
    <2>5. Typed'
        <3>1. branch' = [h |-> branch'.h, idx |-> branch'.idx, num |-> branch'.num,
                         error |-> branch'.error]
            BY <2>1
        <3>2. level' \in 0..claim.count
            BY <1>2
        <3> QED BY <1>2, <2>2, <2>4, <3>1, <3>2 DEF IInv, Typed
    <2>6. Traced'
        <3> SUFFICES ASSUME NEW l \in 0..TreeDepth[size], NEW k \in 1..Len(Rows[size][l]),
                            branch'.h = Rows[size][l][k]
                     PROVE  /\ l = level'
                            /\ \E j \in 1..size : /\ claim.txid = Leaf(j)
                                                  /\ branch'.idx = k - 1 => claim.index = j - 1
            <4>1. size' = size /\ claim' = claim
                BY <1>2
            <4> QED BY <4>1 DEF Traced
        <3>1. TreeDepth[size] \in Nat
            BY <1>2, RowsAre
        <3>2. l # 0
            <4> SUFFICES ASSUME l = 0 PROVE FALSE
                OBVIOUS
            <4>1. Rows[size][0] = [q \in 1..size |-> Leaf(q)] /\ size \in Nat
                BY <1>2, RowsAre, MerkleBranchAssumption
            <4>2. Len(Rows[size][0]) = size
                BY <4>1, LengthOf
            <4>3. branch'.h = Leaf(k)
                BY <4>1, <4>2
            <4>4. branch'.h = HashPair(branch.h, sib) \/ branch'.h = HashPair(sib, branch.h)
                BY <2>2
            <4> QED BY <4>3, <4>4, DigestsDiffer
        <3> DEFINE row == Rows[size][l - 1]
        <3>3. l \in 1..TreeDepth[size] /\ l - 1 \in 0..TreeDepth[size]
            BY <3>1, <3>2
        <3>4. Rows[size][l] = Parents(row) /\ Len(row) \in Nat
            BY <3>3, <1>2, RowsAre, RowLengths
        <3> HIDE DEF row
        <3>5. k \in 1..((Len(row) + 1) \div 2)
            BY <3>4, ParentsAre
        <3>6. PICK q \in 1..Len(row) :
                branch.h = row[q] /\ (branch.idx \div 2 = k - 1 => branch.idx = q - 1)
            <4>1. MadeOf(branch.h, sib, branch.idx, row, k)
                BY <2>2, <3>4 DEF MadeOf, row
            <4>2. branch.idx % 2 # 0 => sib # branch.h
                BY <1>2, <1>5, OddIndex
            <4>3. branch.idx \in Nat /\ Len(row) \in Nat
                BY <1>2, <3>4
            <4> QED BY <4>1, <4>2, <4>3, <3>5, ChildOf
        <3>7. /\ l - 1 = level
              /\ \E j \in 1..size : /\ claim.txid = Leaf(j)
                                    /\ branch.idx = q - 1 => claim.index = j - 1
            BY <3>3, <3>6, <1>2 DEF IInv, Traced, row
        <3>8. l = level'
            BY <3>3, <3>7, <1>2
        <3> QED BY <3>6, <3>7, <3>8, <2>2
    <2> QED BY <2>5, <2>6, <1>3 DEF IInv
<1> QED BY <1>4, <1>5

\* The end of the loop: the root is the one node of the topmost row, at index 0.
LEMMA ConcludeIInv == ASSUME IInv, Conclude PROVE IInv'
<1> USE DEF Conclude
<1>1. /\ result' = CloseBranch(branch, Root(size))
      /\ UNCHANGED <<size, claim, level, branch>>
    OBVIOUS
<1>2. result' \in Errors \cup {"none", "ok", "RootMismatch"}
    BY DEF IInv, Typed, CloseBranch
<1>3. Typed'
    BY <1>1, <1>2 DEF IInv, Typed
<1>4. Traced'
    BY <1>1 DEF IInv, Traced
<1>5. AcceptedIsInBlock'
    <2> SUFFICES ASSUME result' = "ok"
                 PROVE  claim.index < size /\ claim.txid = Leaf(claim.index + 1)
        BY <1>1 DEF AcceptedIsInBlock
    <2>1. branch.error = "ok" /\ branch.h = Root(size) /\ level = claim.count
        BY DEF CloseBranch
    <2>2. /\ size \in 1..MaxTxs /\ size \in Nat
          /\ claim.count \in Nat /\ claim.index \in Nat
          /\ branch.idx \in Nat /\ branch.num \in Nat /\ branch.idx < branch.num
          /\ TreeDepth[branch.num] = claim.count - level
        BY <2>1, MerkleBranchAssumption DEF IInv, Typed
    <2>3. branch.idx = 0
        <3>1. TreeDepth[branch.num] = 0
            BY <2>1, <2>2
        <3>2. branch.num <= 1
            BY <3>1, <2>2, TreeDepthZero
        <3> QED BY <3>2, <2>2
    <2> DEFINE D == TreeDepth[size]
    <2>4. D \in 0..D /\ 1 \in 1..Len(Rows[size][D])
        <3>1. D \in Nat
            BY <2>2, TreeDepthIsNat
        <3>2. D \in 0..D
            BY <3>1
        <3>3. Len(Rows[size][D]) \in Nat \ {0}
            BY <3>2, <2>2, RowLengths
        <3> QED BY <3>2, <3>3
    <2>5. branch.h = Rows[size][D][1]
        BY <2>1 DEF Root
    <2>6. PICK j \in 1..size :
                claim.txid = Leaf(j) /\ (branch.idx = 1 - 1 => claim.index = j - 1)
        BY <2>1, <2>4, <2>5 DEF IInv, Traced
    <2>7. claim.index = j - 1 /\ j \in Nat /\ j <= size /\ claim.index + 1 = j
        BY <2>2, <2>3, <2>6
    <2> QED BY <2>2, <2>6, <2>7
<1> QED BY <1>3, <1>4, <1>5 DEF IInv

-----------------------------------------------------------------------------
(* Theorems *)

\* Every step preserves the invariant.
LEMMA NextIInv == ASSUME IInv, [Next]_vars PROVE IInv'
<1>1. CASE UNCHANGED vars
    BY <1>1 DEF vars, IInv, Typed, Traced, AcceptedIsInBlock
<1>2. CASE Returned
    BY <1>1, <1>2 DEF Returned
<1> QED BY <1>1, <1>2, ConsumeIInv, ConcludeIInv DEF Next

\* The inductive invariant holds for every block and every claim.
THEOREM Invariance == Spec => []IInv
<1>1. IInv /\ [Next]_vars => IInv'
    BY NextIInv
<1> QED BY InitIInv, <1>1, PTL DEF Spec

\* The loop's index stays in the claimed row, and the row shrinks to one node
\* exactly when the siblings run out.
THEOREM TypeCorrect == Spec => []TypeOK
<1>1. IInv => TypeOK
    <2> SUFFICES ASSUME IInv PROVE TypeOK
        OBVIOUS
    <2>1. ASSUME branch.error = "ok"
          PROVE  branch.idx < branch.num /\ (branch.num = 1 <=> level = claim.count)
        <3>1. /\ branch.idx \in Nat /\ branch.num \in Nat /\ branch.idx < branch.num
              /\ TreeDepth[branch.num] = claim.count - level
              /\ claim.count \in Nat /\ level \in 0..claim.count
            BY <2>1 DEF IInv, Typed
        <3>2. TreeDepth[branch.num] = 0 <=> branch.num <= 1
            BY <3>1, TreeDepthZero
        <3> QED BY <3>1, <3>2
    <2> QED BY <2>1 DEF IInv, Typed, TypeOK, Errors
<1> QED BY <1>1, Invariance, PTL

\* A proof that is accepted against the block's root places the txid where it
\* really is, in blocks of any size, whatever transaction count and siblings the
\* prover hands over (verify_merkle_inclusion, merkle.rs:94-112).
THEOREM ProofsAreSound == Spec => []AcceptedIsInBlock
<1>1. IInv => AcceptedIsInBlock
    BY DEF IInv
<1> QED BY <1>1, Invariance, PTL

-----------------------------------------------------------------------------
(* Genuine branches *)

\* Every parent has a left child.
LEMMA LeftChild ==
    ASSUME NEW w \in Nat, NEW k \in 1..((w + 1) \div 2) PROVE 2 * k - 1 \in 1..w
<1>1. k \in Nat /\ k >= 1 /\ 2 * k - 1 <= w
    OBVIOUS
<1> QED BY <1>1

\* Whether a node is a left or a right child, its parent is at half its place.
LEMMA HalfPlace ==
    ASSUME NEW a \in Nat
    PROVE  /\ a \div 2 + 1 \in Nat
           /\ a % 2 = 0 => 2 * (a \div 2 + 1) = a + 2
           /\ a % 2 # 0 => 2 * (a \div 2 + 1) = a + 1
<1>1. a \div 2 \in Nat /\ a % 2 \in 0..1
    OBVIOUS
<1>2. a = 2 * (a \div 2) + (a % 2)
    OBVIOUS
<1>3. CASE a % 2 = 0
    BY <1>1, <1>2, <1>3
<1>4. CASE a % 2 # 0
    <2>1. a % 2 = 1
        BY <1>1, <1>4
    <2> QED BY <1>1, <1>2, <2>1
<1> QED BY <1>1, <1>3, <1>4

\* The nodes of a row are distinct.
LEMMA RowDistinct ==
    ASSUME NEW n \in 1..MaxTxs, NEW l \in 0..TreeDepth[n]
    PROVE  \A j, k \in 1..Len(Rows[n][l]) : Rows[n][l][j] = Rows[n][l][k] => j = k
<1> DEFINE D == TreeDepth[n]
           Good(q) == \A j, k \in 1..Len(Rows[n][q]) : Rows[n][q][j] = Rows[n][q][k] => j = k
           T == {q \in 0..D : ~Good(q)}
<1>1. n \in Nat \ {0} /\ D \in Nat
    <2>1. n \in Nat \ {0}
        BY MerkleBranchAssumption
    <2> QED BY <2>1, TreeDepthIsNat
<1> SUFFICES ASSUME T # {} PROVE FALSE
    OBVIOUS
<1> HIDE DEF D
<1>2. T \subseteq Nat
    BY <1>1
<1>3. PICK q \in T : \A m \in Nat : m < q => m \notin T
    BY <1>2, FirstFailure
<1>4. q \in Nat /\ q <= D /\ ~Good(q)
    BY <1>1
<1>5. CASE q = 0
    <2>1. Rows[n][0] = [k \in 1..n |-> Leaf(k)]
        BY RowsAre
    <2>2. Len(Rows[n][0]) = n
        BY <1>1, <2>1, LengthOf
    <2>3. \A k \in 1..n : Rows[n][0][k] = Leaf(k)
        BY <2>1
    <2>4. Good(0)
        BY <2>2, <2>3, DigestsDiffer
    <2> QED BY <2>4, <1>4, <1>5
<1>6. CASE q # 0
    <2> DEFINE row == Rows[n][q - 1]
               w   == Len(row)
    <2>1. q - 1 \in Nat /\ q - 1 < q /\ q - 1 \in 0..D /\ q \in 1..D
        BY <1>1, <1>4, <1>6
    <2>2. Good(q - 1)
        BY <1>3, <2>1
    <2>3. w \in Nat /\ Rows[n][q] = Parents(row)
        BY <2>1, RowLengths, RowsAre DEF D
    <2>4. \A j, k \in 1..w : row[j] = row[k] => j = k
        BY <2>2
    <2> HIDE DEF row
    <2>5. Len(Parents(row)) = (w + 1) \div 2
        BY <2>3, ParentsAre
    <2>6. ASSUME NEW j \in 1..((w + 1) \div 2), NEW k \in 1..((w + 1) \div 2),
                 Parents(row)[j] = Parents(row)[k]
          PROVE  j = k
        <3> DEFINE mate(m) == IF 2 * m <= w THEN 2 * m ELSE w
        <3>1. /\ Parents(row)[j] = HashPair(row[2 * j - 1], row[mate(j)])
              /\ Parents(row)[k] = HashPair(row[2 * k - 1], row[mate(k)])
            BY <2>3, ParentsAre
        <3> HIDE DEF mate
        <3>2. row[2 * j - 1] = row[2 * k - 1]
            <4>1. HashPair(row[2 * j - 1], row[mate(j)])
                    = HashPair(row[2 * k - 1], row[mate(k)])
                BY <3>1, <2>6
            <4> QED BY <4>1, DigestsDiffer
        <3>3. 2 * j - 1 \in 1..w /\ 2 * k - 1 \in 1..w
            BY <2>3, LeftChild
        <3>4. 2 * j - 1 = 2 * k - 1
            BY <3>2, <3>3, <2>4
        <3>5. j \in Nat /\ k \in Nat
            OBVIOUS
        <3> QED BY <3>4, <3>5
    <2>7. Good(q)
        BY <2>3, <2>5, <2>6
    <2> QED BY <2>7, <1>4
<1> QED BY <1>5, <1>6

\* The place of a parent is half that of its children.
Halves(f, index, d) == f = [l \in 0..d |-> IF l = 0 THEN index ELSE f[l - 1] \div 2]

\* There are such places for as many rows as one likes.
LEMMA HalvesExist ==
    ASSUME NEW index, NEW d \in Nat PROVE \E f : Halves(f, index, d)
<1> DEFINE Half(f, l) == IF l = 0 THEN index ELSE f[l - 1] \div 2
           T == {m \in Nat : ~\E f : f = [l \in 0..m |-> Half(f, l)]}
<1> SUFFICES ASSUME T # {} PROVE FALSE
    BY DEF Halves
<1>1. PICK m \in T : \A j \in Nat : j < m => j \notin T
    BY FirstFailure
<1>2. m \in Nat /\ ~\E f : f = [l \in 0..m |-> Half(f, l)]
    OBVIOUS
<1>3. CASE m = 0
    <2> DEFINE f == [l \in 0..m |-> index]
    <2>1. f = [l \in 0..m |-> Half(f, l)]
        BY <1>3
    <2> QED BY <2>1, <1>2
<1>4. CASE m # 0
    <2>1. m - 1 \in Nat /\ m - 1 < m
        BY <1>2, <1>4
    <2>2. PICK g : g = [l \in 0..(m - 1) |-> Half(g, l)]
        BY <2>1, <1>1
    <2> DEFINE f == [l \in 0..m |-> IF l = m THEN g[m - 1] \div 2 ELSE g[l]]
    <2>3. ASSUME NEW l \in 0..m PROVE f[l] = Half(f, l)
        <3>1. l \in Nat /\ l <= m
            BY <1>2
        <3>2. CASE l = m
            <4>1. f[m - 1] = g[m - 1]
                BY <2>1
            <4> QED BY <4>1, <3>2, <1>4
        <3>3. CASE l # m
            <4>1. l \in 0..(m - 1) /\ f[l] = g[l]
                BY <3>1, <3>3, <1>2
            <4>2. l # 0 => f[l - 1] = g[l - 1]
                BY <3>1, <3>3, <1>2
            <4>3. g[l] = Half(g, l)
                BY <4>1, <2>2
            <4> QED BY <4>1, <4>2, <4>3
        <3> QED BY <3>2, <3>3
    <2>4. f = [l \in 0..m |-> Half(f, l)]
        BY <2>3
    <2> QED BY <2>4, <1>2
<1> QED BY <1>3, <1>4

\* The ancestors of a transaction have their places inside their rows.
LEMMA PlacesAre ==
    ASSUME NEW n \in 1..MaxTxs, NEW index \in 0..(n - 1)
    PROVE  /\ Places(n, index)[0] = index
           /\ \A l \in 1..TreeDepth[n] :
                Places(n, index)[l] = Places(n, index)[l - 1] \div 2
           /\ \A l \in 0..TreeDepth[n] : Places(n, index)[l] \in 0..(Len(Rows[n][l]) - 1)
<1> DEFINE D == TreeDepth[n]
           at == Places(n, index)
           Good(q) == at[q] \in 0..(Len(Rows[n][q]) - 1)
           T == {q \in 0..D : ~Good(q)}
<1>1. n \in Nat \ {0} /\ D \in Nat /\ index \in Nat
    <2>1. n \in Nat \ {0}
        BY MerkleBranchAssumption
    <2> QED BY <2>1, TreeDepthIsNat
<1>2. at = [l \in 0..D |-> IF l = 0 THEN index ELSE at[l - 1] \div 2]
    <2>1. at = CHOOSE f : Halves(f, index, D)
        BY DEF Places, Halves
    <2> HIDE DEF at, D
    <2>2. Halves(at, index, D)
        BY <2>1, <1>1, HalvesExist
    <2> QED BY <2>2 DEF Halves
<1> HIDE DEF at, D
<1>3. at[0] = index
    BY <1>1, <1>2
<1>4. \A l \in 1..D : at[l] = at[l - 1] \div 2
    BY <1>1, <1>2
<1>5. T = {}
    <2> SUFFICES ASSUME T # {} PROVE FALSE
        OBVIOUS
    <2>1. T \subseteq Nat
        BY <1>1
    <2>2. PICK q \in T : \A m \in Nat : m < q => m \notin T
        BY <2>1, FirstFailure
    <2>3. q \in Nat /\ q <= D /\ ~Good(q)
        BY <1>1
    <2>4. CASE q = 0
        <3>1. Rows[n][0] = [k \in 1..n |-> Leaf(k)]
            BY RowsAre
        <3>2. Len(Rows[n][0]) = n
            BY <1>1, <3>1, LengthOf
        <3>3. Good(0)
            BY <3>2, <1>3
        <3> QED BY <3>3, <2>3, <2>4
    <2>5. CASE q # 0
        <3> DEFINE row == Rows[n][q - 1]
                   w   == Len(row)
                   a   == at[q - 1]
        <3>1. q - 1 \in Nat /\ q - 1 < q /\ q - 1 \in 0..D /\ q \in 1..D
            BY <1>1, <2>3, <2>5
        <3>2. a \in 0..(w - 1)
            BY <2>2, <3>1
        <3>3. w \in Nat /\ Rows[n][q] = Parents(row)
            BY <3>1, RowLengths, RowsAre DEF D
        <3>4. Len(Rows[n][q]) = (w + 1) \div 2
            BY <3>3, ParentsAre
        <3>5. at[q] = a \div 2
            BY <3>1, <1>4
        <3> HIDE DEF a, w
        <3>6. a \div 2 \in 0..((w + 1) \div 2 - 1)
            BY <3>2, <3>3
        <3>7. Good(q)
            BY <3>4, <3>5, <3>6
        <3> QED BY <3>7, <2>3
    <2> QED BY <2>4, <2>5
<1>6. \A l \in 0..D : Good(l)
    BY <1>5
<1> QED BY <1>3, <1>4, <1>6 DEF D, at

\* A turn of the loop on the genuine sibling goes up to the parent.
LEMMA GenuineTurn ==
    ASSUME NEW n \in 1..MaxTxs, NEW index \in 0..(n - 1), NEW l \in 1..TreeDepth[n],
           NEW b, NEW sib,
           LET at == Places(n, index)[l - 1] IN
           /\ b = [h |-> Rows[n][l - 1][at + 1], idx |-> at,
                   num |-> Len(Rows[n][l - 1]), error |-> "ok"]
           /\ sib = GenuineSibling(n, l - 1, index)
    PROVE  LET at == Places(n, index)[l] IN
           BranchStep(b, sib) = [h |-> Rows[n][l][at + 1], idx |-> at,
                                 num |-> Len(Rows[n][l]), error |-> "ok"]
<1> DEFINE row  == Rows[n][l - 1]
           w    == Len(row)
           a    == Places(n, index)[l - 1]
           k    == a \div 2 + 1
           mate == IF a % 2 = 0 THEN a + 1 ELSE a - 1
<1>1. /\ TreeDepth[n] \in Nat
      /\ l - 1 \in 0..TreeDepth[n] /\ l \in 0..TreeDepth[n]
    <2>1. TreeDepth[n] \in Nat
        BY RowsAre
    <2> QED BY <2>1
<1>2. /\ a \in 0..(w - 1) /\ w \in Nat /\ TreeDepth[w] = TreeDepth[n] - (l - 1)
      /\ Places(n, index)[l] = a \div 2
    <2>1. a \in 0..(w - 1) /\ Places(n, index)[l] = a \div 2
        BY <1>1, PlacesAre
    <2>2. w \in Nat /\ TreeDepth[w] = TreeDepth[n] - (l - 1)
        BY <1>1, RowLengths
    <2> QED BY <2>1, <2>2
<1>3. w > 1
    <2>1. TreeDepth[w] # 0
        BY <1>1, <1>2
    <2> QED BY <2>1, <1>2, TreeDepthZero
<1>4. Rows[n][l] = Parents(row)
    BY RowsAre
<1>5. /\ Len(Parents(row)) = (w + 1) \div 2
      /\ \A j \in 1..((w + 1) \div 2) :
            Parents(row)[j] = HashPair(row[2 * j - 1], row[IF 2 * j <= w THEN 2 * j ELSE w])
    BY <1>2, ParentsAre
<1>6. \A j, m \in 1..w : row[j] = row[m] => j = m
    BY <1>1, RowDistinct
<1>7. /\ b.h = row[a + 1] /\ b.idx = a /\ b.num = w /\ b.error = "ok"
      /\ sib = IF mate < w THEN row[mate + 1] ELSE row[a + 1]
    BY DEF GenuineSibling
<1> SUFFICES BranchStep(b, sib) = [h |-> Parents(row)[k], idx |-> a \div 2,
                                   num |-> (w + 1) \div 2, error |-> "ok"]
    BY <1>2, <1>4, <1>5
<1> HIDE DEF row, w, a, mate
<1>8. SiblingError(b, sib) = "ok"
    <2>1. CASE w % 2 = 1 /\ a = w - 1
        <3>1. a % 2 = 0 /\ ~(mate < w)
            BY <2>1, <1>2 DEF mate
        <3> QED BY <3>1, <2>1, <1>7 DEF SiblingError, IsLastOdd
    <2>2. CASE ~(w % 2 = 1 /\ a = w - 1)
        <3>1. mate < w /\ mate + 1 \in 1..w /\ a + 1 \in 1..w /\ mate + 1 # a + 1
            <4>1. CASE a % 2 = 0
                BY <4>1, <2>2, <1>2 DEF mate
            <4>2. CASE a % 2 # 0
                BY <4>2, <1>2 DEF mate
            <4> QED BY <4>1, <4>2
        <3>2. sib # b.h
            BY <3>1, <1>6, <1>7
        <3> QED BY <3>2, <2>2, <1>7 DEF SiblingError, IsLastOdd
    <2> QED BY <2>1, <2>2
<1>9. Parents(row)[k] = IF a % 2 = 0 THEN HashPair(b.h, sib) ELSE HashPair(sib, b.h)
    <2>1. k \in 1..((w + 1) \div 2)
        BY <1>2
    <2>2. Parents(row)[k] = HashPair(row[2 * k - 1], row[IF 2 * k <= w THEN 2 * k ELSE w])
        BY <2>1, <1>5
    <2>3. a \in Nat /\ a < w
        BY <1>2
    <2>4. /\ k \in Nat
          /\ a % 2 = 0 => 2 * k = a + 2
          /\ a % 2 # 0 => 2 * k = a + 1
        BY <2>3, HalfPlace
    <2> HIDE DEF k
    <2>5. CASE a % 2 = 0
        <3>1. 2 * k - 1 = a + 1 /\ 2 * k = a + 2 /\ mate = a + 1
            BY <2>5, <2>3, <2>4 DEF mate
        <3>2. mate < w => 2 * k <= w /\ mate + 1 = 2 * k
            BY <3>1, <2>3, <1>2
        <3>3. ~(mate < w) => ~(2 * k <= w) /\ w = a + 1
            BY <3>1, <2>3, <1>2
        <3> QED BY <2>2, <2>5, <3>1, <3>2, <3>3, <1>7
    <2>6. CASE a % 2 # 0
        <3>1. 2 * k - 1 = a /\ 2 * k = a + 1 /\ mate = a - 1 /\ mate + 1 = a
            BY <2>6, <2>3, <2>4 DEF mate
        <3>2. 2 * k <= w /\ mate < w
            BY <3>1, <1>2, <2>3
        <3> QED BY <2>2, <2>6, <3>1, <3>2, <1>7
    <2> QED BY <2>5, <2>6
<1> HIDE DEF k
<1> QED BY <1>7, <1>8, <1>9 DEF BranchStep

\* The branch of a transaction leads to the root.
LEMMA GenuineBranch ==
    ASSUME NEW n \in 1..MaxTxs, NEW index \in 0..(n - 1)
    PROVE  VerifyInclusion(Leaf(index + 1),
               [tx_index |-> index, total_transactions |-> n,
                siblings |-> [l \in 1..TreeDepth[n] |-> GenuineSibling(n, l - 1, index)]],
               Root(n)) = "ok"
<1> DEFINE D   == TreeDepth[n]
           at  == Places(n, index)
           sib == [l \in 1..D |-> GenuineSibling(n, l - 1, index)]
           f   == [l \in 0..D |-> [h |-> Rows[n][l][at[l] + 1], idx |-> at[l],
                                   num |-> Len(Rows[n][l]), error |-> "ok"]]
<1>1. n \in Nat \ {0} /\ D \in Nat /\ index \in Nat /\ index < n
    <2>1. n \in Nat \ {0}
        BY MerkleBranchAssumption
    <2> QED BY <2>1, TreeDepthIsNat
<1>2. Len(sib) = D /\ DOMAIN sib = 1..D
    <2> HIDE DEF D
    <2> QED BY <1>1, LengthOf
<1>3. OpenBranch(Leaf(index + 1), index, Len(sib), n) = f[0]
    <2>1. OpeningError(index, Len(sib), n) = "ok"
        BY <1>1, <1>2 DEF OpeningError
    <2>2. Rows[n][0] = [k \in 1..n |-> Leaf(k)] /\ at[0] = index
        BY RowsAre, PlacesAre
    <2>3. Len(Rows[n][0]) = n /\ index + 1 \in 1..n
        BY <1>1, <2>2, LengthOf
    <2>4. Rows[n][0][at[0] + 1] = Leaf(index + 1)
        BY <2>2, <2>3
    <2>5. f[0] = [h |-> Leaf(index + 1), idx |-> index, num |-> n, error |-> "ok"]
        BY <1>1, <2>2, <2>3, <2>4
    <2> QED BY <2>1, <2>5 DEF OpenBranch
<1>4. ASSUME NEW l \in 1..D PROVE f[l] = BranchStep(f[l - 1], sib[l])
    <2>1. l - 1 \in 0..D /\ l \in 0..D
        BY <1>1
    <2>2. /\ f[l - 1] = [h |-> Rows[n][l - 1][at[l - 1] + 1], idx |-> at[l - 1],
                         num |-> Len(Rows[n][l - 1]), error |-> "ok"]
          /\ f[l] = [h |-> Rows[n][l][at[l] + 1], idx |-> at[l],
                     num |-> Len(Rows[n][l]), error |-> "ok"]
          /\ sib[l] = GenuineSibling(n, l - 1, index)
        BY <2>1
    <2> HIDE DEF f, sib
    <2> QED BY <2>2, GenuineTurn
<1>5. f[D].error = "ok" /\ f[D].h = Root(n)
    <2>1. D \in 0..D
        BY <1>1
    <2>2. /\ Len(Rows[n][D]) \in Nat \ {0} /\ TreeDepth[Len(Rows[n][D])] = D - D
          /\ at[D] \in 0..(Len(Rows[n][D]) - 1)
        BY <2>1, RowLengths, PlacesAre
    <2>3. Len(Rows[n][D]) = 1
        <3> DEFINE w == Len(Rows[n][D])
        <3>1. w \in Nat \ {0} /\ TreeDepth[w] = 0
            BY <2>2, <1>1
        <3> HIDE DEF w
        <3>2. w = 1
            BY <3>1, TreeDepthZero
        <3> QED BY <3>2 DEF w
    <2>4. at[D] + 1 = 1
        BY <2>2, <2>3
    <2>5. f[D].error = "ok" /\ f[D].h = Rows[n][D][at[D] + 1]
        BY <2>1
    <2> QED BY <2>4, <2>5 DEF Root
<1> HIDE DEF f, sib, D
<1>6. FoldLeft(BranchStep, f[0], sib) = f[D]
    BY <1>1, <1>2, <1>4, BranchFold
<1> DEFINE proof == [tx_index |-> index, total_transactions |-> n, siblings |-> sib]
<1>7. proof.tx_index = index /\ proof.total_transactions = n /\ proof.siblings = sib
    OBVIOUS
<1> HIDE DEF proof
<1>8. VerifyInclusion(Leaf(index + 1), proof, Root(n)) = CloseBranch(f[D], Root(n))
    BY <1>3, <1>6, <1>7 DEF VerifyInclusion
<1>9. CloseBranch(f[D], Root(n)) = "ok"
    BY <1>5 DEF CloseBranch
<1> QED BY <1>8, <1>9 DEF proof, sib, D

\* The branch of every transaction of a block is accepted, in blocks of any size,
\* the last of an odd row and the only transaction included (merkle.rs:50-112).
THEOREM ProofsAreComplete == Spec => []GenuineAccepted
<1>1. IInv => GenuineAccepted
    <2>1. IInv => size \in 1..MaxTxs
        BY DEF IInv, Typed
    <2> QED BY <2>1, GenuineBranch DEF GenuineAccepted
<1> QED BY <1>1, Invariance, PTL
=============================================================================
