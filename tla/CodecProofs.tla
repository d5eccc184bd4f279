---------------------------- MODULE CodecProofs ----------------------------
(***************************************************************************)
(* Transactions, preimages and compact targets as bytes, of any size and   *)
(* for every base and width.  Of the parser of transactions: that it       *)
(* accepts nothing but what would be written for what it has read, that a  *)
(* txid is the digest of all but the witness, and that it reads whatever   *)
(* is written for a transaction within its limits.  Of the preimage: that  *)
(* its encoding gives every field back, and that validate compares         *)
(* numbers.  Of compact targets: that a target is the number that nBits    *)
(* denotes, and that what is mined has the work.                           *)
(*                                                                         *)
(* What is recursive is proved to be defined, and what it computes, from   *)
(* the least number of a set, since an induction principle takes its       *)
(* property as a parameter.                                                *)
(***************************************************************************)
EXTENDS TxCodec, OrderCodec, Mining, SequenceTheorems, WellFoundedInduction, TLAPS

-----------------------------------------------------------------------------
(* Numbers and sequences *)

\* A set of numbers has a least one.
LEMMA LeastNumber ==
    ASSUME NEW T, T \subseteq Nat, T # {}
    PROVE  \E x \in T : \A y \in T : x <= y
<1> DEFINE R == OpToRel(<, Nat)
<1>1. IsWellFoundedOn(R, Nat)
    BY NatLessThanWellFounded
<1>2. \A x, y \in Nat : <<y, x>> \in R <=> y < x
    BY DEF OpToRel
<1> HIDE DEF R
<1>3. PICK x \in T : \A y \in T : ~(<<y, x>> \in R)
    BY <1>1, WFMin
<1>4. ASSUME NEW y \in T PROVE x <= y
    <2>1. x \in Nat /\ y \in Nat /\ ~(y < x)
        BY <1>2, <1>3
    <2> QED BY <2>1
<1> QED BY <1>4

\* So whatever fails for some number fails for a first one.
LEMMA FirstFailure ==
    ASSUME NEW T, T \subseteq Nat, T # {}
    PROVE  \E x \in T : \A y \in Nat : y < x => y \notin T
<1>1. PICK x \in T : \A y \in T : x <= y
    BY LeastNumber
<1>2. ASSUME NEW y \in Nat, y < x, y \in T PROVE FALSE
    BY <1>1, <1>2
<1> QED BY <1>1, <1>2

\* A sequence is as long as its index set.
LEMMA LengthOf ==
    ASSUME NEW w \in Nat, NEW s, s = [k \in 1..w |-> s[k]]
    PROVE  Len(s) = w
<1> DEFINE S == {s[k] : k \in 1..w}
<1>1. s \in [1..w -> S]
    OBVIOUS
<1>2. s \in Seq(S)
    BY <1>1, SeqDef
<1>3. DOMAIN s = 1..Len(s) /\ Len(s) \in Nat
    BY <1>2, LenProperties
<1>4. DOMAIN s = 1..w
    OBVIOUS
<1> QED BY <1>3, <1>4

\* Joining the first n of many vectors, one after the other
Joined(g, ss, n) ==
    g = [k \in 1..n |-> IF k = 1 THEN ss[k] ELSE g[k - 1] \o ss[k]]

\* There is such a joining.
LEMMA JoinedExists ==
    ASSUME NEW ss, NEW n \in Nat PROVE \E g : Joined(g, ss, n)
<1> DEFINE T == {m \in Nat : ~\E g : Joined(g, ss, m)}
<1> SUFFICES ASSUME T # {} PROVE FALSE
    OBVIOUS
<1>1. PICK m \in T : \A j \in Nat : j < m => j \notin T
    BY FirstFailure
<1>2. m \in Nat /\ ~\E g : Joined(g, ss, m)
    OBVIOUS
<1>3. CASE m = 0
    <2> DEFINE g == [k \in 1..0 |-> k]
    <2>1. Joined(g, ss, m)
        BY <1>3 DEF Joined
    <2> QED BY <1>2, <2>1
<1>4. CASE m # 0
    <2>1. m - 1 \in Nat /\ m - 1 < m
        BY <1>2, <1>4
    <2>2. PICK h : Joined(h, ss, m - 1)
        BY <1>1, <2>1
    <2> DEFINE turn(g, k) == IF k = 1 THEN ss[k] ELSE g[k - 1] \o ss[k]
               g == [k \in 1..m |-> IF k = m THEN turn(h, m) ELSE h[k]]
    <2>3. ASSUME NEW k \in 1..m PROVE g[k] = turn(g, k)
        <3>1. k \in Nat /\ k >= 1 /\ k <= m
            BY <1>2
        <3>2. turn(g, k) = turn(h, k)
            <4>1. CASE k = 1
                BY <4>1
            <4>2. CASE k # 1
                <5>1. k - 1 \in 1..m /\ k - 1 # m
                    BY <3>1, <4>2, <1>2
                <5> QED BY <5>1, <4>2
            <4> QED BY <4>1, <4>2
        <3>3. CASE k = m
            BY <3>2, <3>3
        <3>4. CASE k # m
            <4>1. k \in 1..(m - 1)
                BY <3>1, <3>4, <1>2
            <4>2. h[k] = turn(h, k)
                BY <2>2, <4>1 DEF Joined
            <4> QED BY <3>2, <3>4, <4>2
        <3> QED BY <3>3, <3>4
    <2>4. g = [k \in 1..m |-> g[k]]
        OBVIOUS
    <2> HIDE DEF g
    <2>5. Joined(g, ss, m)
        BY <2>3, <2>4 DEF Joined
    <2> QED BY <1>2, <2>5
<1> QED BY <1>3, <1>4

\* FlattenSeq is where it ends.
LEMMA FlattenIsJoined ==
    ASSUME NEW ss, NEW n \in Nat \ {0}, Len(ss) = n
    PROVE  \E g : Joined(g, ss, n) /\ FlattenSeq(ss) = g[n]
<1> DEFINE f == CHOOSE g : Joined(g, ss, n)
<1>1. FlattenSeq(ss) = f[n]
    BY DEF FlattenSeq, Joined
<1>2. Joined(f, ss, n)
    BY JoinedExists
<1> QED BY <1>1, <1>2

\* What FlattenSeq computes: another sequence is joined to the end.
LEMMA FlattenAppend ==
    ASSUME NEW S, NEW ss \in Seq(Seq(S)), NEW e \in Seq(S)
    PROVE  /\ FlattenSeq(ss) \in Seq(S)
           /\ FlattenSeq(Append(ss, e)) = FlattenSeq(ss) \o e
<1> DEFINE n == Len(ss)  tt == Append(ss, e)
<1>1. /\ n \in Nat /\ DOMAIN ss = 1..n /\ \A k \in 1..n : ss[k] \in Seq(S)
      /\ Len(tt) = n + 1 /\ tt[n + 1] = e /\ \A k \in 1..n : tt[k] = ss[k]
    BY LenProperties, AppendProperties, ElementOfSeq
<1>2. CASE n = 0
    <2>1. ss = <<>> /\ FlattenSeq(ss) = ss
        BY <1>1, <1>2, EmptySeq DEF FlattenSeq
    <2>2. PICK g : Joined(g, tt, 1) /\ FlattenSeq(tt) = g[1]
        <3>1. Len(tt) = 1 /\ 1 \in Nat \ {0}
            BY <1>1, <1>2
        <3> HIDE DEF tt
        <3> QED BY <3>1, FlattenIsJoined
    <2>3. g[1] = e
        BY <2>2, <1>1, <1>2 DEF Joined
    <2>4. <<>> \o e = e
        BY ConcatEmptySeq
    <2> QED BY <2>1, <2>2, <2>3, <2>4, EmptySeq
<1>3. CASE n # 0
    <2>1. PICK f : Joined(f, ss, n) /\ FlattenSeq(ss) = f[n]
        BY <1>1, <1>3, FlattenIsJoined
    <2>2. PICK h : Joined(h, tt, n + 1) /\ FlattenSeq(tt) = h[n + 1]
        <3>1. n + 1 \in Nat \ {0} /\ Len(tt) = n + 1
            BY <1>1
        <3> HIDE DEF n, tt
        <3> QED BY <3>1, FlattenIsJoined
    <2> HIDE DEF n, tt
    <2>3. /\ \A k \in 1..n : f[k] = IF k = 1 THEN ss[k] ELSE f[k - 1] \o ss[k]
          /\ \A k \in 1..(n + 1) : h[k] = IF k = 1 THEN tt[k] ELSE h[k - 1] \o tt[k]
        BY <2>1, <2>2 DEF Joined
    <2>4. \A k \in 1..n : f[k] \in Seq(S) /\ h[k] = f[k]
        <3> DEFINE T == {k \in 1..n : ~(f[k] \in Seq(S) /\ h[k] = f[k])}
        <3> SUFFICES ASSUME T # {} PROVE FALSE
            OBVIOUS
        <3>1. T \subseteq Nat
            BY <1>1
        <3>2. PICK k \in T : \A j \in Nat : j < k => j \notin T
            BY <3>1, FirstFailure
        <3>3. /\ k \in 1..n /\ k \in 1..(n + 1) /\ tt[k] = ss[k] /\ ss[k] \in Seq(S)
              /\ ~(f[k] \in Seq(S) /\ h[k] = f[k])
            BY <1>1
        <3>4. CASE k = 1
            BY <2>3, <3>3, <3>4
        <3>5. CASE k # 1
            <4>1. k - 1 \in 1..n /\ k - 1 \in Nat /\ k - 1 < k
                BY <1>1, <3>3, <3>5
            <4>2. f[k - 1] \in Seq(S) /\ h[k - 1] = f[k - 1]
                BY <3>2, <4>1
            <4>3. f[k] = f[k - 1] \o ss[k] /\ h[k] = f[k - 1] \o ss[k]
                BY <2>3, <3>3, <3>5, <4>2
            <4> QED BY <3>3, <4>2, <4>3, ConcatProperties
        <3> QED BY <3>4, <3>5
    <2>5. n \in 1..n /\ n + 1 \in 1..(n + 1) /\ n + 1 # 1 /\ n + 1 - 1 = n
        BY <1>1, <1>3
    <2>6. h[n + 1] = h[n] \o tt[n + 1]
        <3> DEFINE m == n + 1
        <3>1. m \in 1..(n + 1) /\ m # 1 /\ m - 1 = n
            BY <2>5
        <3> HIDE DEF m
        <3>2. h[m] = h[m - 1] \o tt[m]
            BY <2>3, <3>1
        <3> QED BY <3>1, <3>2 DEF m
    <2>7. FlattenSeq(ss) \in Seq(S)
        BY <2>1, <2>4, <2>5
    <2>8. FlattenSeq(tt) = FlattenSeq(ss) \o e
        <3>1. h[n] = f[n] /\ tt[n + 1] = e
            BY <1>1, <2>4, <2>5
        <3> QED BY <3>1, <2>1, <2>2, <2>6
    <2> QED BY <2>7, <2>8 DEF tt
<1> QED BY <1>2, <1>3

\* A sequence with another element in front
LEMMA Prefixed ==
    ASSUME NEW S, NEW a \in S, NEW t \in Seq(S)
    PROVE  /\ <<a>> \o t \in Seq(S)
           /\ Len(<<a>> \o t) = Len(t) + 1
           /\ (<<a>> \o t)[1] = a
           /\ \A k \in 1..Len(t) : (<<a>> \o t)[k + 1] = t[k]
<1> DEFINE s == <<a>>
<1>1. s \in Seq(S) /\ Len(s) = 1 /\ s[1] = a /\ Len(t) \in Nat
    BY LenProperties
<1> HIDE DEF s
<1>2. /\ s \o t \in Seq(S) /\ Len(s \o t) = 1 + Len(t)
      /\ \A k \in 1..(1 + Len(t)) : (s \o t)[k] = IF k <= 1 THEN s[k] ELSE t[k - 1]
    <2>1. /\ s \o t \in Seq(S) /\ Len(s \o t) = Len(s) + Len(t)
          /\ \A k \in 1..(Len(s) + Len(t)) : (s \o t)[k] = IF k <= Len(s) THEN s[k]
                                                           ELSE t[k - Len(s)]
        BY <1>1, ConcatProperties
    <2> QED BY <1>1, <2>1
<1>3. (s \o t)[1] = s[1]
    BY <1>1, <1>2
<1>4. ASSUME NEW k \in 1..Len(t) PROVE (s \o t)[k + 1] = t[k]
    <2> DEFINE m == k + 1
    <2>1. m \in 1..(1 + Len(t)) /\ ~(m <= 1) /\ m - 1 = k
        BY <1>1
    <2> HIDE DEF m
    <2>2. (s \o t)[m] = t[m - 1]
        BY <1>2, <2>1
    <2> QED BY <2>1, <2>2 DEF m
<1> QED BY <1>1, <1>2, <1>3, <1>4 DEF s

\* and so the tuples of a varint's forms.
LEMMA Tuples ==
    /\ \A a, b       : <<a>> \o <<b>> = <<a, b>>
    /\ \A a, b, c    : <<a>> \o <<b, c>> = <<a, b, c>>
    /\ \A a, b, c, d : <<a>> \o <<b, c, d>> = <<a, b, c, d>>
<1>1. ASSUME NEW a, NEW b PROVE <<a>> \o <<b>> = <<a, b>>
    <2> DEFINE S == {a, b}  s == <<a>> \o <<b>>  t == <<a, b>>
    <2>1. /\ <<b>> \in Seq(S) /\ t \in Seq(S) /\ a \in S
          /\ Len(<<b>>) = 1 /\ Len(t) = 2 /\ t[1] = a /\ t[2] = b /\ 1 \in 1..1
        OBVIOUS
    <2>2. s \in Seq(S) /\ Len(s) = 2 /\ s[1] = a /\ s[1 + 1] = b
        BY <2>1, Prefixed
    <2> HIDE DEF S, s, t
    <2>3. \A k \in 1..2 : s[k] = t[k]
        BY <2>1, <2>2
    <2>4. s = t
        BY <2>1, <2>2, <2>3, SeqEqual
    <2> QED BY <2>4 DEF s, t
<1>2. ASSUME NEW a, NEW b, NEW c PROVE <<a>> \o <<b, c>> = <<a, b, c>>
    <2> DEFINE S == {a, b, c}  s == <<a>> \o <<b, c>>  t == <<a, b, c>>
    <2>1. /\ <<b, c>> \in Seq(S) /\ t \in Seq(S) /\ a \in S
          /\ Len(<<b, c>>) = 2 /\ Len(t) = 3 /\ t[1] = a /\ t[2] = b /\ t[3] = c
          /\ 1 \in 1..2 /\ 2 \in 1..2 /\ <<b, c>>[1] = b /\ <<b, c>>[2] = c
        OBVIOUS
    <2>2. s \in Seq(S) /\ Len(s) = 3 /\ s[1] = a /\ s[1 + 1] = b /\ s[2 + 1] = c
        BY <2>1, Prefixed
    <2> HIDE DEF S, s, t
    <2>3. \A k \in 1..3 : s[k] = t[k]
        BY <2>1, <2>2
    <2>4. s = t
        BY <2>1, <2>2, <2>3, SeqEqual
    <2> QED BY <2>4 DEF s, t
<1>3. ASSUME NEW a, NEW b, NEW c, NEW d PROVE <<a>> \o <<b, c, d>> = <<a, b, c, d>>
    <2> DEFINE S == {a, b, c, d}  s == <<a>> \o <<b, c, d>>  t == <<a, b, c, d>>
    <2>1. /\ <<b, c, d>> \in Seq(S) /\ t \in Seq(S) /\ a \in S
          /\ Len(<<b, c, d>>) = 3 /\ Len(t) = 4 /\ t[1] = a /\ t[2] = b /\ t[3] = c /\ t[4] = d
          /\ 1 \in 1..3 /\ 2 \in 1..3 /\ 3 \in 1..3
          /\ <<b, c, d>>[1] = b /\ <<b, c, d>>[2] = c /\ <<b, c, d>>[3] = d
        OBVIOUS
    <2>2. s \in Seq(S) /\ Len(s) = 4 /\ s[1] = a /\ s[1 + 1] = b /\ s[2 + 1] = c /\ s[3 + 1] = d
        BY <2>1, Prefixed
    <2> HIDE DEF S, s, t
    <2>3. \A k \in 1..4 : s[k] = t[k]
        BY <2>1, <2>2
    <2>4. s = t
        BY <2>1, <2>2, <2>3, SeqEqual
    <2> QED BY <2>4 DEF s, t
<1> QED BY <1>1, <1>2, <1>3

-----------------------------------------------------------------------------
(* Varints *)

\* The least numbers of the longer forms
LEMMA Forms ==
    /\ ByteBase \in Nat /\ ByteBase > 4
    /\ ByteBase * ByteBase \in Nat /\ ByteBase * ByteBase > ByteBase
    /\ Marker(1) = ByteBase - 3 /\ Marker(2) = ByteBase - 2 /\ Marker(3) = ByteBase - 1
    /\ Least(1) = ByteBase - 3 /\ Least(2) = ByteBase /\ Least(3) = ByteBase * ByteBase
<1>1. ByteBase \in Nat /\ ByteBase > 4
    BY ByteBaseAssumption
<1>2. ByteBase * ByteBase \in Nat /\ ByteBase * ByteBase > ByteBase
    BY <1>1
<1> QED BY <1>1, <1>2 DEF Marker, Least, Power

\* One, two or three digits
LEMMA Digits ==
    ASSUME NEW n \in Nat
    PROVE  /\ LittleEndian(n, 1) = <<n % ByteBase>>
           /\ LittleEndian(n, 2) = <<n % ByteBase, (n \div ByteBase) % ByteBase>>
           /\ LittleEndian(n, 3) = <<n % ByteBase, (n \div ByteBase) % ByteBase,
                                     (n \div (ByteBase * ByteBase)) % ByteBase>>
<1> DEFINE digit(k) == (n \div Power(k - 1)) % ByteBase
<1>1. /\ digit(1) = n % ByteBase
      /\ digit(2) = (n \div ByteBase) % ByteBase
      /\ digit(3) = (n \div (ByteBase * ByteBase)) % ByteBase
    <2>1. Power(1 - 1) = 1 /\ Power(2 - 1) = ByteBase /\ Power(3 - 1) = ByteBase * ByteBase
        BY DEF Power
    <2>2. n \div 1 = n
        OBVIOUS
    <2> QED BY <2>1, <2>2
<1> HIDE DEF digit
<1>2. 1..1 = {1} /\ 1..2 = {1, 2} /\ 1..3 = {1, 2, 3}
    OBVIOUS
<1>3. /\ [k \in 1..1 |-> digit(k)] = <<digit(1)>>
      /\ [k \in 1..2 |-> digit(k)] = <<digit(1), digit(2)>>
      /\ [k \in 1..3 |-> digit(k)] = <<digit(1), digit(2), digit(3)>>
    BY <1>2
<1>4. /\ LittleEndian(n, 1) = [k \in 1..1 |-> digit(k)]
      /\ LittleEndian(n, 2) = [k \in 1..2 |-> digit(k)]
      /\ LittleEndian(n, 3) = [k \in 1..3 |-> digit(k)]
    BY DEF LittleEndian, digit
<1> QED BY <1>1, <1>3, <1>4

\* What is written for a number, form by form
LEMMA VarintForms ==
    ASSUME NEW n \in Nat
    PROVE  /\ n < ByteBase - 3 => WriteVarint(n) = <<n>>
           /\ n >= ByteBase - 3 /\ n < ByteBase =>
                WriteVarint(n) = <<ByteBase - 3, n % ByteBase>>
           /\ n >= ByteBase /\ n < ByteBase * ByteBase =>
                WriteVarint(n) = <<ByteBase - 2, n % ByteBase, (n \div ByteBase) % ByteBase>>
           /\ n >= ByteBase * ByteBase =>
                WriteVarint(n) = <<ByteBase - 1, n % ByteBase, (n \div ByteBase) % ByteBase,
                                   (n \div (ByteBase * ByteBase)) % ByteBase>>
<1> DEFINE Fit(w) == n >= Least(w) /\ \A v \in Widths : v > w => n < Least(v)
<1>1. CASE n < ByteBase - 3
    <2>1. WriteVarint(n) = <<n>>
        BY <1>1, Forms DEF WriteVarint
    <2>2. n < ByteBase /\ n < ByteBase * ByteBase
        BY <1>1, Forms
    <2> QED BY <1>1, <2>1, <2>2, Forms
<1>2. ASSUME NEW w \in Widths, Fit(w), n >= ByteBase - 3
      PROVE  WriteVarint(n) = <<Marker(w)>> \o LittleEndian(n, w)
    <2>1. \A u \in Widths : u \in Int /\ Least(u) \in Int
        BY Forms DEF Widths
    <2>2. \A u \in Widths : Fit(u) => u = w
        BY <1>2, <2>1
    <2>3. (CHOOSE u \in Widths : Fit(u)) = w
        BY <1>2, <2>2
    <2>4. ~(n < Least(1))
        BY <1>2, Forms
    <2> QED BY <2>3, <2>4 DEF WriteVarint
<1> HIDE DEF Fit
<1>3. CASE n >= ByteBase - 3 /\ n < ByteBase
    <2>1. 1 \in Widths /\ Fit(1)
        BY <1>3, Forms DEF Widths, Fit
    <2>2. WriteVarint(n) = <<Marker(1)>> \o LittleEndian(n, 1)
        BY <1>2, <1>3, <2>1
    <2>3. WriteVarint(n) = <<ByteBase - 3>> \o <<n % ByteBase>>
        BY <2>2, Forms, Digits
    <2>4. WriteVarint(n) = <<ByteBase - 3, n % ByteBase>>
        BY <2>3, Tuples
    <2>5. ~(n < ByteBase - 3) /\ ~(n >= ByteBase) /\ ~(n >= ByteBase * ByteBase)
        BY <1>3, Forms
    <2> QED BY <2>4, <2>5
<1>4. CASE n >= ByteBase /\ n < ByteBase * ByteBase
    <2>1. 2 \in Widths /\ Fit(2) /\ n >= ByteBase - 3
        BY <1>4, Forms DEF Widths, Fit
    <2>2. WriteVarint(n) = <<Marker(2)>> \o LittleEndian(n, 2)
        BY <1>2, <2>1
    <2>3. WriteVarint(n) = <<ByteBase - 2>> \o <<n % ByteBase, (n \div ByteBase) % ByteBase>>
        BY <2>2, Forms, Digits
    <2>4. WriteVarint(n) = <<ByteBase - 2, n % ByteBase, (n \div ByteBase) % ByteBase>>
        BY <2>3, Tuples
    <2>5. ~(n < ByteBase - 3) /\ ~(n < ByteBase) /\ ~(n >= ByteBase * ByteBase)
        BY <1>4, Forms
    <2> QED BY <2>4, <2>5
<1>5. CASE n >= ByteBase * ByteBase
    <2>1. 3 \in Widths /\ Fit(3) /\ n >= ByteBase - 3 /\ n >= ByteBase
        BY <1>5, Forms DEF Widths, Fit
    <2>2. WriteVarint(n) = <<Marker(3)>> \o LittleEndian(n, 3)
        BY <1>2, <2>1
    <2>3. WriteVarint(n) = <<ByteBase - 1>> \o <<n % ByteBase, (n \div ByteBase) % ByteBase,
                                   (n \div (ByteBase * ByteBase)) % ByteBase>>
        BY <2>2, Forms, Digits
    <2>4. WriteVarint(n) = <<ByteBase - 1, n % ByteBase, (n \div ByteBase) % ByteBase,
                             (n \div (ByteBase * ByteBase)) % ByteBase>>
        BY <2>3, Tuples
    <2>5. ~(n < ByteBase - 3) /\ ~(n < ByteBase) /\ ~(n < ByteBase * ByteBase)
        BY <1>5, Forms
    <2> QED BY <2>4, <2>5
<1>6. \/ n < ByteBase - 3 \/ (n >= ByteBase - 3 /\ n < ByteBase)
      \/ (n >= ByteBase /\ n < ByteBase * ByteBase) \/ n >= ByteBase * ByteBase
    BY Forms
<1> QED BY <1>1, <1>3, <1>4, <1>5, <1>6

\* It is bytes.
LEMMA VarintIsBytes ==
    ASSUME NEW n \in Nat PROVE WriteVarint(n) \in Seq(Octet)
<1>1. \A m \in Nat : m % ByteBase \in Octet
    BY Forms DEF Octet
<1>2. n \div ByteBase \in Nat /\ n \div (ByteBase * ByteBase) \in Nat
    BY Forms
<1>3. /\ n % ByteBase \in Octet /\ (n \div ByteBase) % ByteBase \in Octet
      /\ (n \div (ByteBase * ByteBase)) % ByteBase \in Octet
    BY <1>1, <1>2
<1>4. ByteBase - 3 \in Octet /\ ByteBase - 2 \in Octet /\ ByteBase - 1 \in Octet
    BY Forms DEF Octet
<1>5. n < ByteBase - 3 => n \in Octet
    BY Forms DEF Octet
<1>6. CASE n < ByteBase - 3
    <2>1. <<n>> \in Seq(Octet)
        BY <1>5, <1>6
    <2> QED BY <1>6, <2>1, VarintForms
<1>7. CASE n >= ByteBase - 3 /\ n < ByteBase
    <2>1. <<ByteBase - 3, n % ByteBase>> \in Seq(Octet)
        BY <1>3, <1>4
    <2> QED BY <1>7, <2>1, VarintForms
<1>8. CASE n >= ByteBase /\ n < ByteBase * ByteBase
    <2>1. <<ByteBase - 2, n % ByteBase, (n \div ByteBase) % ByteBase>> \in Seq(Octet)
        BY <1>3, <1>4
    <2> QED BY <1>8, <2>1, VarintForms
<1>9. CASE n >= ByteBase * ByteBase
    <2>1. <<ByteBase - 1, n % ByteBase, (n \div ByteBase) % ByteBase,
            (n \div (ByteBase * ByteBase)) % ByteBase>> \in Seq(Octet)
        BY <1>3, <1>4
    <2> QED BY <1>9, <2>1, VarintForms
<1> QED BY <1>6, <1>7, <1>8, <1>9, Forms

\* Adding up up to three digits, from the last to the first
Adding(g, bytes, w) ==
    g = [s \in SUBSET (1..w) |->
            IF s = {} THEN 0 ELSE bytes[Min(s)] + ByteBase * g[s \ {Min(s)}]]

\* There is a way,
LEMMA AddingExists ==
    ASSUME NEW bytes, NEW w \in 0..3 PROVE \E g : Adding(g, bytes, w)
<1> DEFINE third(s)  == IF 3 \in s THEN bytes[3] + ByteBase * 0 ELSE 0
           second(s) == IF 2 \in s THEN bytes[2] + ByteBase * third(s) ELSE third(s)
           first(s)  == IF 1 \in s THEN bytes[1] + ByteBase * second(s) ELSE second(s)
           g == [s \in SUBSET (1..w) |-> first(s)]
<1>1. ASSUME NEW s \in SUBSET (1..w), s # {}
      PROVE  g[s] = bytes[Min(s)] + ByteBase * g[s \ {Min(s)}]
    <2> DEFINE m == Min(s)  r == s \ {m}
    <2>1. \A k \in s : k \in Nat /\ k >= 1 /\ k <= 3
        OBVIOUS
    <2>2. PICK k \in s : \A j \in s : k <= j
        <3>1. s \subseteq Nat
            BY <2>1
        <3> QED BY <3>1, <1>1, LeastNumber
    <2>3. m \in s /\ \A j \in s : m <= j
        BY <2>2 DEF Min
    <2> HIDE DEF m
    <2>4. r \in SUBSET (1..w) /\ g[s] = first(s) /\ g[r] = first(r)
        OBVIOUS
    <2>5. \A j : j \in r <=> j \in s /\ j # m
        OBVIOUS
    <2> HIDE DEF g, r
    <2>6. CASE m = 1
        <3>1. 1 \in s /\ 1 \notin r /\ (2 \in r <=> 2 \in s) /\ (3 \in r <=> 3 \in s)
            BY <2>3, <2>5, <2>6
        <3>2. third(r) = third(s)
            BY <3>1
        <3>3. second(r) = second(s)
            BY <3>1, <3>2
        <3>4. first(r) = second(r) /\ first(s) = bytes[1] + ByteBase * second(s)
            BY <3>1
        <3> QED BY <2>4, <2>6, <3>3, <3>4 DEF r, m
    <2>7. CASE m = 2
        <3>1. 1 \notin s /\ 2 \in s /\ 1 \notin r /\ 2 \notin r /\ (3 \in r <=> 3 \in s)
            BY <2>1, <2>3, <2>5, <2>7
        <3>2. third(r) = third(s)
            BY <3>1
        <3>3. first(r) = second(r) /\ second(r) = third(r)
            BY <3>1
        <3>4. first(s) = second(s) /\ second(s) = bytes[2] + ByteBase * third(s)
            BY <3>1
        <3> QED BY <2>4, <2>7, <3>2, <3>3, <3>4 DEF r, m
    <2>8. CASE m = 3
        <3>1. /\ 1 \notin s /\ 2 \notin s /\ 3 \in s
              /\ 1 \notin r /\ 2 \notin r /\ 3 \notin r
            BY <2>1, <2>3, <2>5, <2>8
        <3>2. first(r) = second(r) /\ second(r) = third(r) /\ third(r) = 0
            BY <3>1
        <3>3. /\ first(s) = second(s) /\ second(s) = third(s)
              /\ third(s) = bytes[3] + ByteBase * 0
            BY <3>1
        <3> QED BY <2>4, <2>8, <3>2, <3>3 DEF r, m
    <2>9. m = 1 \/ m = 2 \/ m = 3
        BY <2>1, <2>3
    <2> QED BY <2>6, <2>7, <2>8, <2>9
<1>2. g[{}] = 0
    OBVIOUS
<1>3. g = [s \in SUBSET (1..w) |-> g[s]]
    OBVIOUS
<1> HIDE DEF g
<1>4. Adding(g, bytes, w)
    BY <1>1, <1>2, <1>3 DEF Adding
<1> QED BY <1>4

\* and it yields the number.
LEMMA NumberIs ==
    ASSUME NEW bytes \in Seq(Octet), Len(bytes) \in Widths
    PROVE  /\ Len(bytes) = 1 => Number(bytes) = bytes[1]
           /\ Len(bytes) = 2 => Number(bytes) = bytes[1] + ByteBase * bytes[2]
           /\ Len(bytes) = 3 =>
                Number(bytes) = bytes[1] + ByteBase * (bytes[2] + ByteBase * bytes[3])
<1> DEFINE w == Len(bytes)  g == CHOOSE h : Adding(h, bytes, w)
<1>1. w \in 0..3 /\ w \in Nat /\ DOMAIN bytes = 1..w /\ \A k \in 1..w : bytes[k] \in Octet
    BY LenProperties, ElementOfSeq DEF Widths
<1>2. Number(bytes) = g[1..w]
    BY <1>1 DEF Number, FoldRight, MapThenFoldSet, Adding
<1>3. Adding(g, bytes, w)
    BY <1>1, AddingExists
<1> HIDE DEF g, w
<1>4. \A s \in SUBSET (1..w) :
          g[s] = IF s = {} THEN 0 ELSE bytes[Min(s)] + ByteBase * g[s \ {Min(s)}]
    BY <1>3 DEF Adding
<1>5. g[{}] = 0
    BY <1>4
<1>6. ASSUME NEW k \in 1..w, NEW l, l = k + 1
      PROVE  g[k..w] = bytes[k] + ByteBase * g[l..w]
    <2>1. k..w \in SUBSET (1..w) /\ k \in k..w /\ k \in Nat
        BY <1>1
    <2>2. \A j \in k..w : j \in Nat /\ k <= j
        BY <1>1
    <2>3. Min(k..w) = k
        <3>1. \A x \in k..w : (\A y \in k..w : x <= y) => x = k
            BY <2>1, <2>2
        <3> QED BY <2>1, <2>2, <3>1 DEF Min
    <2>4. (k..w) \ {k} = l..w
        <3>1. \A j : j \in (k..w) \ {k} <=> j \in l..w
            BY <1>1, <1>6
        <3> QED BY <3>1
    <2>5. k..w # {}
        BY <2>1
    <2> QED BY <1>4, <2>1, <2>3, <2>4, <2>5
<1>7. ASSUME NEW l, l = w + 1 PROVE g[l..w] = 0
    <2>1. l..w = {}
        BY <1>1, <1>7
    <2> QED BY <2>1, <1>5
<1>8. ByteBase \in Nat /\ Octet \subseteq Nat
    BY Forms DEF Octet
<1>9. ASSUME w = 1 PROVE Number(bytes) = bytes[1]
    <2>1. 1 \in 1..w /\ 2 = 1 + 1 /\ 2 = w + 1
        BY <1>9
    <2>2. g[1..w] = bytes[1] + ByteBase * g[2..w] /\ g[2..w] = 0 /\ bytes[1] \in Nat
        BY <1>1, <1>6, <1>7, <1>8, <2>1
    <2> QED BY <2>2, <1>2, <1>8
<1>10. ASSUME w = 2 PROVE Number(bytes) = bytes[1] + ByteBase * bytes[2]
    <2>1. 1 \in 1..w /\ 2 \in 1..w /\ 2 = 1 + 1 /\ 3 = 2 + 1 /\ 3 = w + 1
        BY <1>10
    <2>2. bytes[1] \in Nat /\ bytes[2] \in Nat
        BY <1>1, <1>8, <2>1
    <2>3. g[1..w] = bytes[1] + ByteBase * g[2..w]
        BY <1>6, <2>1
    <2>4. g[2..w] = bytes[2] + ByteBase * g[3..w] /\ g[3..w] = 0
        BY <1>6, <1>7, <2>1
    <2>5. g[2..w] = bytes[2]
        BY <2>2, <2>4, <1>8
    <2> QED BY <2>3, <2>5, <1>2
<1>11. ASSUME w = 3
       PROVE  Number(bytes) = bytes[1] + ByteBase * (bytes[2] + ByteBase * bytes[3])
    <2>1. /\ 1 \in 1..w /\ 2 \in 1..w /\ 3 \in 1..w
          /\ 2 = 1 + 1 /\ 3 = 2 + 1 /\ 4 = 3 + 1 /\ 4 = w + 1
        BY <1>11
    <2>2. bytes[3] \in Nat
        BY <1>1, <1>8, <2>1
    <2>3. g[1..w] = bytes[1] + ByteBase * g[2..w] /\ g[2..w] = bytes[2] + ByteBase * g[3..w]
        BY <1>6, <2>1
    <2>4. g[3..w] = bytes[3] + ByteBase * g[4..w] /\ g[4..w] = 0
        BY <1>6, <1>7, <2>1
    <2>5. g[3..w] = bytes[3]
        BY <2>2, <2>4, <1>8
    <2> QED BY <2>3, <2>5, <1>2
<1> QED BY <1>9, <1>10, <1>11 DEF w

\* The lowest digit of a number and the rest of it
LEMMA LowestDigit ==
    ASSUME NEW d \in Nat, NEW b \in 0..(d - 1), NEW m \in Nat
    PROVE  (b + d * m) \div d = m /\ (b + d * m) % d = b
OBVIOUS

\* the two lowest
LEMMA LowestDigits ==
    ASSUME NEW d \in Nat, NEW b \in 0..(d - 1), NEW c \in 0..(d - 1), NEW m \in Nat
    PROVE  (b + d * (c + d * m)) \div (d * d) = m
<1> DEFINE low == b + d * c  high == d * d
<1>1. low \in 0..(high - 1)
    <2>1. d * c <= d * (d - 1)
        OBVIOUS
    <2>2. d * (d - 1) = d * d - d
        OBVIOUS
    <2>3. d * c \in Nat /\ d * d \in Nat
        OBVIOUS
    <2> QED BY <2>1, <2>2, <2>3
<1>2. b + d * (c + d * m) = low + high * m
    OBVIOUS
<1>3. high \in Nat
    OBVIOUS
<1> HIDE DEF low, high
<1>4. (low + high * m) \div high = m
    BY <1>1, <1>3, LowestDigit
<1> QED BY <1>2, <1>4 DEF high

\* A number read from the bytes of a form that it needs is written as these
\* bytes again.
LEMMA FormIsWritten ==
    ASSUME NEW bytes \in Seq(Octet), NEW w \in Widths, Len(bytes) = w,
           Number(bytes) >= Least(w)
    PROVE  Number(bytes) \in Nat /\ WriteVarint(Number(bytes)) = <<Marker(w)>> \o bytes
<1> DEFINE n == Number(bytes)
<1>1. \A k \in 1..w : bytes[k] \in Nat /\ bytes[k] \in 0..(ByteBase - 1)
    BY ElementOfSeq, Forms DEF Octet
<1>2. CASE w = 1
    <2> DEFINE a == bytes[1]
    <2>1. n = a /\ a \in 0..(ByteBase - 1)
        <3>1. n = a
            BY <1>2, NumberIs
        <3> QED BY <1>1, <1>2, <3>1
    <2>2. bytes = <<a>>
        BY <1>2
    <2> HIDE DEF a, n
    <2>3. n \in Nat /\ n >= ByteBase - 3 /\ n < ByteBase /\ n % ByteBase = a
        <3>1. n >= ByteBase - 3
            BY <1>2, Forms DEF n
        <3> QED BY <2>1, <3>1, Forms
    <2>4. WriteVarint(n) = <<ByteBase - 3, a>>
        BY <2>3, VarintForms
    <2>5. WriteVarint(n) = <<Marker(w)>> \o <<a>>
        BY <1>2, <2>4, Forms, Tuples
    <2> QED BY <2>2, <2>3, <2>5 DEF n
<1>3. CASE w = 2
    <2> DEFINE a == bytes[1]  b == bytes[2]
    <2>1. n = a + ByteBase * b /\ a \in 0..(ByteBase - 1) /\ b \in 0..(ByteBase - 1)
        <3>1. n = a + ByteBase * b
            BY <1>3, NumberIs
        <3> QED BY <1>1, <1>3, <3>1
    <2>2. bytes = <<a, b>>
        BY <1>3
    <2> HIDE DEF a, b, n
    <2>3. n \in Nat /\ n >= ByteBase /\ n < ByteBase * ByteBase
        <3>1. n >= ByteBase
            BY <1>3, Forms DEF n
        <3>2. ByteBase * b <= ByteBase * (ByteBase - 1)
            BY <2>1, Forms
        <3>3. ByteBase * (ByteBase - 1) = ByteBase * ByteBase - ByteBase
            BY Forms
        <3>4. ByteBase * b \in Nat
            BY <2>1, Forms
        <3> QED BY <2>1, <3>1, <3>2, <3>3, <3>4, Forms
    <2>4. n \div ByteBase = b /\ n % ByteBase = a /\ b % ByteBase = b
        <3>1. b \in Nat /\ ByteBase \in Nat
            BY <2>1, Forms
        <3>2. n \div ByteBase = b /\ n % ByteBase = a
            BY <2>1, <3>1, LowestDigit
        <3>3. b % ByteBase = b
            BY <2>1, <3>1
        <3> QED BY <3>2, <3>3
    <2>5. WriteVarint(n) = <<ByteBase - 2, a, b>>
        BY <2>3, <2>4, VarintForms
    <2>6. WriteVarint(n) = <<Marker(w)>> \o <<a, b>>
        BY <1>3, <2>5, Forms, Tuples
    <2> QED BY <2>2, <2>3, <2>6 DEF n
<1>4. CASE w = 3
    <2> DEFINE a == bytes[1]  b == bytes[2]  c == bytes[3]
    <2>1. /\ n = a + ByteBase * (b + ByteBase * c)
          /\ a \in 0..(ByteBase - 1) /\ b \in 0..(ByteBase - 1) /\ c \in 0..(ByteBase - 1)
        <3>1. n = a + ByteBase * (b + ByteBase * c)
            BY <1>4, NumberIs
        <3> QED BY <1>1, <1>4, <3>1
    <2>2. bytes = <<a, b, c>>
        BY <1>4
    <2> HIDE DEF a, b, c, n
    <2>3. b + ByteBase * c \in Nat
        <3>1. b \in Nat /\ c \in Nat /\ ByteBase \in Nat
            BY <2>1, Forms
        <3>2. ByteBase * c \in Nat
            BY ONLY <3>1
        <3> QED BY ONLY <3>1, <3>2
    <2>4. n \in Nat /\ n >= ByteBase * ByteBase
        <3>1. n >= ByteBase * ByteBase
            BY <1>4, Forms DEF n
        <3>2. a \in Nat /\ ByteBase \in Nat
            BY <2>1, Forms
        <3>3. ByteBase * (b + ByteBase * c) \in Nat
            BY ONLY <2>3, <3>2
        <3> QED BY <2>1, <3>1, <3>2, <3>3
    <2>5. n \div ByteBase = b + ByteBase * c /\ n % ByteBase = a
        BY <2>1, <2>3, Forms, LowestDigit
    <2>6. (b + ByteBase * c) % ByteBase = b
        <3>1. c \in Nat /\ ByteBase \in Nat
            BY <2>1, Forms
        <3> QED BY <2>1, <3>1, LowestDigit
    <2>7. n \div (ByteBase * ByteBase) = c /\ c % ByteBase = c
        <3>1. n \div (ByteBase * ByteBase) = c
            BY <2>1, Forms, LowestDigits
        <3>2. c % ByteBase = c
            BY <2>1, Forms
        <3> QED BY <3>1, <3>2
    <2>8. WriteVarint(n) = <<ByteBase - 1, a, b, c>>
        BY <2>4, <2>5, <2>6, <2>7, VarintForms
    <2>9. WriteVarint(n) = <<Marker(w)>> \o <<a, b, c>>
        BY <1>4, <2>8, Forms, Tuples
    <2> QED BY <2>2, <2>4, <2>9 DEF n
<1> QED BY <1>2, <1>3, <1>4 DEF Widths

\* What Take hands out is where the cursor stood.
LEMMA TakeReads ==
    ASSUME raw \in Seq(Octet), NEW from \in 0..Len(raw), NEW n \in Nat,
           Take(from, n) # Error
    PROVE  /\ from + n \in 0..Len(raw)
           /\ Take(from, n).next = from + n
           /\ Take(from, n).value = SubSeq(raw, from + 1, from + n)
           /\ Take(from, n).value \in Seq(Octet)
           /\ Len(Take(from, n).value) = n
           /\ \A k \in 1..n : Take(from, n).value[k] = raw[from + k]
<1>1. Len(raw) \in Nat /\ \A k \in 1..Len(raw) : raw[k] \in Octet
    BY LenProperties, ElementOfSeq
<1>2. from \in Nat /\ from + n <= Len(raw)
    BY <1>1 DEF Take
<1>3. Take(from, n) = [value |-> SubSeq(raw, from + 1, from + n), next |-> from + n]
    BY DEF Take
<1> DEFINE a == from + 1  b == from + n
<1>4. a \in Int /\ b \in Int /\ (a <= b <=> n # 0) /\ b - a + 1 = n
    BY <1>2
<1>5. \A k \in a..b : raw[k] \in Octet
    BY <1>1, <1>2
<1> HIDE DEF a, b
<1>6. /\ SubSeq(raw, a, b) \in Seq(Octet)
      /\ Len(SubSeq(raw, a, b)) = n
      /\ \A k \in 1..n : SubSeq(raw, a, b)[k] = raw[a + k - 1]
    BY <1>4, <1>5, SubSeqProperties
<1>7. \A k \in 1..n : a + k - 1 = from + k
    BY <1>2 DEF a
<1>8. \A k \in 1..n : SubSeq(raw, a, b)[k] = raw[from + k]
    BY <1>6, <1>7
<1> QED BY <1>2, <1>3, <1>6, <1>8 DEF a, b

\* Bytes read between two positions
Span(i, j) == SubSeq(raw, i + 1, j)

\* Bytes that follow one another
LEMMA SpanJoins ==
    ASSUME raw \in Seq(Octet), NEW i \in 0..Len(raw), NEW j \in i..Len(raw),
           NEW k \in j..Len(raw)
    PROVE  Span(i, k) = Span(i, j) \o Span(j, k)
<1> DEFINE m == i + 1
<1>1. Len(raw) \in Nat
    BY LenProperties
<1>2. m \in 1..(Len(raw) + 1) /\ j \in (m - 1)..Len(raw)
    BY <1>1
<1> HIDE DEF m
<1>3. SubSeq(raw, m, j) \o SubSeq(raw, j + 1, k) = SubSeq(raw, m, k)
    BY <1>2, ConcatAdjacentSubSeq
<1> QED BY <1>3 DEF m, Span

\* A varint that is read is the one that would be written for its value.
LEMMA VarintReads ==
    ASSUME raw \in Seq(Octet), NEW from \in 0..Len(raw), Varint(from) # Error
    PROVE  /\ Varint(from).value \in Nat
           /\ Varint(from).next \in from..Len(raw)
           /\ Span(from, Varint(from).next) = WriteVarint(Varint(from).value)
<1> DEFINE b == raw[from + 1]
<1>1. Len(raw) \in Nat /\ from \in Nat
    BY LenProperties
<1>2. Take(from, 1) # Error
    BY DEF Varint
<1>3. from + 1 <= Len(raw) /\ from + 1 \in 1..Len(raw) /\ from + 1 \in 0..Len(raw)
    BY <1>1, <1>2, TakeReads
<1>4. b \in Octet
    BY <1>3, ElementOfSeq
<1>5. Span(from, from + 1) = <<b>>
    <2> DEFINE k == from + 1
    <2>1. k \in Int /\ b = raw[k] /\ b \in Octet /\ \A j \in k..k : j = k
        BY <1>3, <1>4
    <2> HIDE DEF b, k
    <2>2. \A j \in k..k : raw[j] \in Octet
        BY <2>1
    <2>3. /\ SubSeq(raw, k, k) \in Seq(Octet) /\ Len(SubSeq(raw, k, k)) = 1
          /\ SubSeq(raw, k, k)[1] = b
        <3>1. k <= k /\ k - k + 1 = 1 /\ 1 \in 1..(k - k + 1) /\ k + 1 - 1 = k
            BY <2>1
        <3> QED BY <2>1, <2>2, <3>1, SubSeqProperties
    <2> DEFINE s == SubSeq(raw, k, k)
    <2>4. s \in Seq(Octet) /\ Len(s) = 1 /\ s[1] = b
        BY <2>3
    <2> HIDE DEF s
    <2>5. s = <<b>>
        BY <2>4
    <2> QED BY <2>5 DEF Span, s, k
<1> HIDE DEF b
<1>6. CASE b < Marker(1)
    <2>1. Varint(from) = [value |-> b, next |-> from + 1]
        BY <1>2, <1>6 DEF Varint, b
    <2>2. b \in Nat /\ b < ByteBase - 3
        BY <1>4, <1>6, Forms DEF Octet
    <2>3. WriteVarint(b) = <<b>>
        BY <2>2, VarintForms
    <2> QED BY <1>1, <1>3, <1>5, <2>1, <2>2, <2>3
<1>7. CASE ~(b < Marker(1))
    <2> DEFINE w == b - Marker(1) + 1  rest == Take(from + 1, w)  n == Number(rest.value)
    <2>1. w \in Widths /\ w \in Nat /\ b = Marker(w)
        BY <1>4, <1>7, Forms DEF Octet, Widths, Marker
    <2>2. Varint(from) = IF rest = Error THEN Error
                         ELSE IF ~Minimal(n, w) THEN Error
                         ELSE [value |-> n, next |-> rest.next]
        BY <1>2, <1>7 DEF Varint, b
    <2>3. rest # Error /\ Minimal(n, w)
        BY <2>2
    <2> HIDE DEF w
    <2>4. /\ (from + 1) + w \in 0..Len(raw)
          /\ rest.next = (from + 1) + w
          /\ rest.value = Span(from + 1, rest.next)
          /\ rest.value \in Seq(Octet) /\ Len(rest.value) = w
        BY <1>3, <2>1, <2>3, TakeReads DEF Span
    <2> HIDE DEF rest
    <2>5. n \in Nat /\ WriteVarint(n) = <<Marker(w)>> \o rest.value
        BY <2>1, <2>3, <2>4, FormIsWritten DEF Minimal
    <2> HIDE DEF n
    <2>6. Varint(from).value = n /\ Varint(from).next = rest.next
        BY <2>2, <2>3
    <2>7. from + 1 \in from..Len(raw) /\ rest.next \in (from + 1)..Len(raw)
        BY <1>1, <1>3, <2>1, <2>4
    <2>8. Span(from, rest.next) = Span(from, from + 1) \o Span(from + 1, rest.next)
        BY <2>7, SpanJoins
    <2>9. rest.next \in from..Len(raw)
        BY <1>1, <2>7
    <2> QED BY <1>5, <2>1, <2>4, <2>5, <2>6, <2>8, <2>9
<1> QED BY <1>6, <1>7

\* Bytes behind their length
LEMMA BytesAreWritten ==
    ASSUME NEW s \in Seq(Octet) PROVE WriteBytes(s) \in Seq(Octet)
BY VarintIsBytes, LenProperties, ConcatProperties DEF WriteBytes

\* are read as they would be written.
LEMMA VarBytesReads ==
    ASSUME raw \in Seq(Octet), NEW from \in 0..Len(raw), VarBytes(from) # Error
    PROVE  /\ VarBytes(from).value \in Seq(Octet)
           /\ VarBytes(from).next \in from..Len(raw)
           /\ Span(from, VarBytes(from).next) = WriteBytes(VarBytes(from).value)
           /\ Len(VarBytes(from).value) <= MaxTxBytes
<1> DEFINE n == Varint(from)  s == Take(n.next, n.value)
<1>1. n # Error /\ ~(n.value > MaxTxBytes) /\ VarBytes(from) = s /\ s # Error
    <2>1. VarBytes(from) = IF n = Error THEN Error
                           ELSE IF n.value > MaxTxBytes THEN Error ELSE s
        BY DEF VarBytes
    <2> HIDE DEF n, s
    <2> QED BY <2>1
<1>2. /\ n.value \in Nat /\ n.next \in from..Len(raw)
      /\ Span(from, n.next) = WriteVarint(n.value)
    BY <1>1, VarintReads
<1> HIDE DEF n
<1>3. /\ Len(raw) \in Nat /\ from \in Nat /\ n.next \in 0..Len(raw)
      /\ n.value <= MaxTxBytes
    BY <1>1, <1>2, LenProperties, LimitsAssumption
<1>4. /\ n.next + n.value \in 0..Len(raw) /\ s.next = n.next + n.value
      /\ s.value = Span(n.next, s.next) /\ s.value \in Seq(Octet) /\ Len(s.value) = n.value
    <2> DEFINE f == n.next  c == n.value
    <2>1. f \in 0..Len(raw) /\ c \in Nat /\ Take(f, c) # Error
        BY <1>1, <1>2, <1>3
    <2> HIDE DEF f, c
    <2>2. /\ f + c \in 0..Len(raw) /\ Take(f, c).next = f + c
          /\ Take(f, c).value = SubSeq(raw, f + 1, f + c)
          /\ Take(f, c).value \in Seq(Octet) /\ Len(Take(f, c).value) = c
        BY <2>1, TakeReads
    <2> QED BY <2>2 DEF Span, f, c
<1> HIDE DEF s
<1>5. s.next \in n.next..Len(raw) /\ s.next \in from..Len(raw)
    BY <1>2, <1>3, <1>4
<1>6. Span(from, s.next) = Span(from, n.next) \o Span(n.next, s.next)
    BY <1>2, <1>5, SpanJoins
<1> QED BY <1>1, <1>2, <1>3, <1>4, <1>5, <1>6 DEF WriteBytes

-----------------------------------------------------------------------------
(* Vectors *)

\* The elements of a vector behind its length
InputsOf(s)    == FlattenSeq([k \in DOMAIN s |-> WriteInput(s[k])])
OutputsOf(s)   == FlattenSeq([k \in DOMAIN s |-> WriteOutput(s[k])])
ItemsOf(s)     == FlattenSeq([k \in DOMAIN s |-> WriteBytes(s[k])])
WitnessesOf(s) == FlattenSeq([k \in DOMAIN s |-> WriteWitness(s[k])])

\* A function on 1..n
IsList(f, n) == f = [k \in 1..n |-> f[k]]

\* The list with one more
OneMore(g, f, n, e) == g = [k \in 1..(n + 1) |-> IF k = n + 1 THEN e ELSE f[k]]

\* A list of byte strings and the list with one more
LEMMA ListAppend ==
    ASSUME NEW n \in Nat, NEW f, NEW g, NEW e \in Seq(Octet), IsList(f, n),
           OneMore(g, f, n, e), \A k \in 1..n : f[k] \in Seq(Octet)
    PROVE  /\ Len(f) = n
           /\ FlattenSeq(f) \in Seq(Octet)
           /\ FlattenSeq(g) = FlattenSeq(f) \o e
<1> DEFINE m == n + 1
<1>1. f \in Seq(Seq(Octet))
    <2>1. f \in [1..n -> Seq(Octet)]
        BY DEF IsList
    <2> QED BY <2>1, SeqDef
<1>2. Len(f) = n
    BY LengthOf DEF IsList
<1>3. g = [k \in 1..m |-> IF k = m THEN e ELSE f[k]]
    BY DEF OneMore
<1>4. m \in Nat /\ m \in 1..m /\ \A k \in 1..m : k # m => k \in 1..n
    OBVIOUS
<1>5. /\ Append(f, e) \in Seq(Seq(Octet)) /\ Len(Append(f, e)) = m
      /\ \A k \in 1..n : Append(f, e)[k] = f[k]
      /\ Append(f, e)[m] = e
    BY <1>1, <1>2, AppendProperties
<1> HIDE DEF m
<1>6. g \in Seq(Seq(Octet)) /\ Len(g) = m
    <2>1. g \in [1..m -> Seq(Octet)]
        BY <1>3, <1>4
    <2>2. g \in Seq(Seq(Octet))
        BY <1>4, <2>1, SeqDef
    <2> QED BY <1>4, <2>1, <2>2, LenProperties
<1>7. Append(f, e) = g
    <2>1. \A k \in 1..m : Append(f, e)[k] = g[k]
        BY <1>3, <1>4, <1>5
    <2> QED BY <2>1, <1>5, <1>6, SeqEqual
<1> QED BY <1>1, <1>2, <1>7, FlattenAppend

\* Inputs and outputs
LEMMA InputIsWritten ==
    ASSUME NEW in \in InputType
    PROVE  /\ WriteInput(in) \in Seq(Octet)
           /\ in.prev \in Seq(Octet) /\ Len(in.prev) = 2
           /\ in.script_sig \in Seq(Octet) /\ in.sequence \in Octet
<1>1. in.prev \in [1..2 -> Octet] /\ in.script_sig \in Seq(Octet) /\ in.sequence \in Octet
    BY DEF InputType
<1>2. in.prev \in Seq(Octet) /\ Len(in.prev) = 2
    <2>1. in.prev = [k \in 1..2 |-> in.prev[k]]
        BY <1>1
    <2> QED BY <1>1, <2>1, SeqDef, LengthOf
<1>3. WriteBytes(in.script_sig) \in Seq(Octet) /\ <<in.sequence>> \in Seq(Octet)
    BY <1>1, BytesAreWritten
<1> QED BY <1>1, <1>2, <1>3, ConcatProperties DEF WriteInput

\* An output is its value and its script, the length in front of it.
LEMMA OutputIsWritten ==
    ASSUME NEW out \in OutputType
    PROVE  /\ WriteOutput(out) \in Seq(Octet)
           /\ out.value_sat \in Octet /\ out.script_pubkey \in Seq(Octet)
<1>1. out.value_sat \in Octet /\ out.script_pubkey \in Seq(Octet)
    BY DEF OutputType
<1>2. WriteBytes(out.script_pubkey) \in Seq(Octet) /\ <<out.value_sat>> \in Seq(Octet)
    BY <1>1, BytesAreWritten
<1> QED BY <1>1, <1>2, ConcatProperties DEF WriteOutput

\* The elements of s as the function writes them, one after the other
Each(write, s) == FlattenSeq([k \in DOMAIN s |-> write[s[k]]])

\* Another element is written behind the others.
LEMMA EachGrows ==
    ASSUME NEW S, NEW write \in [S -> Seq(Octet)], NEW s \in Seq(S), NEW x \in S
    PROVE  /\ Each(write, s) \in Seq(Octet)
           /\ Each(write, Append(s, x)) = Each(write, s) \o write[x]
<1> DEFINE n == Len(s)  m == n + 1  t == Append(s, x)
           f == [k \in DOMAIN s |-> write[s[k]]]
           g == [k \in DOMAIN t |-> write[t[k]]]
<1>1. n \in Nat /\ DOMAIN s = 1..n /\ \A k \in 1..n : s[k] \in S
    BY LenProperties, ElementOfSeq
<1>2. /\ t \in Seq(S) /\ Len(t) = m /\ t[m] = x /\ \A k \in 1..n : t[k] = s[k]
    BY <1>1, AppendProperties
<1>3. DOMAIN t = 1..m
    BY <1>2, LenProperties
<1> HIDE DEF t, n, m
<1>4. m \in 1..m /\ \A k \in 1..m : k # m => k \in 1..n
    BY <1>1 DEF m
<1>5. IsList(f, n) /\ \A k \in 1..n : f[k] \in Seq(Octet)
    BY <1>1 DEF IsList
<1>6. OneMore(g, f, n, write[x]) /\ write[x] \in Seq(Octet)
    <2>1. g = [k \in 1..m |-> IF k = m THEN write[x] ELSE f[k]]
        BY <1>1, <1>2, <1>3, <1>4
    <2> QED BY <2>1 DEF OneMore, m
<1>7. Each(write, s) = FlattenSeq(f) /\ Each(write, t) = FlattenSeq(g)
    BY DEF Each
<1> HIDE DEF f, g
<1>8. FlattenSeq(f) \in Seq(Octet) /\ FlattenSeq(g) = FlattenSeq(f) \o write[x]
    BY <1>1, <1>5, <1>6, ListAppend
<1> QED BY <1>7, <1>8 DEF t

\* Nothing is written for no elements.
LEMMA NoElements ==
    /\ InputsOf(<<>>) = <<>> /\ OutputsOf(<<>>) = <<>>
    /\ ItemsOf(<<>>) = <<>> /\ WitnessesOf(<<>>) = <<>>
<1>1. ASSUME NEW f, f = [k \in {} |-> f[k]] PROVE FlattenSeq(f) = <<>>
    <2>1. f = <<>>
        BY <1>1
    <2>2. Len(f) = 0
        BY <2>1
    <2> QED BY <2>1, <2>2 DEF FlattenSeq
<1>2. DOMAIN <<>> = {}
    OBVIOUS
<1> QED BY <1>1, <1>2 DEF InputsOf, OutputsOf, ItemsOf, WitnessesOf

\* Inputs are written one behind the other,
LEMMA InputsGrow ==
    ASSUME NEW s \in Seq(InputType), NEW x \in InputType
    PROVE  /\ InputsOf(s) \in Seq(Octet)
           /\ InputsOf(Append(s, x)) = InputsOf(s) \o WriteInput(x)
<1> DEFINE write == [in \in InputType |-> WriteInput(in)]
<1>1. write \in [InputType -> Seq(Octet)]
    BY InputIsWritten
<1>2. ASSUME NEW q \in Seq(InputType) PROVE InputsOf(q) = Each(write, q)
    <2>1. \A k \in DOMAIN q : q[k] \in InputType
        BY LenProperties, ElementOfSeq
    <2> QED BY <2>1 DEF InputsOf, Each
<1>3. write[x] = WriteInput(x)
    OBVIOUS
<1> HIDE DEF write
<1>4. Append(s, x) \in Seq(InputType)
    BY AppendProperties
<1>5. /\ Each(write, s) \in Seq(Octet)
      /\ Each(write, Append(s, x)) = Each(write, s) \o write[x]
    BY <1>1, EachGrows
<1> QED BY <1>2, <1>3, <1>4, <1>5

\* as are outputs,
LEMMA OutputsGrow ==
    ASSUME NEW s \in Seq(OutputType), NEW x \in OutputType
    PROVE  /\ OutputsOf(s) \in Seq(Octet)
           /\ OutputsOf(Append(s, x)) = OutputsOf(s) \o WriteOutput(x)
<1> DEFINE write == [out \in OutputType |-> WriteOutput(out)]
<1>1. write \in [OutputType -> Seq(Octet)]
    BY OutputIsWritten
<1>2. ASSUME NEW q \in Seq(OutputType) PROVE OutputsOf(q) = Each(write, q)
    <2>1. \A k \in DOMAIN q : q[k] \in OutputType
        BY LenProperties, ElementOfSeq
    <2> QED BY <2>1 DEF OutputsOf, Each
<1>3. write[x] = WriteOutput(x)
    OBVIOUS
<1> HIDE DEF write
<1>4. Append(s, x) \in Seq(OutputType)
    BY AppendProperties
<1>5. /\ Each(write, s) \in Seq(Octet)
      /\ Each(write, Append(s, x)) = Each(write, s) \o write[x]
    BY <1>1, EachGrows
<1> QED BY <1>2, <1>3, <1>4, <1>5

\* the items of a stack
LEMMA ItemsGrow ==
    ASSUME NEW s \in Stack, NEW x \in Seq(Octet)
    PROVE  /\ ItemsOf(s) \in Seq(Octet)
           /\ ItemsOf(Append(s, x)) = ItemsOf(s) \o WriteBytes(x)
<1> DEFINE S == Seq(Octet)  write == [item \in S |-> WriteBytes(item)]
<1>1. write \in [S -> Seq(Octet)]
    BY BytesAreWritten
<1>2. ASSUME NEW q \in Seq(S) PROVE ItemsOf(q) = Each(write, q)
    <2>1. \A k \in DOMAIN q : q[k] \in S
        BY LenProperties, ElementOfSeq
    <2> QED BY <2>1 DEF ItemsOf, Each
<1>3. write[x] = WriteBytes(x) /\ s \in Seq(S)
    BY DEF Stack
<1> HIDE DEF write
<1>4. Append(s, x) \in Seq(S)
    BY <1>3, AppendProperties
<1> QED BY <1>1, <1>2, <1>3, <1>4, EachGrows

\* A witness is its number of items and then the items.
LEMMA WitnessIsWritten ==
    ASSUME NEW w \in Stack
    PROVE  /\ Len(w) \in Nat
           /\ WriteWitness(w) = WriteVarint(Len(w)) \o ItemsOf(w)
           /\ WriteWitness(w) \in Seq(Octet)
<1> DEFINE f == [k \in DOMAIN w |-> WriteBytes(w[k])]
<1>1. Len(w) \in Nat /\ DOMAIN w = 1..Len(w)
    BY LenProperties DEF Stack
<1>2. Len(f) = Len(w)
    <2> DEFINE n == Len(w)
    <2>1. n \in Nat /\ f = [k \in 1..n |-> f[k]]
        BY <1>1
    <2> HIDE DEF n, f
    <2>2. Len(f) = n
        BY <2>1, LengthOf
    <2> QED BY <2>2 DEF n
<1>3. WriteWitness(w) = WriteVarint(Len(f)) \o FlattenSeq(f) /\ FlattenSeq(f) = ItemsOf(w)
    BY DEF WriteWitness, WriteAll, ItemsOf
<1>4. WriteVarint(Len(w)) \in Seq(Octet)
    BY <1>1, VarintIsBytes
<1>5. ItemsOf(w) \in Seq(Octet)
    BY EmptySeq, ItemsGrow
<1> HIDE DEF f
<1>6. WriteVarint(Len(w)) \o ItemsOf(w) \in Seq(Octet)
    BY <1>4, <1>5, ConcatProperties
<1> QED BY <1>1, <1>2, <1>3, <1>6

\* and the stacks of a witness.
LEMMA WitnessesGrow ==
    ASSUME NEW s \in Seq(Stack), NEW x \in Stack
    PROVE  /\ WitnessesOf(s) \in Seq(Octet)
           /\ WitnessesOf(Append(s, x)) = WitnessesOf(s) \o WriteWitness(x)
<1> DEFINE write == [w \in Stack |-> WriteWitness(w)]
<1>1. write \in [Stack -> Seq(Octet)]
    BY WitnessIsWritten
<1>2. ASSUME NEW q \in Seq(Stack) PROVE WitnessesOf(q) = Each(write, q)
    <2>1. \A k \in DOMAIN q : q[k] \in Stack
        BY LenProperties, ElementOfSeq
    <2> QED BY <2>1 DEF WitnessesOf, Each
<1>3. write[x] = WriteWitness(x)
    OBVIOUS
<1> HIDE DEF write
<1>4. Append(s, x) \in Seq(Stack)
    BY AppendProperties
<1>5. /\ Each(write, s) \in Seq(Octet)
      /\ Each(write, Append(s, x)) = Each(write, s) \o write[x]
    BY <1>1, EachGrows
<1> QED BY <1>2, <1>3, <1>4, <1>5

\* All of them are bytes.
LEMMA InputsAreBytes ==
    ASSUME NEW s \in Seq(InputType) PROVE InputsOf(s) \in Seq(Octet)
<1>1. [prev |-> [k \in 1..2 |-> 0], script_sig |-> <<>>, sequence |-> 0] \in InputType
    BY Forms DEF InputType, Octet
<1> QED BY <1>1, InputsGrow

\* So are those of outputs.
LEMMA OutputsAreBytes ==
    ASSUME NEW s \in Seq(OutputType) PROVE OutputsOf(s) \in Seq(Octet)
<1>1. [value_sat |-> 0, script_pubkey |-> <<>>] \in OutputType
    BY Forms DEF OutputType, Octet
<1> QED BY <1>1, OutputsGrow

\* The vectors of a transaction
LEMMA VectorsAreWritten ==
    ASSUME NEW t, t.inputs \in Seq(InputType), t.outputs \in Seq(OutputType)
    PROVE  /\ WriteInputs(t) = WriteVarint(Len(t.inputs)) \o InputsOf(t.inputs)
           /\ WriteOutputs(t) = WriteVarint(Len(t.outputs)) \o OutputsOf(t.outputs)
           /\ WriteInputs(t) \in Seq(Octet) /\ WriteOutputs(t) \in Seq(Octet)
<1> DEFINE f == [k \in DOMAIN t.inputs |-> WriteInput(t.inputs[k])]
           g == [k \in DOMAIN t.outputs |-> WriteOutput(t.outputs[k])]
           n == Len(t.inputs)  m == Len(t.outputs)
<1>1. n \in Nat /\ DOMAIN t.inputs = 1..n /\ m \in Nat /\ DOMAIN t.outputs = 1..m
    BY LenProperties
<1>2. f = [k \in 1..n |-> f[k]] /\ g = [k \in 1..m |-> g[k]]
    BY <1>1
<1>3. /\ WriteInputs(t) = WriteVarint(Len(f)) \o FlattenSeq(f)
      /\ FlattenSeq(f) = InputsOf(t.inputs)
      /\ WriteOutputs(t) = WriteVarint(Len(g)) \o FlattenSeq(g)
      /\ FlattenSeq(g) = OutputsOf(t.outputs)
    BY DEF WriteInputs, WriteOutputs, WriteAll, InputsOf, OutputsOf
<1> HIDE DEF f, g
<1>4. Len(f) = n
    BY <1>1, <1>2, LengthOf
<1>5. Len(g) = m
    BY <1>1, <1>2, LengthOf
<1>6. WriteVarint(n) \in Seq(Octet) /\ WriteVarint(m) \in Seq(Octet)
    BY <1>1, VarintIsBytes
<1>7. InputsOf(t.inputs) \in Seq(Octet) /\ OutputsOf(t.outputs) \in Seq(Octet)
    BY InputsAreBytes, OutputsAreBytes
<1> QED BY <1>3, <1>4, <1>5, <1>6, <1>7, ConcatProperties

\* One byte is read.
LEMMA ByteReads ==
    ASSUME raw \in Seq(Octet), NEW from \in 0..Len(raw), Take(from, 1) # Error
    PROVE  /\ Take(from, 1).next = from + 1 /\ from + 1 \in from..Len(raw)
           /\ Take(from, 1).value[1] \in Octet
           /\ raw[from + 1] \in Octet
           /\ Take(from, 1).value[1] = raw[from + 1]
           /\ Span(from, from + 1) = <<Take(from, 1).value[1]>>
<1> DEFINE t == Take(from, 1)  j == from + 1
<1>1. Len(raw) \in Nat /\ from \in Nat /\ 1 \in Nat /\ 1 \in 1..1
    BY LenProperties
<1>2. /\ j \in 0..Len(raw) /\ t.next = j /\ t.value = SubSeq(raw, j, j)
      /\ t.value \in Seq(Octet) /\ Len(t.value) = 1 /\ t.value[1] = raw[j]
    BY <1>1, TakeReads
<1>3. t.value[1] \in Octet
    BY <1>2, ElementOfSeq
<1>4. t.value = <<t.value[1]>>
    BY <1>2
<1>5. Span(from, j) = t.value
    BY <1>2 DEF Span
<1> QED BY <1>1, <1>2, <1>3, <1>4, <1>5

\* An input that is read would be written as it was found.
LEMMA InputReads ==
    ASSUME raw \in Seq(Octet), p \in 0..Len(raw), Input # Error
    PROVE  /\ Input.value \in InputType
           /\ Input.next \in p..Len(raw)
           /\ Span(p, Input.next) = WriteInput(Input.value)
<1> DEFINE prev     == Take(p, 2)
           script   == IF prev = Error THEN Error ELSE VarBytes(prev.next)
           sequence == IF script = Error THEN Error ELSE Take(script.next, 1)
<1>1. Input = IF sequence = Error THEN Error
              ELSE [value |-> [prev |-> prev.value, script_sig |-> script.value,
                               sequence |-> sequence.value[1]],
                    next  |-> sequence.next]
    BY DEF Input
<1>2. prev # Error /\ script # Error /\ sequence # Error
    <2> HIDE DEF prev
    <2>1. prev = Error => script = Error
        OBVIOUS
    <2> HIDE DEF script
    <2>2. script = Error => sequence = Error
        OBVIOUS
    <2> HIDE DEF sequence
    <2> QED BY <1>1, <2>1, <2>2
<1>3. script = VarBytes(prev.next) /\ sequence = Take(script.next, 1)
    BY <1>2
<1>4. Len(raw) \in Nat /\ p \in Nat /\ 2 \in Nat
    BY LenProperties
<1>5. /\ p + 2 \in 0..Len(raw) /\ prev.next = p + 2 /\ prev.value = Span(p, p + 2)
      /\ prev.value \in Seq(Octet) /\ Len(prev.value) = 2
    BY <1>2, <1>4, TakeReads DEF Span
<1> HIDE DEF prev
<1>6. /\ script.value \in Seq(Octet) /\ script.next \in prev.next..Len(raw)
      /\ Span(prev.next, script.next) = WriteBytes(script.value)
    <2> DEFINE from == prev.next
    <2>1. from \in 0..Len(raw) /\ VarBytes(from) # Error /\ script = VarBytes(from)
        BY <1>2, <1>3, <1>5
    <2> HIDE DEF from, script
    <2>2. /\ VarBytes(from).value \in Seq(Octet) /\ VarBytes(from).next \in from..Len(raw)
          /\ Span(from, VarBytes(from).next) = WriteBytes(VarBytes(from).value)
        BY <2>1, VarBytesReads
    <2> QED BY <2>1, <2>2 DEF from
<1> HIDE DEF script
<1>7. /\ sequence.next \in script.next..Len(raw) /\ sequence.value[1] \in Octet
      /\ Span(script.next, sequence.next) = <<sequence.value[1]>>
    <2> DEFINE from == script.next
    <2>1. from \in 0..Len(raw) /\ Take(from, 1) # Error /\ sequence = Take(from, 1)
        BY <1>2, <1>3, <1>4, <1>5, <1>6
    <2> HIDE DEF from, sequence
    <2>2. /\ Take(from, 1).next = from + 1 /\ from + 1 \in from..Len(raw)
          /\ Take(from, 1).value[1] \in Octet
          /\ Span(from, from + 1) = <<Take(from, 1).value[1]>>
        BY <2>1, ByteReads
    <2> QED BY <2>1, <2>2 DEF from
<1> HIDE DEF sequence
<1> DEFINE in == [prev |-> prev.value, script_sig |-> script.value,
                  sequence |-> sequence.value[1]]
<1>8. Input = [value |-> in, next |-> sequence.next]
    BY <1>1, <1>2
<1>9. in \in InputType
    <2>1. prev.value \in [1..2 -> Octet]
        BY <1>5, LenProperties, SeqDef
    <2> QED BY <2>1, <1>6, <1>7 DEF InputType
<1>10. /\ p + 2 \in p..Len(raw) /\ script.next \in (p + 2)..Len(raw)
       /\ sequence.next \in script.next..Len(raw)
       /\ script.next \in p..Len(raw) /\ sequence.next \in p..Len(raw)
    BY <1>4, <1>5, <1>6, <1>7
<1>11. Span(p, script.next) = Span(p, p + 2) \o Span(p + 2, script.next)
    BY <1>10, SpanJoins
<1>12. Span(p, sequence.next) = Span(p, script.next) \o Span(script.next, sequence.next)
    BY <1>10, SpanJoins
<1>13. WriteInput(in) = prev.value \o WriteBytes(script.value) \o <<sequence.value[1]>>
    BY DEF WriteInput
<1>14. Span(p, sequence.next) = WriteInput(in)
    BY <1>5, <1>6, <1>7, <1>11, <1>12, <1>13
<1> QED BY <1>8, <1>9, <1>10, <1>14

\* So would an output.
LEMMA OutputReads ==
    ASSUME raw \in Seq(Octet), p \in 0..Len(raw), Output # Error
    PROVE  /\ Output.value \in OutputType
           /\ Output.next \in p..Len(raw)
           /\ Span(p, Output.next) = WriteOutput(Output.value)
<1> DEFINE value  == Take(p, 1)
           script == IF value = Error THEN Error ELSE VarBytes(value.next)
<1>1. Output = IF script = Error THEN Error
               ELSE [value |-> [value_sat |-> value.value[1], script_pubkey |-> script.value],
                     next  |-> script.next]
    BY DEF Output
<1>2. value # Error /\ script # Error
    <2> HIDE DEF value
    <2>1. value = Error => script = Error
        OBVIOUS
    <2> HIDE DEF script
    <2> QED BY <1>1, <2>1
<1>3. script = VarBytes(value.next)
    BY <1>2
<1>4. Len(raw) \in Nat /\ p \in Nat
    BY LenProperties
<1>5. /\ value.next = p + 1 /\ p + 1 \in p..Len(raw) /\ value.value[1] \in Octet
      /\ Span(p, p + 1) = <<value.value[1]>>
    BY <1>2, ByteReads
<1> HIDE DEF value
<1>6. /\ script.value \in Seq(Octet) /\ script.next \in value.next..Len(raw)
      /\ Span(value.next, script.next) = WriteBytes(script.value)
    <2> DEFINE from == value.next
    <2>1. from \in 0..Len(raw) /\ VarBytes(from) # Error /\ script = VarBytes(from)
        BY <1>2, <1>3, <1>4, <1>5
    <2> HIDE DEF from, script
    <2>2. /\ VarBytes(from).value \in Seq(Octet) /\ VarBytes(from).next \in from..Len(raw)
          /\ Span(from, VarBytes(from).next) = WriteBytes(VarBytes(from).value)
        BY <2>1, VarBytesReads
    <2> QED BY <2>1, <2>2 DEF from
<1> HIDE DEF script
<1> DEFINE out == [value_sat |-> value.value[1], script_pubkey |-> script.value]
<1>7. Output = [value |-> out, next |-> script.next]
    BY <1>1, <1>2
<1>8. out \in OutputType
    BY <1>5, <1>6 DEF OutputType
<1>9. p + 1 \in p..Len(raw) /\ script.next \in (p + 1)..Len(raw) /\ script.next \in p..Len(raw)
    BY <1>4, <1>5, <1>6
<1>10. Span(p, script.next) = Span(p, p + 1) \o Span(p + 1, script.next)
    BY <1>9, SpanJoins
<1>11. WriteOutput(out) = <<value.value[1]>> \o WriteBytes(script.value)
    BY DEF WriteOutput
<1>12. Span(p, script.next) = WriteOutput(out)
    BY <1>5, <1>6, <1>10, <1>11
<1> QED BY <1>7, <1>8, <1>9, <1>12

\* And a count is what is written in front of so many.
LEMMA CountReads ==
    ASSUME raw \in Seq(Octet), p \in 0..Len(raw), NEW allowed, Count(p, allowed) # Error
    PROVE  /\ Count(p, allowed).value \in allowed /\ Count(p, allowed).value \in Nat
           /\ Count(p, allowed).next \in p..Len(raw)
           /\ Span(p, Count(p, allowed).next) = WriteVarint(Count(p, allowed).value)
<1> DEFINE n == Varint(p)
<1>1. Count(p, allowed) = IF n = Error THEN Error
                          ELSE IF n.value \notin allowed THEN Error ELSE n
    BY DEF Count
<1>2. n # Error => /\ n.value \in Nat /\ n.next \in p..Len(raw)
                   /\ Span(p, n.next) = WriteVarint(n.value)
    BY VarintReads
<1> HIDE DEF n
<1> QED BY <1>1, <1>2

-----------------------------------------------------------------------------
(* The inductive invariant *)

Opening(t) == IF t.witnesses = Absent THEN <<t.version>> ELSE <<t.version, 0, 1>>
Outs(t)    == Opening(t) \o WriteInputs(t) \o WriteOutputs(t)
Body(t)    == IF t.witnesses = Absent THEN Outs(t) ELSE Outs(t) \o WitnessesOf(t.witnesses)

\* What would be written for what has been read, when the parser stands at the
\* place and its loop has n turns left
Written(place, t, n, s) ==
    CASE place = "version"   -> <<>>
      [] place = "marker"    -> <<t.version>>
      [] place = "in_count"  -> Opening(t)
      [] place = "input"     -> Opening(t) \o (WriteVarint(Len(t.inputs) + n)
                                                 \o InputsOf(t.inputs))
      [] place = "out_count" -> Opening(t) \o WriteInputs(t)
      [] place = "output"    -> Opening(t) \o WriteInputs(t)
                                  \o (WriteVarint(Len(t.outputs) + n) \o OutputsOf(t.outputs))
      [] place = "items"     -> Body(t)
      [] place = "item"      -> Body(t) \o (WriteVarint(Len(s) + n) \o ItemsOf(s))
      [] place = "lock_time" -> Body(t)
      [] OTHER               -> WireSerialize(t)

\* and what it can have by then.
Early   == {"version", "marker"}
Late    == {"lock_time", "parsed", "accepted", "mismatch"}

Filled(place, t, n, s) ==
    /\ place \in Early \cup {"in_count"} => t.inputs = <<>>
    /\ place \in Early \cup {"in_count", "input", "out_count"} => t.outputs = <<>>
    /\ place \in Early => t.witnesses = Absent
    /\ place \in {"in_count", "input", "out_count", "output"} => t.witnesses \in {Absent, <<>>}
    /\ place \notin {"item", "rejected"} => s = <<>>
    /\ place = "input" => Len(t.inputs) + n \in 1..MaxInputs
    /\ place = "output" => Len(t.outputs) + n \in 1..MaxOutputs
    /\ place = "item" => Len(s) + n \in 1..MaxWitnessItems
    /\ place \in {"out_count", "output", "items", "item"} \cup Late =>
          Len(t.inputs) \in 1..MaxInputs
    /\ place \in {"items", "item"} \cup Late => Len(t.outputs) \in 1..MaxOutputs
    /\ place \in {"items", "item"} =>
          t.witnesses # Absent /\ Len(t.witnesses) < Len(t.inputs)
    /\ place \in Late /\ t.witnesses # Absent =>
          /\ Len(t.witnesses) = Len(t.inputs)
          /\ \E k \in DOMAIN t.witnesses : t.witnesses[k] # <<>>

Started == at \notin {"version", "rejected"} => Len(raw) <= MaxTxBytes

Judged ==
    /\ at \in {"parsed", "accepted", "mismatch"} => p = Len(raw)
    /\ at = "accepted" => Txid(tx) = claimed
    /\ at = "mismatch" => Txid(tx) # claimed

Places == {"version", "marker", "in_count", "input", "out_count", "output", "items",
           "item", "lock_time", "parsed", "accepted", "mismatch", "rejected"}

IInv ==
    /\ raw \in Seq(Octet)
    /\ p \in 0..Len(raw)
    /\ at \in Places
    /\ left \in Nat
    /\ at \in {"input", "output", "item"} => left >= 1
    /\ tx \in Transaction /\ stack \in Stack
    /\ Started /\ Filled(at, tx, left, stack) /\ Judged
    /\ at # "rejected" => Span(0, p) = Written(at, tx, left, stack)

\* The invariant's two tables, row by row
LEMMA Rows ==
    ASSUME NEW t, NEW n, NEW s
    PROVE  /\ Written("version", t, n, s) = <<>>
           /\ Written("marker", t, n, s) = <<t.version>>
           /\ Written("in_count", t, n, s) = Opening(t)
           /\ Written("input", t, n, s) = Opening(t) \o (WriteVarint(Len(t.inputs) + n)
                                                            \o InputsOf(t.inputs))
           /\ Written("out_count", t, n, s) = Opening(t) \o WriteInputs(t)
           /\ Written("output", t, n, s) = Opening(t) \o WriteInputs(t)
                                  \o (WriteVarint(Len(t.outputs) + n) \o OutputsOf(t.outputs))
           /\ Written("items", t, n, s) = Body(t)
           /\ Written("item", t, n, s) = Body(t) \o (WriteVarint(Len(s) + n) \o ItemsOf(s))
           /\ Written("lock_time", t, n, s) = Body(t)
           /\ Written("parsed", t, n, s) = WireSerialize(t)
           /\ Written("accepted", t, n, s) = WireSerialize(t)
           /\ Written("mismatch", t, n, s) = WireSerialize(t)
BY DEF Written

\* What a transaction is made of
LEMMA Parts ==
    ASSUME NEW t \in Transaction
    PROVE  /\ t.version \in Octet /\ t.lock_time \in Octet
           /\ t.inputs \in Seq(InputType) /\ t.outputs \in Seq(OutputType)
           /\ t.witnesses # Absent => t.witnesses \in Seq(Stack)
           /\ Len(t.inputs) \in Nat /\ Len(t.outputs) \in Nat
           /\ t.witnesses # Absent => Len(t.witnesses) \in Nat
BY LenProperties DEF Transaction

\* Serializations are bytes.
LEMMA PartsAreBytes ==
    ASSUME NEW t \in Transaction
    PROVE  /\ Opening(t) \in Seq(Octet)
           /\ WriteInputs(t) \in Seq(Octet) /\ WriteOutputs(t) \in Seq(Octet)
           /\ Opening(t) \o WriteInputs(t) \in Seq(Octet)
           /\ Outs(t) \in Seq(Octet)
           /\ Body(t) \in Seq(Octet)
<1>1. Opening(t) \in Seq(Octet)
    <2>1. t.version \in Octet /\ 0 \in Octet /\ 1 \in Octet
        BY Parts, Forms DEF Octet
    <2> QED BY <2>1 DEF Opening
<1>2. WriteInputs(t) \in Seq(Octet) /\ WriteOutputs(t) \in Seq(Octet)
    BY Parts, VectorsAreWritten
<1>3. Opening(t) \o WriteInputs(t) \in Seq(Octet)
    BY <1>1, <1>2, ConcatProperties
<1>4. Outs(t) \in Seq(Octet)
    BY <1>2, <1>3, ConcatProperties DEF Outs
<1>5. Body(t) \in Seq(Octet)
    <2>1. CASE t.witnesses = Absent
        BY <1>4, <2>1 DEF Body
    <2>2. CASE t.witnesses # Absent
        <3>1. <<>> \in Stack
            BY EmptySeq DEF Stack
        <3>2. WitnessesOf(t.witnesses) \in Seq(Octet)
            BY <2>2, <3>1, Parts, WitnessesGrow
        <3> QED BY <1>4, <2>2, <3>2, ConcatProperties DEF Body
    <2> QED BY <2>1, <2>2
<1> QED BY <1>1, <1>2, <1>3, <1>4, <1>5

\* The wire format is the body and the lock time.
LEMMA WireIsBody ==
    ASSUME NEW t PROVE WireSerialize(t) = Body(t) \o <<t.lock_time>>
<1>1. CASE t.witnesses = Absent
    BY <1>1 DEF WireSerialize, LegacySerialize, Body, Outs, Opening
<1>2. CASE t.witnesses # Absent
    BY <1>2 DEF WireSerialize, Body, Outs, Opening, WitnessesOf
<1> QED BY <1>1, <1>2

\* The empty vector is one, and no absent one.
LEMMA NoneIsAbsent == <<>> # Absent /\ <<>> \in Seq(Stack) /\ <<>> \in Stack /\ Len(<<>>) = 0
BY OptionAssumption, EmptySeq DEF Stack

\* Bytes read behind those that were
LEMMA ReadOn ==
    ASSUME raw \in Seq(Octet), p \in 0..Len(raw), NEW q \in p..Len(raw)
    PROVE  q \in 0..Len(raw) /\ Span(0, q) = Span(0, p) \o Span(p, q)
<1>1. Len(raw) \in Nat
    BY LenProperties
<1>2. q \in 0..Len(raw) /\ 0 \in 0..Len(raw)
    BY <1>1
<1> QED BY <1>2, SpanJoins

-----------------------------------------------------------------------------
\* A submission is where it starts from.
LEMMA InitIInv == Init => IInv
<1> SUFFICES ASSUME Init PROVE IInv
    OBVIOUS
<1>1. raw \in Seq(Octet) /\ Len(raw) \in Nat
    BY SubmissionsAssumption, LenProperties DEF Init
<1>2. /\ p = 0 /\ at = "version" /\ left = 0 /\ stack = <<>>
      /\ tx = [version |-> 0, inputs |-> <<>>, outputs |-> <<>>,
               witnesses |-> Absent, lock_time |-> 0]
    BY DEF Init
<1>3. tx \in Transaction /\ stack \in Stack
    <2>1. 0 \in Octet
        BY Forms DEF Octet
    <2> QED BY <1>2, <2>1 DEF Transaction, Stack
<1>4. Filled(at, tx, left, stack)
    BY <1>2 DEF Filled, Early, Late
<1>5. Span(0, p) = Written(at, tx, left, stack)
    <2>1. Span(0, 0) = <<>>
        BY <1>1, SubSeqProperties, EmptySeq DEF Span
    <2> QED BY <1>2, <2>1, Rows
<1> QED BY <1>1, <1>2, <1>3, <1>4, <1>5 DEF IInv, Started, Judged, Places

\* Giving up leaves everything else as it is.
LEMMA RejectIInv == ASSUME IInv, Reject PROVE IInv'
<1>1. /\ at' = "rejected" /\ raw' = raw /\ claimed' = claimed /\ p' = p /\ left' = left
      /\ tx' = tx /\ stack' = stack
    BY DEF Reject
<1> QED BY <1>1 DEF IInv, Started, Judged, Filled, Early, Late, Places

\* One lemma per step: what it takes from the input is what it has read.
LEMMA VersionIInv == ASSUME IInv, ReadVersion PROVE IInv'
<1> DEFINE version == IF Len(raw) > MaxTxBytes THEN Error ELSE Take(0, 1)
<1>1. /\ at = "version" /\ raw \in Seq(Octet) /\ left \in Nat /\ tx \in Transaction
      /\ stack \in Stack /\ Filled(at, tx, left, stack) /\ Len(raw) \in Nat
    BY LenProperties DEF IInv, ReadVersion
<1>2. CASE Reject
    BY <1>2, RejectIInv
<1>3. CASE /\ version # Error /\ p' = version.next
           /\ tx' = [tx EXCEPT !.version = version.value[1]]
           /\ at' = "marker" /\ UNCHANGED <<raw, claimed, left, stack>>
    <2>1. ~(Len(raw) > MaxTxBytes) /\ version = Take(0, 1) /\ Take(0, 1) # Error
        BY <1>3
    <2>2. 0 \in 0..Len(raw)
        BY <1>1
    <2>3. /\ version.next = 1 /\ 1 \in 0..Len(raw) /\ version.value[1] \in Octet
          /\ Span(0, 1) = <<version.value[1]>>
        BY <1>1, <2>1, <2>2, ByteReads
    <2> HIDE DEF version
    <2>4. tx' \in Transaction /\ tx'.version = version.value[1] /\ tx'.inputs = tx.inputs
          /\ tx'.outputs = tx.outputs /\ tx'.witnesses = tx.witnesses
        BY <1>1, <1>3, <2>3 DEF Transaction
    <2>5. Filled("marker", tx', left', stack')
        BY <1>1, <1>3, <2>4 DEF Filled, Early, Late
    <2>6. Span(0, p)' = <<tx'.version>>
        BY <1>3, <2>3, <2>4 DEF Span
    <2>7. Span(0, p)' = Written("marker", tx', left', stack')
        BY <2>6, Rows
    <2>8. Len(raw') <= MaxTxBytes
        BY <1>1, <1>3, <2>1, LimitsAssumption
    <2> QED BY <1>1, <1>3, <2>3, <2>4, <2>5, <2>7, <2>8 DEF IInv, Started, Judged, Places
<1> QED BY <1>2, <1>3 DEF ReadVersion, Reading

\* The marker and the flag are what an encoding with a witness has behind the
\* version.
LEMMA MarkerIInv == ASSUME IInv, ReadMarker PROVE IInv'
<1>1. /\ at = "marker" /\ raw \in Seq(Octet) /\ p \in 0..Len(raw) /\ left \in Nat
      /\ tx \in Transaction /\ stack \in Stack /\ Filled("marker", tx, left, stack)
      /\ Len(raw) \in Nat /\ Len(raw) <= MaxTxBytes
      /\ Span(0, p) = <<tx.version>>
      /\ raw' = raw /\ left' = left /\ stack' = stack
    BY LenProperties, Rows DEF IInv, ReadMarker, Started
<1>2. /\ tx.inputs = <<>> /\ tx.outputs = <<>> /\ tx.witnesses = Absent /\ stack = <<>>
    BY <1>1 DEF Filled, Early
<1>3. CASE at' = "in_count" /\ UNCHANGED <<p, tx>>
    <2>1. Written("in_count", tx, left, stack) = <<tx.version>>
        <3>1. Written("in_count", tx, left, stack) = Opening(tx)
            BY Rows
        <3> QED BY <1>2, <3>1 DEF Opening
    <2>2. Filled("in_count", tx, left, stack)
        BY <1>2 DEF Filled, Early, Late
    <2>3. Span(0, p)' = Span(0, p)
        BY <1>1, <1>3 DEF Span
    <2> QED BY <1>1, <1>3, <2>1, <2>2, <2>3 DEF IInv, Started, Judged, Places
<1>4. CASE /\ Remaining > 1 /\ raw[p + 1] = 0 /\ raw[p + 2] = 1
           /\ p' = p + 2 /\ at' = "in_count" /\ tx' = [tx EXCEPT !.witnesses = <<>>]
    <2>1. p \in Nat /\ p + 2 \in p..Len(raw) /\ p + 2 \in 0..Len(raw)
        BY <1>1, <1>4 DEF Remaining
    <2>2. Span(p, p + 2) = <<0, 1>>
        <3> DEFINE q == p + 1  r == p + 2  s == SubSeq(raw, q, r)
        <3>1. /\ q \in Int /\ r \in Int /\ q <= r /\ r - q + 1 = 2
              /\ q + 1 - 1 = q /\ q + 2 - 1 = r
              /\ q..r \subseteq 1..Len(raw)
            BY <2>1, <1>1
        <3>2. \A k \in q..r : raw[k] \in Octet
            BY <1>1, <3>1, ElementOfSeq
        <3> HIDE DEF q, r
        <3>3. s \in Seq(Octet) /\ Len(s) = 2 /\ s[1] = raw[q] /\ s[2] = raw[r]
            <4>1. /\ s \in Seq(Octet) /\ Len(s) = r - q + 1
                  /\ \A k \in 1..(r - q + 1) : s[k] = raw[q + k - 1]
                BY <3>1, <3>2, SubSeqProperties
            <4>2. 1 \in 1..(r - q + 1) /\ 2 \in 1..(r - q + 1)
                BY <3>1
            <4> HIDE DEF s
            <4>3. s[1] = raw[q + 1 - 1] /\ s[2] = raw[q + 2 - 1]
                BY <4>1, <4>2
            <4> QED BY <3>1, <4>1, <4>3
        <3>4. raw[q] = 0 /\ raw[r] = 1
            BY <1>4 DEF q, r
        <3> HIDE DEF s
        <3>5. s = <<0, 1>>
            BY <3>3, <3>4
        <3> QED BY <3>5 DEF Span, s, q, r
    <2>3. Span(0, p + 2) = <<tx.version, 0, 1>>
        <3>1. <<tx.version>> \o <<0, 1>> = <<tx.version, 0, 1>>
            BY Tuples
        <3> QED BY <1>1, <2>1, <2>2, <3>1, ReadOn
    <2>4. /\ tx' \in Transaction /\ tx'.version = tx.version /\ tx'.inputs = <<>>
          /\ tx'.outputs = <<>> /\ tx'.witnesses = <<>>
        BY <1>1, <1>2, <1>4, NoneIsAbsent DEF Transaction
    <2>5. Written("in_count", tx', left', stack') = <<tx.version, 0, 1>>
        <3>1. Written("in_count", tx', left', stack') = Opening(tx')
            BY Rows
        <3>2. Opening(tx') = <<tx'.version, 0, 1>>
            BY <2>4, NoneIsAbsent DEF Opening
        <3> QED BY <2>4, <3>1, <3>2
    <2>6. Filled("in_count", tx', left', stack')
        BY <1>1, <1>2, <2>4 DEF Filled, Early, Late
    <2>7. Span(0, p)' = Span(0, p + 2)
        BY <1>1, <1>4 DEF Span
    <2> QED BY <1>1, <1>4, <2>1, <2>3, <2>4, <2>5, <2>6, <2>7 DEF IInv, Started, Judged, Places
<1>5. CASE at' = "rejected" /\ UNCHANGED <<p, tx>>
    <2>1. Reject
        BY <1>5 DEF ReadMarker, Reject
    <2> QED BY <2>1, RejectIInv
<1> QED BY <1>3, <1>4, <1>5 DEF ReadMarker

\* The count of the inputs is written before them,
LEMMA CountInputsIInv == ASSUME IInv, CountInputs PROVE IInv'
<1> DEFINE n == Count(p, 1..MaxInputs)
<1>1. /\ at = "in_count" /\ raw \in Seq(Octet) /\ p \in 0..Len(raw)
      /\ tx \in Transaction /\ stack \in Stack /\ Filled("in_count", tx, left, stack)
      /\ Len(raw) <= MaxTxBytes /\ Span(0, p) = Opening(tx)
    BY Rows DEF IInv, CountInputs, Started
<1>2. tx.inputs = <<>> /\ tx.outputs = <<>> /\ tx.witnesses \in {Absent, <<>>} /\ stack = <<>>
    BY <1>1 DEF Filled, Early
<1>3. CASE Reject
    BY <1>3, RejectIInv
<1>4. CASE /\ n # Error /\ p' = n.next /\ left' = n.value /\ at' = "input"
           /\ UNCHANGED <<raw, claimed, tx, stack>>
    <2>1. /\ n.value \in 1..MaxInputs /\ n.value \in Nat /\ n.next \in p..Len(raw)
          /\ Span(p, n.next) = WriteVarint(n.value)
        BY <1>1, <1>4, CountReads
    <2> HIDE DEF n
    <2>2. p' \in 0..Len(raw) /\ Span(0, p') = Opening(tx) \o WriteVarint(n.value)
        BY <1>1, <1>4, <2>1, ReadOn
    <2>3. Written("input", tx, n.value, stack) = Opening(tx) \o WriteVarint(n.value)
        <3>1. WriteVarint(n.value) \o <<>> = WriteVarint(n.value)
            BY <2>1, VarintIsBytes, ConcatEmptySeq
        <3>2. InputsOf(tx.inputs) = <<>> /\ Len(tx.inputs) + n.value = n.value
            BY <1>2, <2>1, NoElements, NoneIsAbsent
        <3>3. Written("input", tx, n.value, stack)
                  = Opening(tx) \o (WriteVarint(Len(tx.inputs) + n.value) \o InputsOf(tx.inputs))
            BY Rows
        <3> QED BY <3>1, <3>2, <3>3
    <2>4. Filled("input", tx, n.value, stack) /\ n.value >= 1
        <3>1. Len(tx.inputs) + n.value \in 1..MaxInputs /\ n.value >= 1
            BY <1>2, <2>1, NoneIsAbsent, LimitsAssumption
        <3> QED BY <1>2, <3>1 DEF Filled, Early, Late
    <2>5. Span(0, p)' = Span(0, p')
        BY <1>4 DEF Span
    <2> QED BY <1>1, <1>4, <2>1, <2>2, <2>3, <2>4, <2>5 DEF IInv, Started, Judged, Places
<1> QED BY <1>3, <1>4 DEF CountInputs, Reading

\* each input behind those before it,
LEMMA InputIInv == ASSUME IInv, ReadInput PROVE IInv'
<1>1. /\ at = "input" /\ raw \in Seq(Octet) /\ p \in 0..Len(raw) /\ left \in Nat /\ left >= 1
      /\ tx \in Transaction /\ stack \in Stack /\ Filled("input", tx, left, stack)
      /\ Len(raw) <= MaxTxBytes
    BY DEF IInv, ReadInput, Started
<1>2. Span(0, p) = Opening(tx) \o (WriteVarint(Len(tx.inputs) + left) \o InputsOf(tx.inputs))
    <2>1. Span(0, p) = Written("input", tx, left, stack)
        BY <1>1 DEF IInv
    <2> QED BY <2>1, Rows
<1>3. /\ tx.outputs = <<>> /\ tx.witnesses \in {Absent, <<>>} /\ stack = <<>>
      /\ Len(tx.inputs) + left \in 1..MaxInputs
    BY <1>1 DEF Filled
<1>4. CASE Reject
    BY <1>4, RejectIInv
<1>5. CASE /\ Input # Error /\ p' = Input.next
           /\ tx' = [tx EXCEPT !.inputs = Append(@, Input.value)]
           /\ left' = left - 1
           /\ at' = IF left = 1 THEN "out_count" ELSE "input"
           /\ UNCHANGED stack /\ UNCHANGED <<raw, claimed>>
    <2> DEFINE in == Input.value  ins == Append(tx.inputs, in)  n == Len(tx.inputs) + left
               front == Opening(tx) \o WriteVarint(n)
    <2>1. /\ in \in InputType /\ Input.next \in p..Len(raw)
          /\ Span(p, Input.next) = WriteInput(in)
        BY <1>1, <1>5, InputReads
    <2>2. /\ tx.inputs \in Seq(InputType) /\ Len(tx.inputs) \in Nat /\ n \in Nat
          /\ Opening(tx) \in Seq(Octet)
        BY <1>1, Parts, PartsAreBytes
    <2> HIDE DEF in
    <2>3. ins \in Seq(InputType) /\ Len(ins) = Len(tx.inputs) + 1
        BY <2>1, <2>2, AppendProperties
    <2>4. /\ InputsOf(tx.inputs) \in Seq(Octet)
          /\ InputsOf(ins) = InputsOf(tx.inputs) \o WriteInput(in)
        BY <2>1, <2>2, InputsGrow
    <2>5. WriteVarint(n) \in Seq(Octet) /\ WriteInput(in) \in Seq(Octet)
        BY <2>1, <2>2, VarintIsBytes, InputIsWritten
    <2> HIDE DEF ins, n
    <2>6. p' \in 0..Len(raw) /\ Span(0, p') = Opening(tx) \o (WriteVarint(n) \o InputsOf(ins))
        <3>1. p' \in 0..Len(raw) /\ Span(0, p') = Span(0, p) \o WriteInput(in)
            BY <1>1, <1>5, <2>1, ReadOn
        <3>2. Span(0, p) = Opening(tx) \o (WriteVarint(n) \o InputsOf(tx.inputs))
            BY <1>2 DEF n
        <3>3. WriteVarint(n) \o InputsOf(tx.inputs) \in Seq(Octet)
            BY <2>4, <2>5, ConcatProperties
        <3>4. (Opening(tx) \o (WriteVarint(n) \o InputsOf(tx.inputs))) \o WriteInput(in)
                  = Opening(tx) \o ((WriteVarint(n) \o InputsOf(tx.inputs)) \o WriteInput(in))
            <4> DEFINE a == Opening(tx)  b == WriteVarint(n) \o InputsOf(tx.inputs)
                       c == WriteInput(in)
            <4>1. a \in Seq(Octet) /\ b \in Seq(Octet) /\ c \in Seq(Octet)
                BY <2>2, <2>5, <3>3
            <4> HIDE DEF a, b, c
            <4>2. (a \o b) \o c = a \o (b \o c)
                BY <4>1, ConcatAssociative
            <4> QED BY <4>2 DEF a, b, c
        <3>5. (WriteVarint(n) \o InputsOf(tx.inputs)) \o WriteInput(in)
                  = WriteVarint(n) \o (InputsOf(tx.inputs) \o WriteInput(in))
            BY <2>4, <2>5, ConcatAssociative
        <3> QED BY <2>4, <3>1, <3>2, <3>4, <3>5
    <2>7. /\ tx' \in Transaction /\ tx'.version = tx.version /\ tx'.inputs = ins
          /\ tx'.outputs = tx.outputs /\ tx'.witnesses = tx.witnesses
        <3>1. tx' = [tx EXCEPT !.inputs = ins]
            BY <1>5 DEF ins, in
        <3> QED BY <1>1, <2>3, <3>1 DEF Transaction
    <2>8. Opening(tx') = Opening(tx)
        BY <2>7 DEF Opening
    <2>9. Span(0, p)' = Span(0, p')
        BY <1>5 DEF Span
    <2>10. left' \in Nat /\ n = Len(tx.inputs) + left
        BY <1>1, <1>5 DEF n
    <2>11. CASE left = 1
        <3>1. at' = "out_count" /\ Len(tx'.inputs) = n
            BY <1>5, <2>2, <2>3, <2>7, <2>10, <2>11
        <3>2. Span(0, p)' = Written("out_count", tx', left', stack')
            <4>1. Written("out_count", tx', left', stack') = Opening(tx') \o WriteInputs(tx')
                BY Rows
            <4>2. WriteInputs(tx') = WriteVarint(Len(tx'.inputs)) \o InputsOf(tx'.inputs)
                BY <2>7, Parts, VectorsAreWritten
            <4> QED BY <2>6, <2>7, <2>8, <2>9, <3>1, <4>1, <4>2
        <3>3. Filled("out_count", tx', left', stack')
            BY <1>3, <1>5, <2>7, <2>10, <3>1 DEF Filled, Early, Late
        <3> QED BY <1>1, <1>5, <2>6, <2>7, <2>10, <3>1, <3>2, <3>3
                DEF IInv, Started, Judged, Places
    <2>12. CASE left # 1
        <3>1. at' = "input" /\ Len(tx'.inputs) + left' = n /\ left' >= 1
            <4>1. Len(tx'.inputs) = Len(tx.inputs) + 1 /\ Len(tx.inputs) \in Nat
                BY <2>2, <2>3, <2>7
            <4>2. left' = left - 1 /\ left \in Nat /\ left > 1 /\ at' = "input"
                BY <1>1, <1>5, <2>12
            <4> QED BY <2>10, <4>1, <4>2
        <3>2. Span(0, p)' = Written("input", tx', left', stack')
            <4>1. Written("input", tx', left', stack') = Opening(tx')
                      \o (WriteVarint(Len(tx'.inputs) + left') \o InputsOf(tx'.inputs))
                BY Rows
            <4> QED BY <2>6, <2>7, <2>8, <2>9, <3>1, <4>1
        <3>3. Filled("input", tx', left', stack')
            BY <1>3, <1>5, <2>7, <2>10, <3>1 DEF Filled, Early, Late
        <3> QED BY <1>1, <1>5, <2>6, <2>7, <2>10, <3>1, <3>2, <3>3
                DEF IInv, Started, Judged, Places
    <2> QED BY <2>11, <2>12
<1> QED BY <1>4, <1>5 DEF ReadInput, Reading

\* the count of the outputs behind the inputs,
LEMMA CountOutputsIInv == ASSUME IInv, CountOutputs PROVE IInv'
<1> DEFINE n == Count(p, 1..MaxOutputs)  front == Opening(tx) \o WriteInputs(tx)
<1>1. /\ at = "out_count" /\ raw \in Seq(Octet) /\ p \in 0..Len(raw)
      /\ tx \in Transaction /\ stack \in Stack /\ Filled("out_count", tx, left, stack)
      /\ Len(raw) <= MaxTxBytes /\ Span(0, p) = front
    BY Rows DEF IInv, CountOutputs, Started
<1>2. /\ tx.outputs = <<>> /\ tx.witnesses \in {Absent, <<>>} /\ stack = <<>>
      /\ Len(tx.inputs) \in 1..MaxInputs
    BY <1>1 DEF Filled, Early
<1>3. CASE Reject
    BY <1>3, RejectIInv
<1>4. CASE /\ n # Error /\ p' = n.next /\ left' = n.value /\ at' = "output"
           /\ UNCHANGED <<raw, claimed, tx, stack>>
    <2>1. /\ n.value \in 1..MaxOutputs /\ n.value \in Nat /\ n.next \in p..Len(raw)
          /\ Span(p, n.next) = WriteVarint(n.value)
        BY <1>1, <1>4, CountReads
    <2> HIDE DEF n
    <2>2. p' \in 0..Len(raw) /\ Span(0, p') = front \o WriteVarint(n.value)
        BY <1>1, <1>4, <2>1, ReadOn
    <2>3. Written("output", tx, n.value, stack) = front \o WriteVarint(n.value)
        <3>1. WriteVarint(n.value) \o <<>> = WriteVarint(n.value)
            BY <2>1, VarintIsBytes, ConcatEmptySeq
        <3>2. OutputsOf(tx.outputs) = <<>> /\ Len(tx.outputs) + n.value = n.value
            BY <1>2, <2>1, NoElements, NoneIsAbsent
        <3>3. Written("output", tx, n.value, stack)
                  = front \o (WriteVarint(Len(tx.outputs) + n.value) \o OutputsOf(tx.outputs))
            BY Rows
        <3> QED BY <3>1, <3>2, <3>3
    <2>4. Filled("output", tx, n.value, stack) /\ n.value >= 1
        <3>1. Len(tx.outputs) + n.value \in 1..MaxOutputs /\ n.value >= 1
            BY <1>2, <2>1, NoneIsAbsent, LimitsAssumption
        <3> QED BY <1>2, <3>1 DEF Filled, Early, Late
    <2>5. Span(0, p)' = Span(0, p')
        BY <1>4 DEF Span
    <2> QED BY <1>1, <1>4, <2>1, <2>2, <2>3, <2>4, <2>5 DEF IInv, Started, Judged, Places
<1> QED BY <1>3, <1>4 DEF CountOutputs, Reading

\* each output behind those before it,
LEMMA OutputIInv == ASSUME IInv, ReadOutput PROVE IInv'
<1> DEFINE front == Opening(tx) \o WriteInputs(tx)
<1>1. /\ at = "output" /\ raw \in Seq(Octet) /\ p \in 0..Len(raw) /\ left \in Nat /\ left >= 1
      /\ tx \in Transaction /\ stack \in Stack /\ Filled("output", tx, left, stack)
      /\ Len(raw) <= MaxTxBytes
    BY DEF IInv, ReadOutput, Started
<1>2. Span(0, p) = front \o (WriteVarint(Len(tx.outputs) + left) \o OutputsOf(tx.outputs))
    <2>1. Span(0, p) = Written("output", tx, left, stack)
        BY <1>1 DEF IInv
    <2> QED BY <2>1, Rows
<1>3. /\ tx.witnesses \in {Absent, <<>>} /\ stack = <<>>
      /\ Len(tx.inputs) \in 1..MaxInputs /\ Len(tx.outputs) + left \in 1..MaxOutputs
    BY <1>1 DEF Filled
<1>4. CASE Reject
    BY <1>4, RejectIInv
<1>5. CASE /\ Output # Error /\ p' = Output.next
           /\ tx' = [tx EXCEPT !.outputs = Append(@, Output.value)]
           /\ left' = left - 1
           /\ at' = IF left > 1 THEN "output"
                    ELSE IF tx.witnesses = Absent THEN "lock_time" ELSE "items"
           /\ UNCHANGED stack /\ UNCHANGED <<raw, claimed>>
    <2> DEFINE out == Output.value  outs == Append(tx.outputs, out)  n == Len(tx.outputs) + left
    <2>1. /\ out \in OutputType /\ Output.next \in p..Len(raw)
          /\ Span(p, Output.next) = WriteOutput(out)
        BY <1>1, <1>5, OutputReads
    <2>2. /\ tx.outputs \in Seq(OutputType) /\ Len(tx.outputs) \in Nat /\ n \in Nat
          /\ front \in Seq(Octet)
        BY <1>1, Parts, PartsAreBytes
    <2> HIDE DEF out, front
    <2>3. outs \in Seq(OutputType) /\ Len(outs) = Len(tx.outputs) + 1
        BY <2>1, <2>2, AppendProperties
    <2>4. /\ OutputsOf(tx.outputs) \in Seq(Octet)
          /\ OutputsOf(outs) = OutputsOf(tx.outputs) \o WriteOutput(out)
        BY <2>1, <2>2, OutputsGrow
    <2>5. WriteVarint(n) \in Seq(Octet) /\ WriteOutput(out) \in Seq(Octet)
        BY <2>1, <2>2, VarintIsBytes, OutputIsWritten
    <2> HIDE DEF outs, n
    <2>6. p' \in 0..Len(raw) /\ Span(0, p') = front \o (WriteVarint(n) \o OutputsOf(outs))
        <3>1. p' \in 0..Len(raw) /\ Span(0, p') = Span(0, p) \o WriteOutput(out)
            BY <1>1, <1>5, <2>1, ReadOn
        <3>2. Span(0, p) = front \o (WriteVarint(n) \o OutputsOf(tx.outputs))
            BY <1>2 DEF n
        <3>3. WriteVarint(n) \o OutputsOf(tx.outputs) \in Seq(Octet)
            BY <2>4, <2>5, ConcatProperties
        <3>4. (front \o (WriteVarint(n) \o OutputsOf(tx.outputs))) \o WriteOutput(out)
                  = front \o ((WriteVarint(n) \o OutputsOf(tx.outputs)) \o WriteOutput(out))
            <4> DEFINE a == front  b == WriteVarint(n) \o OutputsOf(tx.outputs)
                       c == WriteOutput(out)
            <4>1. a \in Seq(Octet) /\ b \in Seq(Octet) /\ c \in Seq(Octet)
                BY <2>2, <2>5, <3>3
            <4> HIDE DEF a, b, c
            <4>2. (a \o b) \o c = a \o (b \o c)
                BY <4>1, ConcatAssociative
            <4> QED BY <4>2 DEF a, b, c
        <3>5. (WriteVarint(n) \o OutputsOf(tx.outputs)) \o WriteOutput(out)
                  = WriteVarint(n) \o (OutputsOf(tx.outputs) \o WriteOutput(out))
            BY <2>4, <2>5, ConcatAssociative
        <3> QED BY <2>4, <3>1, <3>2, <3>4, <3>5
    <2>7. /\ tx' \in Transaction /\ tx'.version = tx.version /\ tx'.inputs = tx.inputs
          /\ tx'.outputs = outs /\ tx'.witnesses = tx.witnesses
        <3>1. tx' = [tx EXCEPT !.outputs = outs]
            BY <1>5 DEF outs, out
        <3> QED BY <1>1, <2>3, <3>1 DEF Transaction
    <2>8. Opening(tx') \o WriteInputs(tx') = front
        BY <2>7 DEF Opening, WriteInputs, front
    <2>9. Span(0, p)' = Span(0, p')
        BY <1>5 DEF Span
    <2>10. left' \in Nat /\ n = Len(tx.outputs) + left
        BY <1>1, <1>5 DEF n
    <2>11. CASE left = 1
        <3>1. Len(tx'.outputs) = n /\ ~(left > 1)
            BY <1>5, <2>2, <2>3, <2>7, <2>10, <2>11
        <3>2. Span(0, p)' = Outs(tx')
            <4>1. WriteOutputs(tx') = WriteVarint(Len(tx'.outputs)) \o OutputsOf(tx'.outputs)
                BY <2>7, Parts, VectorsAreWritten
            <4> QED BY <2>6, <2>7, <2>8, <2>9, <3>1, <4>1 DEF Outs
        <3>3. CASE tx.witnesses = Absent
            <4>1. at' = "lock_time"
                BY <1>5, <3>1, <3>3
            <4>2. Written("lock_time", tx', left', stack') = Outs(tx')
                <5>1. Written("lock_time", tx', left', stack') = Body(tx')
                    BY Rows
                <5> QED BY <2>7, <3>3, <5>1 DEF Body
            <4>3. Filled("lock_time", tx', left', stack')
                BY <1>3, <1>5, <2>7, <2>10, <3>1, <3>3 DEF Filled, Early, Late
            <4> QED BY <1>1, <1>5, <2>6, <2>7, <2>10, <3>2, <4>1, <4>2, <4>3
                    DEF IInv, Started, Judged, Places
        <3>4. CASE tx.witnesses = <<>>
            <4>1. at' = "items"
                BY <1>5, <3>1, <3>4, NoneIsAbsent
            <4>2. Written("items", tx', left', stack') = Outs(tx')
                <5>1. Written("items", tx', left', stack') = Body(tx')
                    BY Rows
                <5>2. Body(tx') = Outs(tx') \o <<>>
                    BY <2>7, <3>4, NoneIsAbsent, NoElements DEF Body
                <5>3. Outs(tx') \in Seq(Octet)
                    BY <2>7, PartsAreBytes
                <5>4. Outs(tx') \o <<>> = Outs(tx')
                    BY <5>3, ConcatEmptySeq
                <5> QED BY <5>1, <5>2, <5>4
            <4>3. Filled("items", tx', left', stack')
                <5>1. /\ tx'.witnesses # Absent /\ Len(tx'.witnesses) < Len(tx'.inputs)
                      /\ Len(tx'.inputs) \in 1..MaxInputs /\ Len(tx'.outputs) \in 1..MaxOutputs
                    BY <1>3, <2>7, <2>10, <3>1, <3>4, NoneIsAbsent, LimitsAssumption
                <5> QED BY <1>3, <1>5, <5>1 DEF Filled, Early, Late
            <4> QED BY <1>1, <1>5, <2>6, <2>7, <2>10, <3>2, <4>1, <4>2, <4>3
                    DEF IInv, Started, Judged, Places
        <3> QED BY <1>3, <3>3, <3>4
    <2>12. CASE left # 1
        <3>1. at' = "output" /\ Len(tx'.outputs) + left' = n /\ left' >= 1
            <4>1. Len(tx'.outputs) = Len(tx.outputs) + 1 /\ Len(tx.outputs) \in Nat
                BY <2>2, <2>3, <2>7
            <4>2. left' = left - 1 /\ left \in Nat /\ left > 1 /\ at' = "output"
                BY <1>1, <1>5, <2>12
            <4> QED BY <2>10, <4>1, <4>2
        <3>2. Span(0, p)' = Written("output", tx', left', stack')
            <4>1. Written("output", tx', left', stack') = Opening(tx') \o WriteInputs(tx')
                      \o (WriteVarint(Len(tx'.outputs) + left') \o OutputsOf(tx'.outputs))
                BY Rows
            <4> QED BY <2>6, <2>7, <2>8, <2>9, <3>1, <4>1
        <3>3. Filled("output", tx', left', stack')
            BY <1>3, <1>5, <2>7, <2>10, <3>1 DEF Filled, Early, Late
        <3> QED BY <1>1, <1>5, <2>6, <2>7, <2>10, <3>1, <3>2, <3>3
                DEF IInv, Started, Judged, Places
    <2> QED BY <2>11, <2>12
<1> QED BY <1>4, <1>5 DEF ReadOutput, Reading

\* A witness more, the bytes read being those of the transaction with it
LEMMA PushIInv ==
    ASSUME IInv, at \in {"items", "item"}, NEW w \in Stack, PushWitness(w),
           p' \in 0..Len(raw), left' \in Nat, UNCHANGED <<raw, claimed>>,
           Span(0, p') = Body(tx) \o WriteWitness(w)
    PROVE  IInv'
<1> DEFINE all == Append(tx.witnesses, w)
<1>1. /\ raw \in Seq(Octet) /\ Len(raw) <= MaxTxBytes /\ tx \in Transaction
      /\ Filled(at, tx, left, stack)
    BY DEF IInv, Started
<1>2. /\ Len(tx.inputs) \in 1..MaxInputs /\ Len(tx.outputs) \in 1..MaxOutputs
      /\ tx.witnesses # Absent /\ Len(tx.witnesses) < Len(tx.inputs)
    BY <1>1 DEF Filled
<1>3. /\ tx.witnesses \in Seq(Stack) /\ Len(tx.witnesses) \in Nat /\ Len(tx.inputs) \in Nat
    BY <1>1, <1>2, Parts
<1>4. /\ all \in Seq(Stack) /\ Len(all) = Len(tx.witnesses) + 1 /\ all # Absent
      /\ DOMAIN all = 1..Len(all)
    <2>1. all \in Seq(Stack) /\ Len(all) = Len(tx.witnesses) + 1
        BY <1>3, AppendProperties
    <2>2. all # Absent
        BY <2>1, OptionAssumption
    <2> QED BY <2>1, <2>2, LenProperties
<1>5. /\ tx' = [tx EXCEPT !.witnesses = all] /\ stack' = <<>>
      /\ at' = IF Len(all) < Len(tx.inputs) THEN "items"
               ELSE IF \A k \in DOMAIN all : all[k] = <<>> THEN "rejected"
               ELSE "lock_time"
    BY DEF PushWitness
<1>6. WitnessesOf(all) = WitnessesOf(tx.witnesses) \o WriteWitness(w)
    BY <1>3, WitnessesGrow
<1> HIDE DEF all
<1>7. /\ tx' \in Transaction /\ tx'.version = tx.version /\ tx'.inputs = tx.inputs
      /\ tx'.outputs = tx.outputs /\ tx'.witnesses = all
    BY <1>1, <1>4, <1>5 DEF Transaction
<1>8. Body(tx') = Body(tx) \o WriteWitness(w)
    <2>1. Outs(tx') = Outs(tx)
        BY <1>2, <1>4, <1>7 DEF Outs, Opening, WriteInputs, WriteOutputs
    <2>2. Body(tx') = Outs(tx) \o (WitnessesOf(tx.witnesses) \o WriteWitness(w))
        BY <1>4, <1>6, <1>7, <2>1 DEF Body
    <2>3. Body(tx) = Outs(tx) \o WitnessesOf(tx.witnesses)
        BY <1>2 DEF Body
    <2>4. /\ Outs(tx) \in Seq(Octet) /\ WitnessesOf(tx.witnesses) \in Seq(Octet)
          /\ WriteWitness(w) \in Seq(Octet)
        BY <1>1, <1>3, PartsAreBytes, WitnessesGrow, WitnessIsWritten
    <2> DEFINE a == Outs(tx)  b == WitnessesOf(tx.witnesses)  c == WriteWitness(w)
    <2>5. a \in Seq(Octet) /\ b \in Seq(Octet) /\ c \in Seq(Octet)
        BY <2>4
    <2> HIDE DEF a, b, c
    <2>6. (a \o b) \o c = a \o (b \o c)
        BY ONLY <2>5, ConcatAssociative
    <2> QED BY <2>2, <2>3, <2>6 DEF a, b, c
<1>9. Span(0, p)' = Body(tx')
    <2>1. Span(0, p)' = Span(0, p')
        BY DEF Span
    <2> QED BY <1>8, <2>1
<1>10. stack' \in Stack /\ Len(raw') <= MaxTxBytes /\ raw' = raw
    BY <1>1, <1>5, NoneIsAbsent
<1>11. CASE Len(all) < Len(tx.inputs)
    <2>1. at' = "items"
        BY <1>5, <1>11
    <2>2. Filled("items", tx', left', stack')
        BY <1>2, <1>4, <1>5, <1>7, <1>11 DEF Filled, Early, Late
    <2>3. Written("items", tx', left', stack') = Body(tx')
        BY Rows
    <2> QED BY <1>1, <1>7, <1>9, <1>10, <2>1, <2>2, <2>3 DEF IInv, Started, Judged, Places
<1>12. CASE Len(all) >= Len(tx.inputs) /\ \A k \in DOMAIN all : all[k] = <<>>
    <2>1. at' = "rejected"
        BY <1>3, <1>4, <1>5, <1>12
    <2> QED BY <1>1, <1>7, <1>10, <2>1 DEF IInv, Started, Judged, Filled, Early, Late, Places
<1>13. CASE Len(all) >= Len(tx.inputs) /\ \E k \in DOMAIN all : all[k] # <<>>
    <2>1. at' = "lock_time" /\ Len(all) = Len(tx.inputs)
        BY <1>2, <1>3, <1>4, <1>5, <1>13
    <2>2. Filled("lock_time", tx', left', stack')
        BY <1>2, <1>4, <1>5, <1>7, <1>13, <2>1 DEF Filled, Early, Late
    <2>3. Written("lock_time", tx', left', stack') = Body(tx')
        BY Rows
    <2> QED BY <1>1, <1>7, <1>9, <1>10, <2>1, <2>2, <2>3 DEF IInv, Started, Judged, Places
<1>14. Len(all) < Len(tx.inputs) \/ Len(all) >= Len(tx.inputs)
    BY <1>3, <1>4
<1> QED BY <1>11, <1>12, <1>13, <1>14

\* the count of a stack behind the stacks before it,
LEMMA CountItemsIInv == ASSUME IInv, CountItems PROVE IInv'
<1> DEFINE n == Count(p, 0..MaxWitnessItems)
<1>1. /\ at = "items" /\ raw \in Seq(Octet) /\ p \in 0..Len(raw)
      /\ tx \in Transaction /\ stack \in Stack /\ Filled("items", tx, left, stack)
      /\ Len(raw) <= MaxTxBytes /\ Span(0, p) = Body(tx)
    BY Rows DEF IInv, CountItems, Started
<1>2. stack = <<>>
    BY <1>1 DEF Filled
<1>3. CASE Reject
    BY <1>3, RejectIInv
<1>4. CASE /\ n # Error /\ p' = n.next /\ left' = n.value /\ UNCHANGED <<raw, claimed>>
           /\ \/ n.value = 0 /\ PushWitness(<<>>)
              \/ n.value > 0 /\ at' = "item" /\ UNCHANGED <<tx, stack>>
    <2>1. /\ n.value \in 0..MaxWitnessItems /\ n.value \in Nat /\ n.next \in p..Len(raw)
          /\ Span(p, n.next) = WriteVarint(n.value)
        BY <1>1, <1>4, CountReads
    <2> HIDE DEF n
    <2>2. p' \in 0..Len(raw) /\ Span(0, p') = Body(tx) \o WriteVarint(n.value)
        BY <1>1, <1>4, <2>1, ReadOn
    <2>3. WriteVarint(n.value) \o <<>> = WriteVarint(n.value)
        BY <2>1, VarintIsBytes, ConcatEmptySeq
    <2>4. CASE n.value = 0 /\ PushWitness(<<>>)
        <3>1. WriteWitness(<<>>) = WriteVarint(n.value)
            BY <2>3, <2>4, NoneIsAbsent, NoElements, WitnessIsWritten
        <3>2. <<>> \in Stack /\ Span(0, p') = Body(tx) \o WriteWitness(<<>>)
            BY <2>2, <3>1, NoneIsAbsent
        <3>3. left' \in Nat /\ at \in {"items", "item"} /\ UNCHANGED <<raw, claimed>>
            BY <1>1, <1>4, <2>1
        <3> QED BY <2>2, <2>4, <3>2, <3>3, PushIInv
    <2>5. CASE n.value > 0 /\ at' = "item" /\ UNCHANGED <<tx, stack>>
        <3>1. Written("item", tx, n.value, stack) = Body(tx) \o WriteVarint(n.value)
            <4>1. ItemsOf(stack) = <<>> /\ Len(stack) + n.value = n.value
                BY <1>2, <2>1, NoElements, NoneIsAbsent
            <4>2. Written("item", tx, n.value, stack)
                      = Body(tx) \o (WriteVarint(Len(stack) + n.value) \o ItemsOf(stack))
                BY DEF Written
            <4> QED BY <2>3, <4>1, <4>2
        <3>2. Filled("item", tx, n.value, stack) /\ n.value >= 1
            <4>1. Len(stack) + n.value \in 1..MaxWitnessItems /\ n.value >= 1
                BY <1>2, <2>1, <2>5, NoneIsAbsent, LimitsAssumption
            <4> QED BY <1>1, <1>2, <4>1 DEF Filled, Early, Late
        <3>3. Span(0, p)' = Span(0, p')
            BY <1>4 DEF Span
        <3> QED BY <1>1, <1>4, <2>1, <2>2, <2>5, <3>1, <3>2, <3>3
                DEF IInv, Started, Judged, Places
    <2> QED BY <1>4, <2>4, <2>5
<1> QED BY <1>3, <1>4 DEF CountItems, Reading

\* and each item behind those before it.
LEMMA ItemIInv == ASSUME IInv, ReadItem PROVE IInv'
<1> DEFINE item == VarBytes(p)  all == Append(stack, item.value)
<1>1. /\ at = "item" /\ raw \in Seq(Octet) /\ p \in 0..Len(raw) /\ left \in Nat /\ left >= 1
      /\ tx \in Transaction /\ stack \in Stack /\ Filled("item", tx, left, stack)
      /\ Len(raw) <= MaxTxBytes
    BY DEF IInv, ReadItem, Started
<1>2. Span(0, p) = Body(tx) \o (WriteVarint(Len(stack) + left) \o ItemsOf(stack))
    <2>1. Span(0, p) = Written("item", tx, left, stack)
        BY <1>1 DEF IInv
    <2> QED BY <2>1, Rows
<1>3. CASE Reject
    BY <1>3, RejectIInv
<1>4. CASE /\ item # Error /\ p' = item.next /\ left' = left - 1 /\ UNCHANGED <<raw, claimed>>
           /\ \/ left = 1 /\ PushWitness(all)
              \/ left > 1 /\ stack' = all /\ UNCHANGED <<at, tx>>
    <2> DEFINE n == Len(stack) + left
    <2>1. /\ item.value \in Seq(Octet) /\ item.next \in p..Len(raw)
          /\ Span(p, item.next) = WriteBytes(item.value)
        BY <1>1, <1>4, VarBytesReads
    <2> HIDE DEF item
    <2>2. /\ all \in Stack /\ Len(all) = Len(stack) + 1 /\ Len(stack) \in Nat /\ n \in Nat
          /\ ItemsOf(stack) \in Seq(Octet)
          /\ ItemsOf(all) = ItemsOf(stack) \o WriteBytes(item.value)
        <3>1. all \in Stack /\ Len(all) = Len(stack) + 1 /\ Len(stack) \in Nat
            BY <1>1, <2>1, AppendProperties, LenProperties DEF Stack
        <3>2. /\ ItemsOf(stack) \in Seq(Octet)
              /\ ItemsOf(all) = ItemsOf(stack) \o WriteBytes(item.value)
            BY <1>1, <2>1, ItemsGrow
        <3> QED BY <1>1, <3>1, <3>2
    <2> HIDE DEF all, n
    <2>3. p' \in 0..Len(raw) /\ Span(0, p') = Body(tx) \o (WriteVarint(n) \o ItemsOf(all))
        <3> DEFINE a == Body(tx)  b == WriteVarint(n)  c == ItemsOf(stack)
                   d == WriteBytes(item.value)
        <3>1. p' \in 0..Len(raw) /\ Span(0, p') = Span(0, p) \o d
            BY <1>1, <1>4, <2>1, ReadOn
        <3>2. Span(0, p) = a \o (b \o c)
            BY <1>2 DEF n
        <3>3. a \in Seq(Octet) /\ b \in Seq(Octet) /\ c \in Seq(Octet) /\ d \in Seq(Octet)
            BY <1>1, <2>1, <2>2, PartsAreBytes, VarintIsBytes, BytesAreWritten
        <3>4. ItemsOf(all) = c \o d
            BY <2>2
        <3> HIDE DEF a, b, c, d
        <3>5. b \o c \in Seq(Octet)
            BY <3>3, ConcatProperties
        <3>6. (a \o (b \o c)) \o d = a \o ((b \o c) \o d)
            <4> DEFINE e == b \o c
            <4>1. e \in Seq(Octet)
                BY <3>5
            <4> HIDE DEF e
            <4>2. (a \o e) \o d = a \o (e \o d)
                BY <3>3, <4>1, ConcatAssociative
            <4> QED BY <4>2 DEF e
        <3>7. (b \o c) \o d = b \o (c \o d)
            BY <3>3, ConcatAssociative
        <3> QED BY <3>1, <3>2, <3>4, <3>6, <3>7 DEF a, b
    <2>4. left' \in Nat /\ n = Len(stack) + left
        BY <1>1, <1>4 DEF n
    <2>5. CASE left = 1 /\ PushWitness(all)
        <3>1. WriteWitness(all) = WriteVarint(n) \o ItemsOf(all)
            BY <2>2, <2>4, <2>5, WitnessIsWritten
        <3>2. at \in {"items", "item"} /\ UNCHANGED <<raw, claimed>>
            BY <1>1, <1>4
        <3>3. Span(0, p') = Body(tx) \o WriteWitness(all)
            BY <2>3, <3>1
        <3> QED BY <2>2, <2>3, <2>4, <2>5, <3>2, <3>3, PushIInv
    <2>6. CASE left > 1 /\ stack' = all /\ UNCHANGED <<at, tx>>
        <3>1. Len(stack') + left' = n /\ left' >= 1
            <4>1. /\ Len(stack') = Len(stack) + 1 /\ left' = left - 1
                  /\ left \in Nat /\ Len(stack) \in Nat
                BY <1>1, <1>4, <2>2, <2>6
            <4> QED BY <2>4, <2>6, <4>1
        <3>2. Written("item", tx', left', stack') = Body(tx) \o (WriteVarint(n) \o ItemsOf(all))
            <4>1. Written("item", tx', left', stack')
                      = Body(tx') \o (WriteVarint(Len(stack') + left') \o ItemsOf(stack'))
                BY Rows
            <4> QED BY <2>6, <3>1, <4>1
        <3>3. Filled("item", tx', left', stack')
            BY <1>1, <2>4, <2>6, <3>1 DEF Filled, Early, Late
        <3>4. Span(0, p)' = Span(0, p')
            BY <1>4 DEF Span
        <3>5. at' = "item" /\ tx' = tx /\ stack' = all
            BY <1>1, <2>6
        <3> QED BY <1>1, <1>4, <2>2, <2>3, <2>4, <3>1, <3>2, <3>3, <3>4, <3>5
                DEF IInv, Started, Judged, Places
    <2> QED BY <1>4, <2>5, <2>6
<1> QED BY <1>3, <1>4 DEF ReadItem, Reading

\* The lock time is the end of the input.
LEMMA LockTimeIInv == ASSUME IInv, ReadLockTime PROVE IInv'
<1>1. /\ at = "lock_time" /\ raw \in Seq(Octet) /\ p \in 0..Len(raw) /\ left \in Nat
      /\ tx \in Transaction /\ stack \in Stack /\ Filled("lock_time", tx, left, stack)
      /\ Len(raw) <= MaxTxBytes /\ Len(raw) \in Nat /\ Span(0, p) = Body(tx)
    BY Rows, LenProperties DEF IInv, ReadLockTime, Started
<1>2. CASE Reject
    BY <1>2, RejectIInv
<1>3. CASE /\ LockTime # Error /\ p' = LockTime.next
           /\ tx' = [tx EXCEPT !.lock_time = LockTime.value[1]]
           /\ at' = "parsed" /\ UNCHANGED <<left, stack>> /\ UNCHANGED <<raw, claimed>>
    <2>1. Remaining = 1 /\ LockTime = Take(p, 1) /\ Take(p, 1) # Error
        BY <1>3 DEF LockTime
    <2>2. /\ p' = p + 1 /\ p + 1 \in p..Len(raw) /\ LockTime.value[1] \in Octet
          /\ Span(p, p + 1) = <<LockTime.value[1]>>
        BY <1>1, <1>3, <2>1, ByteReads
    <2>3. p' = Len(raw) /\ p' \in 0..Len(raw) /\ Span(0, p') = Body(tx) \o <<LockTime.value[1]>>
        <3>1. Span(0, p + 1) = Span(0, p) \o Span(p, p + 1)
            BY <1>1, <2>2, ReadOn
        <3>2. p' = Len(raw) /\ p' \in 0..Len(raw)
            BY <1>1, <2>1, <2>2 DEF Remaining
        <3> QED BY <1>1, <2>2, <3>1, <3>2
    <2>4. /\ tx' \in Transaction /\ tx'.version = tx.version /\ tx'.inputs = tx.inputs
          /\ tx'.outputs = tx.outputs /\ tx'.witnesses = tx.witnesses
          /\ tx'.lock_time = LockTime.value[1]
        BY <1>1, <1>3, <2>2 DEF Transaction
    <2>5. Written("parsed", tx', left', stack') = Body(tx) \o <<LockTime.value[1]>>
        <3>1. Written("parsed", tx', left', stack') = Body(tx') \o <<tx'.lock_time>>
            BY Rows, WireIsBody
        <3>2. Body(tx') = Body(tx)
            BY <2>4 DEF Body, Outs, Opening, WriteInputs, WriteOutputs
        <3> QED BY <2>4, <3>1, <3>2
    <2>6. Filled("parsed", tx', left', stack')
        BY <1>1, <1>3, <2>4 DEF Filled, Early, Late
    <2>7. Span(0, p)' = Span(0, p')
        BY <1>3 DEF Span
    <2> QED BY <1>1, <1>3, <2>3, <2>4, <2>5, <2>6, <2>7 DEF IInv, Started, Judged, Places
<1> QED BY <1>2, <1>3 DEF ReadLockTime, Reading

\* The comparison of the txid leaves what was read.
LEMMA VerdictIInv == ASSUME IInv, VerifyTxidInternal PROVE IInv'
<1>1. /\ at = "parsed" /\ raw' = raw /\ claimed' = claimed /\ p' = p /\ left' = left
      /\ tx' = tx /\ stack' = stack
      /\ at' = IF Txid(tx) = claimed THEN "accepted" ELSE "mismatch"
    BY DEF VerifyTxidInternal
<1>2. /\ Span(0, p) = WireSerialize(tx) /\ Filled("parsed", tx, left, stack)
    BY <1>1, Rows DEF IInv
<1>3. Span(0, p)' = Span(0, p)
    BY <1>1 DEF Span
<1>4. Written(at', tx, left, stack) = WireSerialize(tx) /\ Filled(at', tx, left, stack)
    <2>1. at' \in {"accepted", "mismatch"}
        BY <1>1
    <2> QED BY <1>2, <2>1, Rows DEF Filled, Early, Late
<1> QED BY <1>1, <1>2, <1>3, <1>4 DEF IInv, Started, Judged, Places, Txid

\* Every step preserves the invariant.
LEMMA NextIInv == IInv /\ [Next]_vars => IInv'
<1> SUFFICES ASSUME IInv, [Next]_vars PROVE IInv'
    OBVIOUS
<1>1. CASE ReadVersion
    BY <1>1, VersionIInv
<1>2. CASE ReadMarker
    BY <1>2, MarkerIInv
<1>3. CASE CountInputs
    BY <1>3, CountInputsIInv
<1>4. CASE ReadInput
    BY <1>4, InputIInv
<1>5. CASE CountOutputs
    BY <1>5, CountOutputsIInv
<1>6. CASE ReadOutput
    BY <1>6, OutputIInv
<1>7. CASE CountItems
    BY <1>7, CountItemsIInv
<1>8. CASE ReadItem
    BY <1>8, ItemIInv
<1>9. CASE ReadLockTime
    BY <1>9, LockTimeIInv
<1>10. CASE VerifyTxidInternal
    BY <1>10, VerdictIInv
<1>11. CASE UNCHANGED vars
    BY <1>11 DEF vars, IInv, Started, Judged, Span
<1> QED BY <1>1, <1>2, <1>3, <1>4, <1>5, <1>6, <1>7, <1>8, <1>9, <1>10, <1>11 DEF Next

\* What has been read is, at every step, what would be written again for it.
THEOREM ReadAsWritten == Spec => []IInv
BY InitIInv, NextIInv, PTL DEF Spec

\* The cursor stays within the bytes, and no loop exceeds its limit.
THEOREM WithinLimits == Spec => []TypeOK
<1>1. IInv => TypeOK
    <2> SUFFICES ASSUME IInv PROVE TypeOK
        OBVIOUS
    <2>1. /\ raw \in Seq(Octet) /\ p \in 0..Len(raw) /\ at \in Places /\ left \in Nat
          /\ at \in {"input", "output", "item"} => left >= 1
          /\ Filled(at, tx, left, stack) /\ tx \in Transaction /\ stack \in Stack
        BY DEF IInv
    <2>2. Len(tx.inputs) \in Nat /\ Len(tx.outputs) \in Nat /\ Len(stack) \in Nat
        BY <2>1, Parts, LenProperties DEF Stack
    <2>3. DOMAIN Limit = {"input", "output", "item"}
        BY DEF Limit
    <2>4. at = "input" => left \in 1..Limit[at]
        BY <2>1, <2>2, LimitsAssumption DEF Filled, Limit
    <2>5. at = "output" => left \in 1..Limit[at]
        BY <2>1, <2>2, LimitsAssumption DEF Filled, Limit
    <2>6. at = "item" => left \in 1..Limit[at] /\ Len(stack) + left <= MaxWitnessItems
        BY <2>1, <2>2, LimitsAssumption DEF Filled, Limit
    <2> QED BY <2>1, <2>3, <2>4, <2>5, <2>6 DEF TypeOK, Places
<1> QED BY <1>1, ReadAsWritten, PTL

\* What an accepted submission is: read to its end, and what would be written
LEMMA Accepted ==
    ASSUME IInv, at = "accepted"
    PROVE  /\ tx \in Transaction /\ Plain(tx) = tx /\ Txid(tx) = claimed
           /\ Len(tx.inputs) \in 1..MaxInputs /\ Len(tx.outputs) \in 1..MaxOutputs
           /\ raw = WireSerialize(tx) /\ Len(raw) <= MaxTxBytes
<1>1. /\ raw \in Seq(Octet) /\ Len(raw) <= MaxTxBytes /\ p = Len(raw) /\ tx \in Transaction
      /\ Filled("accepted", tx, left, stack) /\ Txid(tx) = claimed
      /\ Span(0, p) = WireSerialize(tx)
    BY Rows DEF IInv, Started, Judged
<1>2. raw = WireSerialize(tx)
    <2>1. SubSeq(raw, 1, Len(raw)) = raw
        BY <1>1, SubSeqFull
    <2> QED BY <1>1, <2>1 DEF Span
<1>3. /\ Len(tx.inputs) \in 1..MaxInputs /\ Len(tx.outputs) \in 1..MaxOutputs
      /\ tx.witnesses # Absent => \E k \in DOMAIN tx.witnesses : tx.witnesses[k] # <<>>
    BY <1>1 DEF Filled, Late
<1> QED BY <1>1, <1>2, <1>3 DEF Plain

\* Whatever is accepted is, byte for byte, what would be written for it.
THEOREM AcceptedAsWritten == Spec => []Canonical
<1>1. IInv => Canonical
    BY Accepted DEF Canonical
<1> QED BY <1>1, ReadAsWritten, PTL

\* The numbers that the longest varint holds
Countable == 0..(ByteBase * ByteBase * ByteBase - 1)

\* are the sum of their digits,
LEMMA SumOfDigits ==
    ASSUME NEW n \in Countable
    PROVE  /\ n \in Nat
           /\ n < ByteBase => n % ByteBase = n
           /\ n < ByteBase * ByteBase =>
                 n = (n % ByteBase) + ByteBase * ((n \div ByteBase) % ByteBase)
           /\ n = (n % ByteBase) + ByteBase * (((n \div ByteBase) % ByteBase)
                    + ByteBase * ((n \div (ByteBase * ByteBase)) % ByteBase))
<1> DEFINE B == ByteBase
<1>1. B \in Nat /\ B > 4 /\ n \in Nat /\ n < B * B * B
    BY Forms DEF Countable
<1> HIDE DEF B
<1> DEFINE q == n \div B  r == q \div B
<1>2. q \in Nat /\ n = (n % B) + B * q /\ n % B \in 0..(B - 1)
    BY <1>1
<1>3. r \in Nat /\ q = (q % B) + B * r /\ q % B \in 0..(B - 1)
    BY <1>1, <1>2
<1>4. n \div (B * B) = r
    BY <1>1
<1>5. n < B => n % B = n
    BY <1>1
<1>6. n < B * B => q % B = q
    <2>1. n < B * B => B * q < B * B
        <3>1. B * q <= n
            BY <1>1, <1>2
        <3>2. B * q \in Nat /\ B * B \in Nat
            BY <1>1, <1>2
        <3> QED BY <1>1, <3>1, <3>2
    <2>2. B * q < B * B => q < B
        BY <1>1, <1>2
    <2>3. q < B => q % B = q
        BY <1>1, <1>2
    <2> QED BY <2>1, <2>2, <2>3
<1>7. r % B = r
    <2>1. B * (B * r) <= n
        <3>1. B * r <= q
            BY <1>1, <1>3
        <3>2. B * (B * r) <= B * q
            BY <1>1, <1>2, <1>3, <3>1
        <3>3. B * q <= n
            BY <1>1, <1>2
        <3>4. B * (B * r) \in Nat /\ B * q \in Nat
            BY <1>1, <1>2, <1>3
        <3> QED BY <1>1, <3>2, <3>3, <3>4
    <2>2. r < B
        <3>1. B * (B * r) < B * B * B
            <4>1. B * (B * r) \in Nat /\ B * B * B \in Nat
                BY <1>1, <1>3
            <4> QED BY <1>1, <2>1, <4>1
        <3>2. CASE r >= B
            <4>1. B * r >= B * B
                BY <1>1, <1>3, <3>2
            <4>2. B * (B * r) >= B * (B * B)
                BY <1>1, <1>3, <4>1
            <4>3. B * (B * B) = B * B * B
                BY <1>1
            <4>4. B * (B * r) \in Nat /\ B * B * B \in Nat
                BY <1>1, <1>3
            <4> QED BY <3>1, <4>2, <4>3, <4>4
        <3> QED BY <1>1, <1>3, <3>2
    <2> QED BY <1>1, <1>3, <2>2
<1>8. n = (n % B) + B * ((q % B) + B * (r % B))
    <2>1. q = (q % B) + B * (r % B)
        BY <1>3, <1>7
    <2> QED BY <1>2, <2>1
<1>9. n < B * B => n = (n % B) + B * (q % B)
    BY <1>2, <1>6
<1> QED BY <1>1, <1>4, <1>5, <1>8, <1>9 DEF B

\* Sequences that continue alike from the same length on are alike.
LEMMA CutEqual ==
    ASSUME NEW S, NEW a \in Seq(S), NEW b \in Seq(S), NEW c \in Seq(S), NEW d \in Seq(S),
           Len(a) = Len(b), a \o c = b \o d
    PROVE  a = b /\ c = d
<1>1. /\ Len(a) \in Nat /\ Len(c) \in Nat /\ Len(d) \in Nat
      /\ Len(a \o c) = Len(a) + Len(c) /\ Len(b \o d) = Len(b) + Len(d)
    BY LenProperties, ConcatProperties
<1>2. \A k \in 1..(Len(a) + Len(c)) : (a \o c)[k] = IF k <= Len(a) THEN a[k] ELSE c[k - Len(a)]
    BY ConcatProperties
<1>3. \A k \in 1..(Len(b) + Len(d)) : (b \o d)[k] = IF k <= Len(b) THEN b[k] ELSE d[k - Len(b)]
    BY ConcatProperties
<1>4. Len(a) + Len(c) = Len(b) + Len(d)
    BY <1>1
<1>5. a = b
    <2>1. \A k \in 1..Len(a) : a[k] = b[k]
        <3>1. ASSUME NEW k \in 1..Len(a) PROVE a[k] = b[k]
            <4>1. k \in 1..(Len(a) + Len(c)) /\ k <= Len(a) /\ k <= Len(b)
                BY <1>1
            <4>2. (a \o c)[k] = a[k]
                BY <1>2, <4>1
            <4>3. (b \o d)[k] = b[k]
                BY <1>3, <1>4, <4>1
            <4> QED BY <4>2, <4>3
        <3> QED BY <3>1
    <2> QED BY <2>1, SeqEqual
<1>6. c = d
    <2>1. a \o c = a \o d
        BY <1>5
    <2> QED BY <2>1, ConcatSimplifications
<1> QED BY <1>5, <1>6

-----------------------------------------------------------------------------
(* Reading is unambiguous *)

\* One sequence behind the other
Cat(a, b) == a \o b

\* Bytes joined are bytes,
LEMMA CatIsBytes == \A a, b \in Seq(Octet) : Cat(a, b) \in Seq(Octet)
BY ConcatProperties DEF Cat

\* as many as both together,
LEMMA CatLen ==
    \A a, b \in Seq(Octet) : Len(Cat(a, b)) = Len(a) + Len(b) /\ Len(a) \in Nat /\ Len(b) \in Nat
<1> SUFFICES ASSUME NEW a \in Seq(Octet), NEW b \in Seq(Octet)
             PROVE  Len(a \o b) = Len(a) + Len(b) /\ Len(a) \in Nat /\ Len(b) \in Nat
    BY DEF Cat
<1> QED BY ConcatProperties, LenProperties

\* in whatever order they are joined,
LEMMA CatAssoc == \A a, b, c \in Seq(Octet) : Cat(Cat(a, b), c) = Cat(a, Cat(b, c))
<1> SUFFICES ASSUME NEW a \in Seq(Octet), NEW b \in Seq(Octet), NEW c \in Seq(Octet)
             PROVE  (a \o b) \o c = a \o (b \o c)
    BY DEF Cat
<1> QED BY ConcatAssociative

\* three of them or four,
LEMMA CatAssocs ==
    \A a, b, c, d \in Seq(Octet) : Cat(Cat(Cat(a, b), c), d) = Cat(a, Cat(b, Cat(c, d)))
<1> SUFFICES ASSUME NEW a \in Seq(Octet), NEW b \in Seq(Octet), NEW c \in Seq(Octet),
                    NEW d \in Seq(Octet)
             PROVE  Cat(Cat(Cat(a, b), c), d) = Cat(a, Cat(b, Cat(c, d)))
    OBVIOUS
<1>1. Cat(a, b) \in Seq(Octet) /\ Cat(c, d) \in Seq(Octet)
    BY ONLY a \in Seq(Octet), b \in Seq(Octet), c \in Seq(Octet), d \in Seq(Octet), CatIsBytes
<1>2. Cat(Cat(Cat(a, b), c), d) = Cat(Cat(a, b), Cat(c, d))
    BY ONLY <1>1, c \in Seq(Octet), d \in Seq(Octet), CatAssoc
<1>3. Cat(Cat(a, b), Cat(c, d)) = Cat(a, Cat(b, Cat(c, d)))
    BY ONLY <1>1, a \in Seq(Octet), b \in Seq(Octet), CatAssoc
<1> QED BY ONLY <1>2, <1>3

\* nothing adds nothing,
LEMMA CatEmpty == \A a \in Seq(Octet) : Cat(a, <<>>) = a /\ Cat(<<>>, a) = a
<1> SUFFICES ASSUME NEW a \in Seq(Octet) PROVE a \o <<>> = a /\ <<>> \o a = a
    BY DEF Cat
<1> QED BY ConcatEmptySeq

\* and where the first parts are as long, the parts are the same.
LEMMA CatCut ==
    \A a, b, c, d \in Seq(Octet) : Len(a) = Len(b) /\ Cat(a, c) = Cat(b, d) => a = b /\ c = d
<1> SUFFICES ASSUME NEW a \in Seq(Octet), NEW b \in Seq(Octet), NEW c \in Seq(Octet),
                    NEW d \in Seq(Octet), Len(a) = Len(b), a \o c = b \o d
             PROVE  a = b /\ c = d
    BY DEF Cat
<1> QED BY CutEqual

\* The first byte of a varint, and how many it is of
First(n)  == IF n < ByteBase - 3 THEN n
             ELSE IF n < ByteBase THEN ByteBase - 3
             ELSE IF n < ByteBase * ByteBase THEN ByteBase - 2 ELSE ByteBase - 1
Length(n) == IF n < ByteBase - 3 THEN 1
             ELSE IF n < ByteBase THEN 2
             ELSE IF n < ByteBase * ByteBase THEN 3 ELSE 4

\* The bytes that follow it
Low(n)    == n % ByteBase
Middle(n) == (n \div ByteBase) % ByteBase
High(n)   == (n \div (ByteBase * ByteBase)) % ByteBase

\* A count is written in one to four bytes,
LEMMA VarintTuples ==
    ASSUME NEW n \in Nat
    PROVE  /\ Length(n) \in 1..4
           /\ Length(n) = 1 => WriteVarint(n) = <<First(n)>>
           /\ Length(n) = 2 => WriteVarint(n) = <<First(n), Low(n)>>
           /\ Length(n) = 3 => WriteVarint(n) = <<First(n), Low(n), Middle(n)>>
           /\ Length(n) = 4 => WriteVarint(n) = <<First(n), Low(n), Middle(n), High(n)>>
<1>1. CASE n < ByteBase - 3
    <2>1. WriteVarint(n) = <<n>>
        BY <1>1, VarintForms
    <2>2. Length(n) = 1 /\ First(n) = n
        BY <1>1 DEF Length, First
    <2> HIDE DEF Length, First
    <2> QED BY <2>1, <2>2
<1>2. CASE ~(n < ByteBase - 3) /\ n < ByteBase
    <2>1. n >= ByteBase - 3
        BY <1>2, Forms
    <2>2. WriteVarint(n) = <<ByteBase - 3, Low(n)>>
        BY <1>2, <2>1, VarintForms DEF Low
    <2>3. Length(n) = 2 /\ First(n) = ByteBase - 3
        BY <1>2 DEF Length, First
    <2> QED BY <2>2, <2>3
<1>3. CASE ~(n < ByteBase - 3) /\ ~(n < ByteBase) /\ n < ByteBase * ByteBase
    <2>1. n >= ByteBase
        BY <1>3, Forms
    <2>2. WriteVarint(n) = <<ByteBase - 2, Low(n), Middle(n)>>
        BY <1>3, <2>1, VarintForms DEF Low, Middle
    <2>3. Length(n) = 3 /\ First(n) = ByteBase - 2
        BY <1>3 DEF Length, First
    <2> QED BY <2>2, <2>3
<1>4. CASE ~(n < ByteBase - 3) /\ ~(n < ByteBase) /\ ~(n < ByteBase * ByteBase)
    <2>1. n >= ByteBase * ByteBase
        BY <1>4, Forms
    <2>2. WriteVarint(n) = <<ByteBase - 1, Low(n), Middle(n), High(n)>>
        BY <2>1, VarintForms DEF Low, Middle, High
    <2>3. Length(n) = 4 /\ First(n) = ByteBase - 1
        BY <1>4 DEF Length, First
    <2> QED BY <2>2, <2>3
<1> QED BY <1>1, <1>2, <1>3, <1>4

\* and the first says how many.
LEMMA VarintShape ==
    ASSUME NEW n \in Nat
    PROVE  /\ WriteVarint(n) \in Seq(Octet)
           /\ Len(WriteVarint(n)) = Length(n) /\ WriteVarint(n)[1] = First(n)
<1> DEFINE v == WriteVarint(n)
<1>1. v \in Seq(Octet)
    BY VarintIsBytes
<1> HIDE DEF v
<1>2. /\ \A a : Len(<<a>>) = 1 /\ <<a>>[1] = a
      /\ \A a, b : Len(<<a, b>>) = 2 /\ <<a, b>>[1] = a
      /\ \A a, b, c : Len(<<a, b, c>>) = 3 /\ <<a, b, c>>[1] = a
      /\ \A a, b, c, d : Len(<<a, b, c, d>>) = 4 /\ <<a, b, c, d>>[1] = a
    OBVIOUS
<1>3. Length(n) = 1 => Len(v) = 1 /\ v[1] = First(n)
    <2>1. Length(n) = 1 => v = <<First(n)>>
        BY VarintTuples DEF v
    <2> QED BY <1>2, <2>1
<1>4. Length(n) = 2 => Len(v) = 2 /\ v[1] = First(n)
    <2>1. Length(n) = 2 => v = <<First(n), Low(n)>>
        BY VarintTuples DEF v
    <2> QED BY <1>2, <2>1
<1>5. Length(n) = 3 => Len(v) = 3 /\ v[1] = First(n)
    <2>1. Length(n) = 3 => v = <<First(n), Low(n), Middle(n)>>
        BY VarintTuples DEF v
    <2> QED BY <1>2, <2>1
<1>6. Length(n) = 4 => Len(v) = 4 /\ v[1] = First(n)
    <2>1. Length(n) = 4 => v = <<First(n), Low(n), Middle(n), High(n)>>
        BY VarintTuples DEF v
    <2> QED BY <1>2, <2>1
<1>7. Length(n) = 1 \/ Length(n) = 2 \/ Length(n) = 3 \/ Length(n) = 4
    BY DEF Length
<1> HIDE DEF Length, First
<1>8. Len(v) = Length(n) /\ v[1] = First(n)
    BY <1>3, <1>4, <1>5, <1>6, <1>7
<1> QED BY <1>1, <1>8 DEF v

\* A varint that is followed by other bytes is the only one they begin with.
LEMMA VarintCut ==
    ASSUME NEW n \in Countable, NEW m \in Countable, NEW c \in Seq(Octet), NEW d \in Seq(Octet),
           Cat(WriteVarint(n), c) = Cat(WriteVarint(m), d)
    PROVE  n = m /\ c = d
<1> DEFINE v == WriteVarint(n)  w == WriteVarint(m)  B == ByteBase
<1>0. v \o c = w \o d
    BY DEF Cat
<1>1. n \in Nat /\ m \in Nat
    BY SumOfDigits
<1>2. /\ v \in Seq(Octet) /\ Len(v) = Length(n) /\ v[1] = First(n)
      /\ w \in Seq(Octet) /\ Len(w) = Length(m) /\ w[1] = First(m)
    BY <1>1, VarintShape
<1>3. Length(n) \in 1..4 /\ Length(m) \in 1..4
    BY DEF Length
<1>4. First(n) = First(m)
    <2> HIDE DEF v, w
    <2>1. (v \o c)[1] = v[1] /\ (w \o d)[1] = w[1]
        <3>1. Len(c) \in Nat /\ Len(d) \in Nat
            BY LenProperties
        <3>2. /\ 1 \in 1..(Len(v) + Len(c)) /\ 1 <= Len(v)
              /\ 1 \in 1..(Len(w) + Len(d)) /\ 1 <= Len(w)
            BY <1>2, <1>3, <3>1
        <3> QED BY <1>2, <3>2, ConcatProperties
    <2> QED BY <1>0, <1>2, <2>1
<1>5. /\ First(n) < B - 3 => n < B - 3 /\ First(n) = n
      /\ First(n) = B - 3 => ~(n < B - 3) /\ n < B
      /\ First(n) = B - 2 => ~(n < B - 3) /\ ~(n < B) /\ n < B * B
      /\ First(n) = B - 1 => ~(n < B - 3) /\ ~(n < B) /\ ~(n < B * B)
    BY <1>1, Forms DEF First
<1>6. /\ First(m) < B - 3 => m < B - 3 /\ First(m) = m
      /\ First(m) = B - 3 => ~(m < B - 3) /\ m < B
      /\ First(m) = B - 2 => ~(m < B - 3) /\ ~(m < B) /\ m < B * B
      /\ First(m) = B - 1 => ~(m < B - 3) /\ ~(m < B) /\ ~(m < B * B)
    BY <1>1, Forms DEF First
<1>7. First(n) < B - 3 \/ First(n) = B - 3 \/ First(n) = B - 2 \/ First(n) = B - 1
    BY DEF First
<1> HIDE DEF First
<1>8. Length(n) = Length(m)
    BY <1>4, <1>5, <1>6, <1>7 DEF Length
<1>9. v = w /\ c = d
    <2> HIDE DEF v, w
    <2>1. Len(v) = Len(w) /\ v \o c = w \o d
        BY <1>0, <1>2, <1>8
    <2> QED BY <1>2, <2>1, CutEqual
<1>10. /\ \A a1, b1, a2, b2 : <<a1, b1>> = <<a2, b2>> => b1 = b2
       /\ \A a1, b1, c1, a2, b2, c2 : <<a1, b1, c1>> = <<a2, b2, c2>> => b1 = b2 /\ c1 = c2
       /\ \A a1, b1, c1, d1, a2, b2, c2, d2 :
             <<a1, b1, c1, d1>> = <<a2, b2, c2, d2>> => b1 = b2 /\ c1 = c2 /\ d1 = d2
    OBVIOUS
<1>11. n = m
    <2>1. CASE First(n) < B - 3
        BY <1>4, <1>5, <1>6, <2>1
    <2>2. CASE First(n) = B - 3
        <3>1. Length(n) = 2 /\ Length(m) = 2
            BY <1>4, <1>5, <1>6, <2>2 DEF Length
        <3>2. v = <<First(n), Low(n)>> /\ w = <<First(m), Low(m)>>
            BY <1>1, <3>1, VarintTuples
        <3> HIDE DEF v, w
        <3>3. Low(n) = Low(m)
            BY <1>9, <1>10, <3>2
        <3>4. Low(n) = n /\ Low(m) = m
            BY <1>4, <1>5, <1>6, <2>2, SumOfDigits DEF Low
        <3> QED BY <3>3, <3>4
    <2>3. CASE First(n) = B - 2
        <3>1. Length(n) = 3 /\ Length(m) = 3
            BY <1>4, <1>5, <1>6, <2>3 DEF Length
        <3>2. v = <<First(n), Low(n), Middle(n)>> /\ w = <<First(m), Low(m), Middle(m)>>
            BY <1>1, <3>1, VarintTuples
        <3> HIDE DEF v, w
        <3>3. Low(n) = Low(m) /\ Middle(n) = Middle(m)
            <4>1. <<First(n), Low(n), Middle(n)>> = <<First(m), Low(m), Middle(m)>>
                BY <1>9, <3>2
            <4> QED BY ONLY <4>1, <1>10
        <3>4. n = Low(n) + B * Middle(n) /\ m = Low(m) + B * Middle(m)
            BY <1>4, <1>5, <1>6, <2>3, SumOfDigits DEF Low, Middle
        <3> QED BY <3>3, <3>4
    <2>4. CASE First(n) = B - 1
        <3>1. Length(n) = 4 /\ Length(m) = 4
            BY <1>4, <1>5, <1>6, <2>4 DEF Length
        <3>2. /\ v = <<First(n), Low(n), Middle(n), High(n)>>
              /\ w = <<First(m), Low(m), Middle(m), High(m)>>
            BY <1>1, <3>1, VarintTuples
        <3> HIDE DEF v, w
        <3>3. Low(n) = Low(m) /\ Middle(n) = Middle(m) /\ High(n) = High(m)
            <4>1. <<First(n), Low(n), Middle(n), High(n)>>
                      = <<First(m), Low(m), Middle(m), High(m)>>
                BY <1>9, <3>2
            <4> QED BY ONLY <4>1, <1>10
        <3>4. /\ n = Low(n) + B * (Middle(n) + B * High(n))
              /\ m = Low(m) + B * (Middle(m) + B * High(m))
            BY SumOfDigits DEF Low, Middle, High
        <3> QED BY <3>3, <3>4
    <2> QED BY <1>7, <2>1, <2>2, <2>3, <2>4
<1> QED BY <1>9, <1>11

\* So a count is read back whatever follows it,
LEMMA VarintCuts ==
    \A n, m \in Countable : \A c, d \in Seq(Octet) :
        Cat(WriteVarint(n), c) = Cat(WriteVarint(m), d) => n = m /\ c = d
BY VarintCut

\* So are bytes behind their length, when a varint holds it,
Held == {b \in Seq(Octet) : Len(b) \in Countable}

\* Bytes behind their count are read back whatever follows them,
LEMMA BytesCut ==
    \A s, t \in Held : \A c, d \in Seq(Octet) :
        Cat(WriteBytes(s), c) = Cat(WriteBytes(t), d) => s = t /\ c = d
<1>1. SUFFICES ASSUME NEW s \in Held, NEW t \in Held, NEW c \in Seq(Octet), NEW d \in Seq(Octet),
                      Cat(WriteBytes(s), c) = Cat(WriteBytes(t), d)
               PROVE  s = t /\ c = d
    OBVIOUS
<1>2. /\ s \in Seq(Octet) /\ t \in Seq(Octet) /\ c \in Seq(Octet) /\ d \in Seq(Octet)
      /\ Len(s) \in Countable /\ Len(t) \in Countable
    BY <1>1 DEF Held
<1> DEFINE v == WriteVarint(Len(s))  w == WriteVarint(Len(t))
<1>3. v \in Seq(Octet) /\ w \in Seq(Octet)
    BY <1>2, SumOfDigits, VarintIsBytes
<1>4. WriteBytes(s) = Cat(v, s) /\ WriteBytes(t) = Cat(w, t)
    BY DEF WriteBytes, Cat
<1>5. Cat(s, c) \in Seq(Octet) /\ Cat(t, d) \in Seq(Octet)
    BY <1>2, CatIsBytes
<1>6. Cat(v, Cat(s, c)) = Cat(w, Cat(t, d))
    <2> HIDE DEF v, w
    <2> QED BY <1>1, <1>2, <1>3, <1>4, CatAssoc
<1>7. Len(s) = Len(t) /\ Cat(s, c) = Cat(t, d)
    BY <1>2, <1>5, <1>6, VarintCuts
<1> QED BY <1>2, <1>7, CatCut

\* inputs and outputs,
HeldInputs  == {in \in InputType : Len(in.script_sig) \in Countable}
HeldOutputs == {out \in OutputType : Len(out.script_pubkey) \in Countable}

\* and what is written for an input,
LEMMA InputCut ==
    \A x, y \in HeldInputs : \A c, d \in Seq(Octet) :
        Cat(WriteInput(x), c) = Cat(WriteInput(y), d) => x = y /\ c = d
<1>1. SUFFICES ASSUME NEW x \in HeldInputs, NEW y \in HeldInputs, NEW c \in Seq(Octet),
                      NEW d \in Seq(Octet), Cat(WriteInput(x), c) = Cat(WriteInput(y), d)
               PROVE  x = y /\ c = d
    OBVIOUS
<1>2. /\ x \in InputType /\ x.script_sig \in Held /\ y \in InputType /\ y.script_sig \in Held
      /\ c \in Seq(Octet) /\ d \in Seq(Octet)
    BY <1>1, InputIsWritten DEF HeldInputs, Held
<1>3. /\ x.prev \in Seq(Octet) /\ Len(x.prev) = 2 /\ y.prev \in Seq(Octet) /\ Len(y.prev) = 2
      /\ x.script_sig \in Seq(Octet) /\ y.script_sig \in Seq(Octet)
      /\ x.sequence \in Octet /\ y.sequence \in Octet
    BY <1>2, InputIsWritten
<1> DEFINE bx == WriteBytes(x.script_sig)  by == WriteBytes(y.script_sig)
           u == <<x.sequence>>  v == <<y.sequence>>
<1>4. /\ u \in Seq(Octet) /\ v \in Seq(Octet) /\ Len(u) = Len(v)
      /\ u = v => x.sequence = y.sequence
    BY <1>3
<1>5. bx \in Seq(Octet) /\ by \in Seq(Octet)
    BY <1>3, BytesAreWritten
<1>6. /\ WriteInput(x) = Cat(Cat(x.prev, bx), u)
      /\ WriteInput(y) = Cat(Cat(y.prev, by), v)
    BY DEF WriteInput, Cat
<1> HIDE DEF bx, by, u, v
<1>7. /\ Cat(u, c) \in Seq(Octet) /\ Cat(v, d) \in Seq(Octet)
      /\ Cat(bx, Cat(u, c)) \in Seq(Octet) /\ Cat(by, Cat(v, d)) \in Seq(Octet)
      /\ Cat(x.prev, bx) \in Seq(Octet) /\ Cat(y.prev, by) \in Seq(Octet)
    BY <1>2, <1>3, <1>4, <1>5, CatIsBytes
<1>8. Cat(x.prev, Cat(bx, Cat(u, c))) = Cat(y.prev, Cat(by, Cat(v, d)))
    <2> DEFINE px == x.prev  py == y.prev
    <2>1. px \in Seq(Octet) /\ bx \in Seq(Octet) /\ u \in Seq(Octet) /\ c \in Seq(Octet)
        BY <1>2, <1>3, <1>4, <1>5
    <2>2. py \in Seq(Octet) /\ by \in Seq(Octet) /\ v \in Seq(Octet) /\ d \in Seq(Octet)
        BY <1>2, <1>3, <1>4, <1>5
    <2>3. Cat(Cat(Cat(px, bx), u), c) = Cat(Cat(Cat(py, by), v), d)
        BY ONLY <1>1, <1>6
    <2> HIDE DEF px, py
    <2>4. Cat(Cat(Cat(px, bx), u), c) = Cat(px, Cat(bx, Cat(u, c)))
        BY ONLY <2>1, CatAssocs
    <2>5. Cat(Cat(Cat(py, by), v), d) = Cat(py, Cat(by, Cat(v, d)))
        BY ONLY <2>2, CatAssocs
    <2>6. Cat(px, Cat(bx, Cat(u, c))) = Cat(py, Cat(by, Cat(v, d)))
        BY ONLY <2>3, <2>4, <2>5
    <2> QED BY <2>6 DEF px, py
<1>9. x.prev = y.prev /\ Cat(bx, Cat(u, c)) = Cat(by, Cat(v, d))
    BY <1>3, <1>7, <1>8, CatCut
<1>10. x.script_sig = y.script_sig /\ Cat(u, c) = Cat(v, d)
    BY <1>2, <1>7, <1>9, BytesCut DEF bx, by
<1>11. u = v /\ c = d
    BY <1>2, <1>4, <1>10, CatCut
<1>12. x = y
    BY <1>2, <1>4, <1>9, <1>10, <1>11 DEF InputType
<1> QED BY <1>11, <1>12

\* or an output, whatever follows.
LEMMA OutputCut ==
    \A x, y \in HeldOutputs : \A c, d \in Seq(Octet) :
        Cat(WriteOutput(x), c) = Cat(WriteOutput(y), d) => x = y /\ c = d
<1>1. SUFFICES ASSUME NEW x \in HeldOutputs, NEW y \in HeldOutputs, NEW c \in Seq(Octet),
                      NEW d \in Seq(Octet), Cat(WriteOutput(x), c) = Cat(WriteOutput(y), d)
               PROVE  x = y /\ c = d
    OBVIOUS
<1>2. /\ x \in OutputType /\ x.script_pubkey \in Held
      /\ y \in OutputType /\ y.script_pubkey \in Held
      /\ c \in Seq(Octet) /\ d \in Seq(Octet)
    BY <1>1, OutputIsWritten DEF HeldOutputs, Held
<1>3. /\ x.script_pubkey \in Seq(Octet) /\ y.script_pubkey \in Seq(Octet)
      /\ x.value_sat \in Octet /\ y.value_sat \in Octet
    BY <1>2, OutputIsWritten
<1> DEFINE bx == WriteBytes(x.script_pubkey)  by == WriteBytes(y.script_pubkey)
           u == <<x.value_sat>>  v == <<y.value_sat>>
<1>4. /\ u \in Seq(Octet) /\ v \in Seq(Octet) /\ Len(u) = Len(v)
      /\ u = v => x.value_sat = y.value_sat
    BY <1>3
<1>5. bx \in Seq(Octet) /\ by \in Seq(Octet)
    BY <1>3, BytesAreWritten
<1>6. WriteOutput(x) = Cat(u, bx) /\ WriteOutput(y) = Cat(v, by)
    BY DEF WriteOutput, Cat
<1> HIDE DEF bx, by, u, v
<1>7. Cat(bx, c) \in Seq(Octet) /\ Cat(by, d) \in Seq(Octet)
    BY <1>2, <1>5, CatIsBytes
<1>8. Cat(u, Cat(bx, c)) = Cat(v, Cat(by, d))
    BY <1>1, <1>2, <1>4, <1>5, <1>6, CatAssoc
<1>9. u = v /\ Cat(bx, c) = Cat(by, d)
    BY <1>4, <1>7, <1>8, CatCut
<1>10. x.script_pubkey = y.script_pubkey /\ c = d
    BY <1>2, <1>9, BytesCut DEF bx, by
<1>11. x = y
    BY <1>2, <1>4, <1>9, <1>10 DEF OutputType
<1> QED BY <1>10, <1>11

\* and as many of either.
PrefixFree(write, S) ==
    \A x, y \in S : \A c, d \in Seq(Octet) :
        Cat(write[x], c) = Cat(write[y], d) => x = y /\ c = d

Decodable(write, S, n) ==
    \A s, t \in Seq(S) : \A c, d \in Seq(Octet) :
        Len(s) = n /\ Len(t) = n /\ Cat(Each(write, s), c) = Cat(Each(write, t), d)
            => s = t /\ c = d

\* If each is read back whatever follows it, so are any number of them.
LEMMA EachCut ==
    ASSUME NEW S, NEW write \in [S -> Seq(Octet)], PrefixFree(write, S), NEW n \in Nat
    PROVE  Decodable(write, S, n)
<1> DEFINE T == {m \in Nat : ~Decodable(write, S, m)}
<1> SUFFICES ASSUME T # {} PROVE FALSE
    OBVIOUS
<1>1. PICK m \in T : \A j \in Nat : j < m => j \notin T
    BY FirstFailure
<1>2. m \in Nat /\ ~Decodable(write, S, m)
    OBVIOUS
<1>3. PICK s \in Seq(S), t \in Seq(S), c \in Seq(Octet), d \in Seq(Octet) :
          /\ Len(s) = m /\ Len(t) = m /\ Cat(Each(write, s), c) = Cat(Each(write, t), d)
          /\ ~(s = t /\ c = d)
    BY <1>2 DEF Decodable
<1>4. CASE m = 0
    <2>1. s = <<>> /\ t = <<>>
        BY <1>3, <1>4, EmptySeq
    <2>2. Each(write, s) = <<>>
        <3>1. [k \in DOMAIN s |-> write[s[k]]] = <<>>
            BY <2>1
        <3>2. Len(<<>>) = 0
            OBVIOUS
        <3> QED BY <3>1, <3>2 DEF Each, FlattenSeq
    <2> QED BY <1>3, <2>1, <2>2, CatEmpty
<1>5. CASE m # 0
    <2>1. s # <<>> /\ t # <<>>
        BY <1>3, <1>5, EmptySeq
    <2>2. PICK a \in Seq(S), x \in S : s = Append(a, x)
        BY <2>1, SequenceEmptyOrAppend
    <2>3. PICK b \in Seq(S), y \in S : t = Append(b, y)
        BY <2>1, SequenceEmptyOrAppend
    <2>4. Len(a) = m - 1 /\ Len(b) = m - 1 /\ m - 1 \in Nat /\ m - 1 < m
        <3>1. Len(a) \in Nat /\ Len(b) \in Nat
            BY LenProperties
        <3>2. Len(s) = Len(a) + 1 /\ Len(t) = Len(b) + 1
            BY <2>2, <2>3, AppendProperties
        <3> QED BY <1>2, <1>3, <1>5, <3>1, <3>2
    <2>5. Decodable(write, S, m - 1)
        BY <1>1, <2>4
    <2> DEFINE ea == Each(write, a)  eb == Each(write, b)  wx == write[x]  wy == write[y]
    <2>6. /\ ea \in Seq(Octet) /\ Each(write, s) = Cat(ea, wx) /\ wx \in Seq(Octet)
          /\ eb \in Seq(Octet) /\ Each(write, t) = Cat(eb, wy) /\ wy \in Seq(Octet)
        BY <2>2, <2>3, EachGrows DEF Cat
    <2> HIDE DEF ea, eb, wx, wy
    <2>7. Cat(wx, c) \in Seq(Octet) /\ Cat(wy, d) \in Seq(Octet)
        BY <2>6, CatIsBytes
    <2>8. Cat(ea, Cat(wx, c)) = Cat(eb, Cat(wy, d))
        BY <1>3, <2>6, CatAssoc
    <2>9. a = b /\ Cat(wx, c) = Cat(wy, d)
        BY <2>4, <2>5, <2>7, <2>8 DEF Decodable, ea, eb
    <2>10. x = y /\ c = d
        BY <2>9 DEF PrefixFree, wx, wy
    <2> QED BY <1>3, <2>2, <2>3, <2>9, <2>10
<1> QED BY <1>4, <1>5

\* No element is longer than what is written for all of them.
Covering(write, S, n) ==
    \A s \in Seq(S) : Len(s) = n =>
        \A k \in 1..n : Len(write[s[k]]) <= Len(Each(write, s))

\* However many there are,
LEMMA EachCovers ==
    ASSUME NEW S, NEW write \in [S -> Seq(Octet)], NEW n \in Nat
    PROVE  Covering(write, S, n)
<1> DEFINE T == {m \in Nat : ~Covering(write, S, m)}
<1> SUFFICES ASSUME T # {} PROVE FALSE
    OBVIOUS
<1>1. PICK m \in T : \A j \in Nat : j < m => j \notin T
    BY FirstFailure
<1>2. m \in Nat /\ ~Covering(write, S, m)
    OBVIOUS
<1>3. PICK s \in Seq(S), k \in 1..m : Len(s) = m /\ ~(Len(write[s[k]]) <= Len(Each(write, s)))
    BY <1>2 DEF Covering
<1>4. s # <<>> /\ k \in Nat /\ m >= 1
    BY <1>2, <1>3, EmptySeq
<1>5. PICK a \in Seq(S), x \in S : s = Append(a, x)
    BY <1>4, SequenceEmptyOrAppend
<1>6. /\ Len(a) = m - 1 /\ m - 1 \in Nat /\ m - 1 < m /\ s[m] = x
      /\ \A j \in 1..(m - 1) : s[j] = a[j]
    <2>1. /\ Len(a) \in Nat /\ Len(s) = Len(a) + 1 /\ s[Len(a) + 1] = x
          /\ \A j \in 1..Len(a) : s[j] = a[j]
        BY <1>5, LenProperties, AppendProperties
    <2>2. Len(a) = m - 1 /\ Len(a) + 1 = m
        BY <1>2, <1>3, <2>1
    <2> QED BY <1>2, <1>4, <2>1, <2>2
<1> DEFINE ea == Each(write, a)  wx == write[x]
<1>7. ea \in Seq(Octet) /\ wx \in Seq(Octet) /\ Each(write, s) = Cat(ea, wx)
    BY <1>5, EachGrows DEF Cat
<1> HIDE DEF ea, wx
<1>8. Len(Each(write, s)) = Len(ea) + Len(wx) /\ Len(ea) \in Nat /\ Len(wx) \in Nat
    BY <1>7, CatLen
<1>9. CASE k = m
    BY <1>3, <1>6, <1>8, <1>9 DEF wx
<1>10. CASE k # m
    <2>1. k \in 1..(m - 1) /\ s[k] = a[k]
        BY <1>2, <1>3, <1>4, <1>6, <1>10
    <2>2. Len(write[a[k]]) <= Len(ea)
        BY <1>1, <1>6, <2>1 DEF Covering, ea
    <2>3. Len(write[a[k]]) \in Nat
        <3>1. a[k] \in S
            BY <1>6, <2>1, ElementOfSeq
        <3> QED BY <3>1, LenProperties
    <2> QED BY <1>3, <1>8, <2>1, <2>2, <2>3
<1> QED BY <1>9, <1>10

\* and neither of two parts is longer than both.
LEMMA CatCovers ==
    \A a, b \in Seq(Octet) :
        /\ Len(Cat(a, b)) \in Nat /\ Len(a) \in Nat /\ Len(b) \in Nat
        /\ Len(a) <= Len(Cat(a, b)) /\ Len(b) <= Len(Cat(a, b))
<1> SUFFICES ASSUME NEW a \in Seq(Octet), NEW b \in Seq(Octet)
             PROVE  /\ Len(Cat(a, b)) \in Nat /\ Len(a) \in Nat /\ Len(b) \in Nat
                    /\ Len(a) <= Len(Cat(a, b)) /\ Len(b) <= Len(Cat(a, b))
    OBVIOUS
<1>1. Len(Cat(a, b)) = Len(a) + Len(b) /\ Len(a) \in Nat /\ Len(b) \in Nat
    BY CatLen
<1> QED BY <1>1

\* No script is longer than the transaction that holds it,
LEMMA WireCovers ==
    ASSUME NEW t \in Transaction
    PROVE  /\ Len(InputsOf(t.inputs)) \in Nat /\ Len(OutputsOf(t.outputs)) \in Nat
           /\ Len(WireSerialize(t)) \in Nat
           /\ Len(InputsOf(t.inputs)) <= Len(WireSerialize(t))
           /\ Len(OutputsOf(t.outputs)) <= Len(WireSerialize(t))
<1> DEFINE ow == Opening(t)  n == WriteVarint(Len(t.inputs))  i == InputsOf(t.inputs)
           m == WriteVarint(Len(t.outputs))  u == OutputsOf(t.outputs)
           w == WitnessesOf(t.witnesses)  z == <<t.lock_time>>
<1>1. /\ t.inputs \in Seq(InputType) /\ t.outputs \in Seq(OutputType)
      /\ Len(t.inputs) \in Nat /\ Len(t.outputs) \in Nat /\ t.lock_time \in Octet
      /\ t.witnesses # Absent => t.witnesses \in Seq(Stack)
    BY Parts
<1>2. ow \in Seq(Octet) /\ n \in Seq(Octet) /\ m \in Seq(Octet) /\ z \in Seq(Octet)
    <2>1. z \in Seq(Octet)
        BY <1>1
    <2>2. ow \in Seq(Octet)
        BY PartsAreBytes
    <2>3. n \in Seq(Octet) /\ m \in Seq(Octet)
        BY <1>1, VarintIsBytes
    <2> QED BY <2>1, <2>2, <2>3
<1>3. /\ WriteInputs(t) = Cat(n, i) /\ WriteInputs(t) \in Seq(Octet)
      /\ WriteOutputs(t) = Cat(m, u) /\ WriteOutputs(t) \in Seq(Octet)
    BY <1>1, VectorsAreWritten DEF Cat
<1>4. i \in Seq(Octet) /\ u \in Seq(Octet)
    BY <1>1, InputsAreBytes, OutputsAreBytes
<1>5. Outs(t) = Cat(Cat(ow, Cat(n, i)), Cat(m, u)) /\ Outs(t) \in Seq(Octet)
    BY <1>3, PartsAreBytes DEF Outs, Cat
<1>6. /\ WireSerialize(t) = Cat(Body(t), z)
      /\ t.witnesses = Absent => Body(t) = Outs(t)
      /\ t.witnesses # Absent => Body(t) = Cat(Outs(t), w) /\ w \in Seq(Octet)
    BY <1>1, WireIsBody, WitnessesGrow, EmptySeq DEF Body, Cat, Stack
<1>7. Body(t) \in Seq(Octet)
    BY PartsAreBytes
<1> HIDE DEF ow, n, i, m, u, w, z
<1>8. /\ Cat(n, i) \in Seq(Octet) /\ Cat(m, u) \in Seq(Octet)
      /\ Cat(ow, Cat(n, i)) \in Seq(Octet)
    BY <1>2, <1>4, CatIsBytes
<1>9. /\ Len(i) \in Nat /\ Len(Cat(n, i)) \in Nat /\ Len(i) <= Len(Cat(n, i))
      /\ Len(u) \in Nat /\ Len(Cat(m, u)) \in Nat /\ Len(u) <= Len(Cat(m, u))
    BY <1>2, <1>4, CatCovers
<1>10. /\ Len(Cat(ow, Cat(n, i))) \in Nat /\ Len(i) <= Len(Cat(ow, Cat(n, i)))
    <2> DEFINE q == Cat(n, i)
    <2>1. q \in Seq(Octet)
        BY <1>8
    <2> HIDE DEF q
    <2>2. Len(Cat(ow, q)) \in Nat /\ Len(q) <= Len(Cat(ow, q)) /\ Len(q) \in Nat
        BY <1>2, <2>1, CatCovers
    <2> QED BY <1>9, <2>2 DEF q
<1>11. Len(Outs(t)) = Len(Cat(ow, Cat(n, i))) + Len(Cat(m, u))
    BY <1>5, <1>8, CatLen
<1>12. Len(Outs(t)) \in Nat /\ Len(i) <= Len(Outs(t)) /\ Len(u) <= Len(Outs(t))
    BY <1>9, <1>10, <1>11
<1>13. Len(Body(t)) \in Nat /\ Len(Outs(t)) <= Len(Body(t))
    <2>1. CASE t.witnesses = Absent
        BY <1>6, <1>12, <2>1
    <2>2. CASE t.witnesses # Absent
        BY <1>5, <1>6, <1>12, <2>2, CatLen
    <2> QED BY <2>1, <2>2
<1>14. Len(WireSerialize(t)) = Len(Body(t)) + Len(z) /\ Len(z) \in Nat
    BY <1>2, <1>6, <1>7, CatLen
<1> QED BY <1>9, <1>12, <1>13, <1>14 DEF i, u

\* A transaction within the limit has scripts whose lengths can be counted.
LEMMA ScriptsAreHeld ==
    ASSUME NEW t \in Transaction, Len(WireSerialize(t)) <= MaxTxBytes
    PROVE  t.inputs \in Seq(HeldInputs) /\ t.outputs \in Seq(HeldOutputs)
<1> DEFINE I == [x \in InputType |-> WriteInput(x)]  O == [x \in OutputType |-> WriteOutput(x)]
<1>1. /\ t.inputs \in Seq(InputType) /\ t.outputs \in Seq(OutputType)
      /\ Len(t.inputs) \in Nat /\ Len(t.outputs) \in Nat
    BY Parts
<1>2. I \in [InputType -> Seq(Octet)] /\ O \in [OutputType -> Seq(Octet)]
    BY InputIsWritten, OutputIsWritten
<1>3. MaxTxBytes \in Nat /\ \A n \in Nat : n <= MaxTxBytes => n \in Countable
    BY LimitsAssumption, Forms DEF Countable
<1>4. /\ Len(InputsOf(t.inputs)) \in Nat /\ Len(InputsOf(t.inputs)) <= MaxTxBytes
      /\ Len(OutputsOf(t.outputs)) \in Nat /\ Len(OutputsOf(t.outputs)) <= MaxTxBytes
    BY <1>3, WireCovers
<1>5. ASSUME NEW x \in InputType, Len(WriteInput(x)) <= MaxTxBytes PROVE x \in HeldInputs
    <2> DEFINE v == WriteVarint(Len(x.script_sig))  s == x.script_sig  q == <<x.sequence>>
    <2>1. x.prev \in Seq(Octet) /\ s \in Seq(Octet) /\ q \in Seq(Octet) /\ Len(s) \in Nat
        BY InputIsWritten, LenProperties
    <2>2. v \in Seq(Octet)
        BY <2>1, VarintIsBytes
    <2>3. WriteInput(x) = Cat(Cat(x.prev, Cat(v, s)), q)
        BY DEF WriteInput, WriteBytes, Cat
    <2>4. x \in HeldInputs <=> Len(s) \in Countable
        BY DEF HeldInputs
    <2> HIDE DEF v, s, q
    <2>5. Cat(v, s) \in Seq(Octet) /\ Cat(x.prev, Cat(v, s)) \in Seq(Octet)
        BY <2>1, <2>2, CatIsBytes
    <2> DEFINE y == Cat(v, s)  r == Cat(x.prev, y)
    <2>6. y \in Seq(Octet) /\ r \in Seq(Octet) /\ WriteInput(x) = Cat(r, q)
        BY <2>3, <2>5
    <2>7. Len(s) <= Len(y) /\ Len(y) \in Nat
        BY <2>1, <2>2, CatCovers
    <2> HIDE DEF y
    <2>8. Len(y) <= Len(r) /\ Len(r) \in Nat
        BY <2>1, <2>6, CatCovers
    <2> HIDE DEF r
    <2>9. Len(r) <= Len(WriteInput(x)) /\ Len(WriteInput(x)) \in Nat
        BY <2>1, <2>6, CatCovers
    <2>10. Len(s) <= MaxTxBytes
        BY <1>3, <1>5, <2>1, <2>7, <2>8, <2>9
    <2> QED BY <1>3, <2>1, <2>4, <2>10
<1>6. ASSUME NEW x \in OutputType, Len(WriteOutput(x)) <= MaxTxBytes PROVE x \in HeldOutputs
    <2> DEFINE v == WriteVarint(Len(x.script_pubkey))  s == x.script_pubkey  q == <<x.value_sat>>
    <2>1. s \in Seq(Octet) /\ q \in Seq(Octet) /\ Len(s) \in Nat
        BY OutputIsWritten, LenProperties
    <2>2. v \in Seq(Octet)
        BY <2>1, VarintIsBytes
    <2>3. WriteOutput(x) = Cat(q, Cat(v, s))
        BY DEF WriteOutput, WriteBytes, Cat
    <2>4. x \in HeldOutputs <=> Len(s) \in Countable
        BY DEF HeldOutputs
    <2> HIDE DEF v, s, q
    <2>5. Cat(v, s) \in Seq(Octet)
        BY <2>1, <2>2, CatIsBytes
    <2> DEFINE y == Cat(v, s)
    <2>6. y \in Seq(Octet) /\ WriteOutput(x) = Cat(q, y)
        BY <2>3, <2>5
    <2>7. Len(s) <= Len(y) /\ Len(y) \in Nat
        BY <2>1, <2>2, CatCovers
    <2> HIDE DEF y
    <2>8. Len(y) <= Len(WriteOutput(x)) /\ Len(WriteOutput(x)) \in Nat
        BY <2>1, <2>6, CatCovers
    <2>9. Len(s) <= MaxTxBytes
        BY <1>3, <1>6, <2>1, <2>7, <2>8
    <2> QED BY <1>3, <2>1, <2>4, <2>9
<1>7. /\ \A k \in DOMAIN t.inputs : t.inputs[k] \in InputType
      /\ \A k \in DOMAIN t.outputs : t.outputs[k] \in OutputType
      /\ DOMAIN t.inputs = 1..Len(t.inputs) /\ DOMAIN t.outputs = 1..Len(t.outputs)
    BY <1>1, LenProperties, ElementOfSeq
<1>8. InputsOf(t.inputs) = Each(I, t.inputs) /\ OutputsOf(t.outputs) = Each(O, t.outputs)
    BY <1>7 DEF InputsOf, OutputsOf, Each
<1>9. ASSUME NEW k \in DOMAIN t.inputs PROVE t.inputs[k] \in HeldInputs
    <2>1. t.inputs[k] \in InputType /\ I[t.inputs[k]] = WriteInput(t.inputs[k])
        BY <1>7
    <2>2. Len(WriteInput(t.inputs[k])) \in Nat
        BY <2>1, InputIsWritten, LenProperties
    <2> HIDE DEF I
    <2>3. Len(I[t.inputs[k]]) <= Len(Each(I, t.inputs))
        BY <1>1, <1>2, <1>7, EachCovers DEF Covering
    <2>4. Len(WriteInput(t.inputs[k])) <= MaxTxBytes
        BY <1>3, <1>4, <1>8, <2>1, <2>2, <2>3
    <2> QED BY <1>5, <2>1, <2>4
<1>10. ASSUME NEW k \in DOMAIN t.outputs PROVE t.outputs[k] \in HeldOutputs
    <2>1. t.outputs[k] \in OutputType /\ O[t.outputs[k]] = WriteOutput(t.outputs[k])
        BY <1>7
    <2>2. Len(WriteOutput(t.outputs[k])) \in Nat
        BY <2>1, OutputIsWritten, LenProperties
    <2> HIDE DEF O
    <2>3. Len(O[t.outputs[k]]) <= Len(Each(O, t.outputs))
        BY <1>1, <1>2, <1>7, EachCovers DEF Covering
    <2>4. Len(WriteOutput(t.outputs[k])) <= MaxTxBytes
        BY <1>3, <1>4, <1>8, <2>1, <2>2, <2>3
    <2> QED BY <1>6, <2>1, <2>4
<1>11. t.inputs \in Seq(HeldInputs)
    <2> DEFINE f == t.inputs  n == Len(f)
    <2>1. n \in Nat /\ DOMAIN f = 1..n /\ \A k \in 1..n : f[k] \in HeldInputs
        BY <1>1, <1>7, <1>9
    <2>2. f = [k \in 1..n |-> f[k]]
        BY <1>1, LenProperties
    <2> HIDE DEF f, n
    <2>3. f \in [1..n -> HeldInputs]
        BY <2>1, <2>2
    <2> QED BY <2>1, <2>3, SeqDef DEF f
<1>12. t.outputs \in Seq(HeldOutputs)
    <2> DEFINE f == t.outputs  n == Len(f)
    <2>1. n \in Nat /\ DOMAIN f = 1..n /\ \A k \in 1..n : f[k] \in HeldOutputs
        BY <1>1, <1>7, <1>10
    <2>2. f = [k \in 1..n |-> f[k]]
        BY <1>1, LenProperties
    <2> HIDE DEF f, n
    <2>3. f \in [1..n -> HeldOutputs]
        BY <2>1, <2>2
    <2> QED BY <2>1, <2>3, SeqDef DEF f
<1> QED BY <1>11, <1>12

\* A count within the limits, and the elements that it counts
LEMMA InputsCut ==
    ASSUME NEW x \in Seq(HeldInputs), NEW y \in Seq(HeldInputs),
           Len(x) \in Countable, Len(y) \in Countable,
           NEW c \in Seq(Octet), NEW d \in Seq(Octet),
           Cat(Cat(WriteVarint(Len(x)), InputsOf(x)), c)
               = Cat(Cat(WriteVarint(Len(y)), InputsOf(y)), d)
    PROVE  x = y /\ c = d
<1> DEFINE S == HeldInputs  write == [in \in S |-> WriteInput(in)]
           v == WriteVarint(Len(x))  w == WriteVarint(Len(y))
<1>1. ASSUME NEW in \in S PROVE in \in InputType /\ WriteInput(in) \in Seq(Octet)
    BY InputIsWritten DEF HeldInputs
<1>2. write \in [S -> Seq(Octet)] /\ \A in \in S : write[in] = WriteInput(in)
    BY <1>1
<1>3. PrefixFree(write, S)
    <2> HIDE DEF write
    <2> QED BY <1>2, InputCut DEF PrefixFree
<1>4. Len(x) \in Nat /\ Len(y) \in Nat /\ v \in Seq(Octet) /\ w \in Seq(Octet)
    BY LenProperties, VarintIsBytes
<1>5. ASSUME NEW q \in Seq(S) PROVE InputsOf(q) = Each(write, q) /\ Each(write, q) \in Seq(Octet)
    <2>1. \A k \in DOMAIN q : q[k] \in S
        BY LenProperties, ElementOfSeq
    <2>2. InputsOf(q) = Each(write, q)
        BY <2>1 DEF InputsOf, Each
    <2>3. q \in Seq(InputType)
        <3>1. S \subseteq InputType
            BY <1>1
        <3> DEFINE n == Len(q)
        <3>2. n \in Nat /\ q \in [1..n -> S]
            BY LenProperties
        <3> HIDE DEF S, n
        <3>3. q \in [1..n -> InputType]
            BY <3>1, <3>2
        <3> QED BY <3>2, <3>3, SeqDef
    <2> QED BY <2>2, <2>3, InputsAreBytes
<1> DEFINE ex == Each(write, x)  ey == Each(write, y)
<1>6. /\ ex \in Seq(Octet) /\ ey \in Seq(Octet) /\ Cat(Cat(v, ex), c) = Cat(Cat(w, ey), d)
    BY <1>5
<1>7. Cat(ex, c) \in Seq(Octet) /\ Cat(ey, d) \in Seq(Octet)
    BY <1>6, CatIsBytes
<1>8. Cat(v, Cat(ex, c)) = Cat(w, Cat(ey, d))
    <2> HIDE DEF v, w, ex, ey
    <2> QED BY <1>4, <1>6, CatAssoc
<1>9. Len(x) = Len(y) /\ Cat(ex, c) = Cat(ey, d)
    <2> HIDE DEF ex, ey
    <2> QED BY <1>7, <1>8, VarintCuts
<1> HIDE DEF write
<1>10. Decodable(write, S, Len(x))
    BY <1>2, <1>3, <1>4, EachCut
<1> QED BY <1>9, <1>10 DEF Decodable

\* Outputs are read back behind their count.
LEMMA OutputsCut ==
    ASSUME NEW x \in Seq(HeldOutputs), NEW y \in Seq(HeldOutputs),
           Len(x) \in Countable, Len(y) \in Countable,
           NEW c \in Seq(Octet), NEW d \in Seq(Octet),
           Cat(Cat(WriteVarint(Len(x)), OutputsOf(x)), c)
               = Cat(Cat(WriteVarint(Len(y)), OutputsOf(y)), d)
    PROVE  x = y /\ c = d
<1> DEFINE S == HeldOutputs  write == [out \in S |-> WriteOutput(out)]
           v == WriteVarint(Len(x))  w == WriteVarint(Len(y))
<1>1. ASSUME NEW out \in S PROVE out \in OutputType /\ WriteOutput(out) \in Seq(Octet)
    BY OutputIsWritten DEF HeldOutputs
<1>2. write \in [S -> Seq(Octet)] /\ \A out \in S : write[out] = WriteOutput(out)
    BY <1>1
<1>3. PrefixFree(write, S)
    <2> HIDE DEF write
    <2> QED BY <1>2, OutputCut DEF PrefixFree
<1>4. Len(x) \in Nat /\ Len(y) \in Nat /\ v \in Seq(Octet) /\ w \in Seq(Octet)
    BY LenProperties, VarintIsBytes
<1>5. ASSUME NEW q \in Seq(S)
      PROVE  OutputsOf(q) = Each(write, q) /\ Each(write, q) \in Seq(Octet)
    <2>1. \A k \in DOMAIN q : q[k] \in S
        BY LenProperties, ElementOfSeq
    <2>2. OutputsOf(q) = Each(write, q)
        BY <2>1 DEF OutputsOf, Each
    <2>3. q \in Seq(OutputType)
        <3>1. S \subseteq OutputType
            BY <1>1
        <3> DEFINE n == Len(q)
        <3>2. n \in Nat /\ q \in [1..n -> S]
            BY LenProperties
        <3> HIDE DEF S, n
        <3>3. q \in [1..n -> OutputType]
            BY <3>1, <3>2
        <3> QED BY <3>2, <3>3, SeqDef
    <2> QED BY <2>2, <2>3, OutputsAreBytes
<1> DEFINE ex == Each(write, x)  ey == Each(write, y)
<1>6. /\ ex \in Seq(Octet) /\ ey \in Seq(Octet) /\ Cat(Cat(v, ex), c) = Cat(Cat(w, ey), d)
    BY <1>5
<1>7. Cat(ex, c) \in Seq(Octet) /\ Cat(ey, d) \in Seq(Octet)
    BY <1>6, CatIsBytes
<1>8. Cat(v, Cat(ex, c)) = Cat(w, Cat(ey, d))
    <2> HIDE DEF v, w, ex, ey
    <2> QED BY <1>4, <1>6, CatAssoc
<1>9. Len(x) = Len(y) /\ Cat(ex, c) = Cat(ey, d)
    <2> HIDE DEF ex, ey
    <2> QED BY <1>7, <1>8, VarintCuts
<1> HIDE DEF write
<1>10. Decodable(write, S, Len(x))
    BY <1>2, <1>3, <1>4, EachCut
<1> QED BY <1>9, <1>10 DEF Decodable

\* A transaction whose scripts and counts are held by varints
HeldTransaction(t) ==
    /\ t \in Transaction
    /\ t.inputs \in Seq(HeldInputs) /\ t.outputs \in Seq(HeldOutputs)
    /\ Len(t.inputs) \in Countable /\ Len(t.outputs) \in Countable

\* The bytes that a txid is the digest of say all but the witness.
LEMMA LegacyCut ==
    ASSUME NEW t, NEW u, HeldTransaction(t), HeldTransaction(u),
           LegacySerialize(t) = LegacySerialize(u)
    PROVE  /\ t.version = u.version /\ t.inputs = u.inputs /\ t.outputs = u.outputs
           /\ t.lock_time = u.lock_time
<1> DEFINE a == <<t.version>>  b == <<u.version>>
           it == Cat(WriteVarint(Len(t.inputs)), InputsOf(t.inputs))
           iu == Cat(WriteVarint(Len(u.inputs)), InputsOf(u.inputs))
           ot == Cat(WriteVarint(Len(t.outputs)), OutputsOf(t.outputs))
           ou == Cat(WriteVarint(Len(u.outputs)), OutputsOf(u.outputs))
           y == <<t.lock_time>>  z == <<u.lock_time>>
<1>1. /\ t \in Transaction /\ u \in Transaction
      /\ t.inputs \in Seq(HeldInputs) /\ t.outputs \in Seq(HeldOutputs)
      /\ Len(t.inputs) \in Countable /\ Len(t.outputs) \in Countable
      /\ u.inputs \in Seq(HeldInputs) /\ u.outputs \in Seq(HeldOutputs)
      /\ Len(u.inputs) \in Countable /\ Len(u.outputs) \in Countable
    BY DEF HeldTransaction
<1>2. /\ t.version \in Octet /\ u.version \in Octet
      /\ t.lock_time \in Octet /\ u.lock_time \in Octet
    BY <1>1, Parts
<1>3. /\ a \in Seq(Octet) /\ b \in Seq(Octet) /\ y \in Seq(Octet) /\ z \in Seq(Octet)
      /\ Len(a) = Len(b) /\ (a = b => t.version = u.version)
      /\ (y = z => t.lock_time = u.lock_time)
    BY <1>2
<1>4. WriteInputs(t) = it /\ WriteOutputs(t) = ot /\ it \in Seq(Octet) /\ ot \in Seq(Octet)
    BY <1>1, Parts, VectorsAreWritten DEF Cat
<1>5. WriteInputs(u) = iu /\ WriteOutputs(u) = ou /\ iu \in Seq(Octet) /\ ou \in Seq(Octet)
    BY <1>1, Parts, VectorsAreWritten DEF Cat
<1>6. /\ LegacySerialize(t) = Cat(Cat(Cat(a, it), ot), y)
      /\ LegacySerialize(u) = Cat(Cat(Cat(b, iu), ou), z)
    BY <1>4, <1>5 DEF LegacySerialize, Cat
<1> HIDE DEF a, b, it, iu, ot, ou, y, z
<1>7. /\ Cat(ot, y) \in Seq(Octet) /\ Cat(ou, z) \in Seq(Octet)
      /\ Cat(a, it) \in Seq(Octet) /\ Cat(b, iu) \in Seq(Octet)
    BY <1>3, <1>4, <1>5, CatIsBytes
<1>8. Cat(it, Cat(ot, y)) \in Seq(Octet) /\ Cat(iu, Cat(ou, z)) \in Seq(Octet)
    BY <1>4, <1>5, <1>7, CatIsBytes
<1>9. LegacySerialize(t) = Cat(a, Cat(it, Cat(ot, y)))
    <2>1. Cat(Cat(Cat(a, it), ot), y) = Cat(Cat(a, it), Cat(ot, y))
        BY <1>3, <1>4, <1>7, CatAssoc
    <2>2. Cat(Cat(a, it), Cat(ot, y)) = Cat(a, Cat(it, Cat(ot, y)))
        BY <1>3, <1>4, <1>7, CatAssoc
    <2> QED BY <1>6, <2>1, <2>2
<1>10. LegacySerialize(u) = Cat(b, Cat(iu, Cat(ou, z)))
    <2>1. Cat(Cat(Cat(b, iu), ou), z) = Cat(Cat(b, iu), Cat(ou, z))
        BY <1>3, <1>5, <1>7, CatAssoc
    <2>2. Cat(Cat(b, iu), Cat(ou, z)) = Cat(b, Cat(iu, Cat(ou, z)))
        BY <1>3, <1>5, <1>7, CatAssoc
    <2> QED BY <1>6, <2>1, <2>2
<1>11. a = b /\ Cat(it, Cat(ot, y)) = Cat(iu, Cat(ou, z))
    <2> DEFINE c == Cat(it, Cat(ot, y))  d == Cat(iu, Cat(ou, z))
    <2>1. c \in Seq(Octet) /\ d \in Seq(Octet) /\ Cat(a, c) = Cat(b, d)
        BY <1>8, <1>9, <1>10
    <2> HIDE DEF c, d
    <2>2. a = b /\ c = d
        BY <1>3, <2>1, CatCut
    <2> QED BY <2>2 DEF c, d
<1>12. t.inputs = u.inputs /\ Cat(ot, y) = Cat(ou, z)
    <2> DEFINE c == Cat(ot, y)  d == Cat(ou, z)
    <2>1. c \in Seq(Octet) /\ d \in Seq(Octet) /\ Cat(it, c) = Cat(iu, d)
        BY <1>7, <1>11
    <2> HIDE DEF c, d
    <2>2. t.inputs = u.inputs /\ c = d
        BY <1>1, <2>1, InputsCut DEF it, iu
    <2> QED BY <2>2 DEF c, d
<1>13. t.outputs = u.outputs /\ y = z
    BY <1>1, <1>3, <1>12, OutputsCut DEF ot, ou
<1> QED BY <1>3, <1>11, <1>12, <1>13

\* What is accepted is such a transaction, and so is a genuine one.
LEMMA WithinLimitsIsHeld ==
    ASSUME NEW t \in Transaction, Len(WireSerialize(t)) <= MaxTxBytes,
           Len(t.inputs) \in 1..MaxInputs, Len(t.outputs) \in 1..MaxOutputs
    PROVE  HeldTransaction(t)
<1> DEFINE C == ByteBase * ByteBase * ByteBase
<1>0. /\ C \in Nat /\ Countable = 0..(C - 1)
      /\ MaxInputs \in 0..(C - 1) /\ MaxOutputs \in 0..(C - 1)
    BY Forms, LimitsAssumption DEF Countable
<1> HIDE DEF C
<1>1. \A n \in 1..MaxInputs : n \in Countable
    BY <1>0
<1>2. \A n \in 1..MaxOutputs : n \in Countable
    BY <1>0
<1> QED BY <1>1, <1>2, ScriptsAreHeld DEF HeldTransaction

\* Transactions that differ in nothing but the witness
LEMMA SameButWitness ==
    ASSUME NEW t \in Transaction, NEW u \in Transaction, t.version = u.version,
           t.inputs = u.inputs, t.outputs = u.outputs, t.lock_time = u.lock_time
    PROVE  [t EXCEPT !.witnesses = Absent] = [u EXCEPT !.witnesses = Absent]
BY DEF Transaction

\* A txid says all but the witness, whatever is submitted under it.
THEOREM TxidSaysAllButWitness == Spec => []TxidCommits
<1>1. IInv => TxidCommits
    <2>1. SUFFICES ASSUME IInv, at = "accepted", NEW t \in Genuine, Txid(t) = claimed
                   PROVE  [t EXCEPT !.witnesses = Absent] = [tx EXCEPT !.witnesses = Absent]
        BY DEF TxidCommits, Encoded
    <2>2. HeldTransaction(tx) /\ tx \in Transaction /\ Txid(tx) = claimed
        BY <2>1, Accepted, WithinLimitsIsHeld
    <2>3. HeldTransaction(t) /\ t \in Transaction
        BY <2>1, GenuineAssumption, WithinLimitsIsHeld DEF Valid
    <2>4. LegacySerialize(t) = LegacySerialize(tx)
        BY <2>1, <2>2 DEF Txid, Sha256d
    <2> QED BY <2>2, <2>3, <2>4, LegacyCut, SameButWitness
<1> QED BY <1>1, ReadAsWritten, PTL

-----------------------------------------------------------------------------
(* Reading is complete *)

\* w begins with a, and then comes b.
Then(w, a, b) == \E r \in Seq(Octet) : w = Cat(a, Cat(b, r))

\* It is enough that the bytes are split so.
LEMMA ThenStarts ==
    \A a, b, r \in Seq(Octet) : Then(Cat(a, Cat(b, r)), a, b)
BY DEF Then

\* The end of a string is its last part,
LEMMA ThenEnds ==
    \A a, b \in Seq(Octet) : Then(Cat(a, b), a, b)
<1> SUFFICES ASSUME NEW a \in Seq(Octet), NEW b \in Seq(Octet) PROVE Then(Cat(a, b), a, b)
    OBVIOUS
<1>1. <<>> \in Seq(Octet) /\ Cat(b, <<>>) = b
    BY CatEmpty, EmptySeq
<1> QED BY <1>1 DEF Then

\* the string may go on,
LEMMA ThenGoesOn ==
    \A a, b, c, w \in Seq(Octet) : Then(w, a, b) => Then(Cat(w, c), a, b)
<1>1. SUFFICES ASSUME NEW a \in Seq(Octet), NEW b \in Seq(Octet), NEW c \in Seq(Octet),
                      NEW w \in Seq(Octet), Then(w, a, b)
               PROVE  Then(Cat(w, c), a, b)
    OBVIOUS
<1>2. PICK r \in Seq(Octet) : w = Cat(a, Cat(b, r))
    BY <1>1 DEF Then
<1>3. Cat(b, r) \in Seq(Octet) /\ Cat(r, c) \in Seq(Octet)
    BY CatIsBytes
<1>4. Cat(w, c) = Cat(a, Cat(Cat(b, r), c))
    BY <1>2, <1>3, CatAssoc
<1>5. Cat(Cat(b, r), c) = Cat(b, Cat(r, c))
    BY CatAssoc
<1> QED BY <1>3, <1>4, <1>5 DEF Then

\* and what comes next may be taken apart.
LEMMA ThenWithin ==
    \A a, b, c, d, w \in Seq(Octet) : Then(w, a, b) /\ Then(b, c, d) => Then(w, Cat(a, c), d)
<1>1. SUFFICES ASSUME NEW a \in Seq(Octet), NEW b \in Seq(Octet), NEW c \in Seq(Octet),
                      NEW d \in Seq(Octet), NEW w \in Seq(Octet), Then(w, a, b), Then(b, c, d)
               PROVE  Then(w, Cat(a, c), d)
    OBVIOUS
<1>2. PICK r \in Seq(Octet) : w = Cat(a, Cat(b, r))
    BY <1>1 DEF Then
<1>3. PICK q \in Seq(Octet) : b = Cat(c, Cat(d, q))
    BY <1>1 DEF Then
<1>4. /\ Cat(d, q) \in Seq(Octet) /\ Cat(q, r) \in Seq(Octet)
      /\ Cat(Cat(d, q), r) \in Seq(Octet)
    BY CatIsBytes
<1>5. Cat(b, r) = Cat(c, Cat(Cat(d, q), r))
    BY <1>3, <1>4, CatAssoc
<1>6. Cat(Cat(d, q), r) = Cat(d, Cat(q, r))
    BY CatAssoc
<1>7. Cat(a, Cat(c, Cat(Cat(d, q), r))) = Cat(Cat(a, c), Cat(Cat(d, q), r))
    BY <1>4, CatAssoc
<1>8. w = Cat(Cat(a, c), Cat(d, Cat(q, r)))
    BY <1>2, <1>5, <1>6, <1>7
<1> QED BY <1>4, <1>8 DEF Then

\* A sequence begins with another.
Begins(q, s) == Len(q) <= Len(s) /\ \A k \in 1..Len(q) : q[k] = s[k]

\* What is written for elements is what is written for the first of them, and
\* then for the next.
Orderly(write, S, n) ==
    \A s, q \in Seq(S) : Len(s) = n /\ Begins(q, s) /\ Len(q) < n =>
        \A x \in S : (\A k \in 1..n : k = Len(q) + 1 => s[k] = x) =>
            Then(Each(write, s), Each(write, q), write[x])

\* Of things written one behind the other each comes right behind those before it.
LEMMA EachInOrder ==
    ASSUME NEW S, NEW write \in [S -> Seq(Octet)], NEW n \in Nat
    PROVE  Orderly(write, S, n)
<1> DEFINE T == {m \in Nat : ~Orderly(write, S, m)}
<1> SUFFICES ASSUME T # {} PROVE FALSE
    OBVIOUS
<1>1. PICK m \in T : \A j \in Nat : j < m => j \notin T
    BY FirstFailure
<1>2. m \in Nat /\ ~Orderly(write, S, m)
    OBVIOUS
<1>3. PICK s \in Seq(S), q \in Seq(S), x \in S :
          /\ Len(s) = m /\ Begins(q, s) /\ Len(q) < m
          /\ \A k \in 1..m : k = Len(q) + 1 => s[k] = x
          /\ ~Then(Each(write, s), Each(write, q), write[x])
    BY <1>2 DEF Orderly
<1>4. Len(q) \in Nat /\ s # <<>> /\ m >= 1
    BY <1>2, <1>3, EmptySeq, LenProperties
<1>5. PICK a \in Seq(S), y \in S : s = Append(a, y)
    BY <1>4, SequenceEmptyOrAppend
<1>6. /\ Len(a) = m - 1 /\ m - 1 \in Nat /\ m - 1 < m /\ s[m] = y
      /\ \A j \in 1..(m - 1) : s[j] = a[j]
    <2>1. /\ Len(a) \in Nat /\ Len(s) = Len(a) + 1 /\ s[Len(a) + 1] = y
          /\ \A j \in 1..Len(a) : s[j] = a[j]
        BY <1>5, LenProperties, AppendProperties
    <2>2. Len(a) = m - 1 /\ Len(a) + 1 = m
        BY <1>2, <1>3, <2>1
    <2> QED BY <1>2, <1>4, <2>1, <2>2
<1> DEFINE ea == Each(write, a)  wy == write[y]  eq == Each(write, q)  wx == write[x]
<1>7. ea \in Seq(Octet) /\ wy \in Seq(Octet) /\ Each(write, s) = Cat(ea, wy)
    BY <1>5, EachGrows DEF Cat
<1>8. eq \in Seq(Octet) /\ wx \in Seq(Octet)
    BY EachGrows
<1>9. CASE Len(q) = m - 1
    <2>1. q = a
        <3>1. \A k \in 1..Len(q) : q[k] = a[k]
            BY <1>3, <1>6, <1>9 DEF Begins
        <3> QED BY <1>6, <1>9, <3>1, SeqEqual
    <2>2. y = x
        <3>1. m \in 1..m /\ m = Len(q) + 1
            BY <1>2, <1>4, <1>9
        <3> QED BY <1>3, <1>6, <3>1
    <2> HIDE DEF ea, wy, eq, wx
    <2>3. Then(Cat(ea, wy), ea, wy)
        BY <1>7, ThenEnds
    <2> QED BY <1>3, <1>7, <2>1, <2>2, <2>3 DEF ea, wy, eq, wx
<1>10. CASE Len(q) # m - 1
    <2>1. Len(q) < m - 1 /\ Orderly(write, S, m - 1)
        BY <1>1, <1>2, <1>3, <1>4, <1>6, <1>10
    <2>2. Begins(q, a)
        BY <1>2, <1>3, <1>4, <1>6, <2>1 DEF Begins
    <2>3. \A k \in 1..(m - 1) : k = Len(q) + 1 => a[k] = x
        <3>1. ASSUME NEW k \in 1..(m - 1), k = Len(q) + 1 PROVE a[k] = x
            <4>1. k \in 1..m
                BY <1>2
            <4>2. s[k] = a[k]
                BY <1>6
            <4> QED BY <1>3, <3>1, <4>1, <4>2
        <3> QED BY <3>1
    <2>4. Then(ea, eq, wx)
        BY <1>6, <2>1, <2>2, <2>3 DEF Orderly
    <2> HIDE DEF ea, wy, eq, wx
    <2>5. Then(Cat(ea, wy), eq, wx)
        BY <1>7, <1>8, <2>4, ThenGoesOn
    <2> QED BY <1>3, <1>7, <2>5 DEF eq, wx
<1> QED BY <1>9, <1>10

\* The bytes from a position on
Ahead(from) == Span(from, Len(raw))

\* What is ahead are the bytes from there on,
LEMMA AheadIsBytes ==
    ASSUME raw \in Seq(Octet), NEW from \in 0..Len(raw)
    PROVE  /\ Ahead(from) \in Seq(Octet) /\ Len(Ahead(from)) = Len(raw) - from
           /\ \A k \in 1..(Len(raw) - from) : Ahead(from)[k] = raw[from + k]
<1> DEFINE m == from + 1  n == Len(raw)
<1>1. n \in Nat /\ from \in Nat /\ from <= n /\ \A k \in 1..n : raw[k] \in Octet
    BY LenProperties, ElementOfSeq
<1> HIDE DEF n
<1>2. m \in Int /\ n \in Int /\ (\A k \in m..n : raw[k] \in Octet)
    BY <1>1
<1>3. (IF m <= n THEN n - m + 1 ELSE 0) = n - from
    BY <1>1
<1> HIDE DEF m
<1>4. /\ SubSeq(raw, m, n) \in Seq(Octet)
      /\ Len(SubSeq(raw, m, n)) = IF m <= n THEN n - m + 1 ELSE 0
      /\ \A k \in 1..(n - m + 1) : SubSeq(raw, m, n)[k] = raw[m + k - 1]
    BY <1>2, SubSeqProperties
<1>5. \A k \in 1..(n - from) : k \in 1..(n - m + 1) /\ m + k - 1 = from + k
    BY <1>1 DEF m
<1>6. \A k \in 1..(n - from) : SubSeq(raw, m, n)[k] = raw[from + k]
    BY <1>4, <1>5
<1> QED BY <1>3, <1>4, <1>6 DEF Ahead, Span, m, n

\* and those up to some place are ahead with what is ahead of it.
LEMMA AheadJoins ==
    ASSUME raw \in Seq(Octet), NEW i \in 0..Len(raw), NEW j \in i..Len(raw)
    PROVE  Ahead(i) = Cat(Span(i, j), Ahead(j)) /\ Span(i, j) \in Seq(Octet)
<1>1. Len(raw) \in Nat /\ Len(raw) \in j..Len(raw)
    BY LenProperties
<1>2. Ahead(i) = Cat(Span(i, j), Ahead(j))
    BY <1>1, SpanJoins DEF Ahead, Cat
<1>3. \A k \in (i + 1)..j : raw[k] \in Octet
    <2>1. \A k \in 1..Len(raw) : raw[k] \in Octet
        BY ElementOfSeq
    <2> QED BY <1>1, <2>1
<1>4. Span(i, j) \in Seq(Octet)
    <2> DEFINE m == i + 1
    <2>1. m \in Int /\ j \in Int /\ \A k \in m..j : raw[k] \in Octet
        BY <1>1, <1>3
    <2> HIDE DEF m
    <2>2. SubSeq(raw, m, j) \in Seq(Octet)
        BY <2>1, SubSeqProperties
    <2> QED BY <2>2 DEF Span, m
<1> QED BY <1>2, <1>4

\* Some bytes come next there.
Comes(b, from) == \E r \in Seq(Octet) : Ahead(from) = Cat(b, r)

\* Bytes that come stand in the input from there on.
LEMMA ComesThere ==
    ASSUME raw \in Seq(Octet), NEW from \in 0..Len(raw), NEW b \in Seq(Octet), Comes(b, from)
    PROVE  /\ Len(b) \in Nat /\ from + Len(b) \in from..Len(raw)
           /\ \A k \in 1..Len(b) : raw[from + k] = b[k]
<1> DEFINE n == Len(raw) - from  a == Ahead(from)
<1>1. a \in Seq(Octet) /\ Len(a) = n /\ \A k \in 1..n : a[k] = raw[from + k]
    BY AheadIsBytes
<1>2. PICK r \in Seq(Octet) : a = Cat(b, r)
    BY DEF Comes
<1>3. Len(a) = Len(b) + Len(r) /\ Len(b) \in Nat /\ Len(r) \in Nat
    BY <1>2, CatLen
<1>4. \A k \in 1..Len(b) : a[k] = b[k]
    <2>1. \A k \in 1..(Len(b) + Len(r)) :
              (b \o r)[k] = IF k <= Len(b) THEN b[k] ELSE r[k - Len(b)]
        BY ConcatProperties
    <2>2. ASSUME NEW k \in 1..Len(b) PROVE a[k] = b[k]
        <3>1. k \in 1..(Len(b) + Len(r)) /\ k <= Len(b)
            BY <1>3
        <3>2. (b \o r)[k] = b[k]
            BY <2>1, <3>1
        <3> QED BY <1>2, <3>2 DEF Cat
    <2> QED BY <2>2
<1>5. Len(raw) \in Nat /\ from \in Nat
    BY LenProperties
<1> HIDE DEF a
<1>6. from + Len(b) \in from..Len(raw) /\ \A k \in 1..Len(b) : k \in 1..n
    BY <1>1, <1>3, <1>5
<1> QED BY <1>1, <1>3, <1>4, <1>6

\* What is read is no error.
LEMMA ReadIsNoError ==
    ASSUME NEW v \in Octet \cup Seq(Octet) \cup Nat \cup InputType \cup OutputType, NEW n \in Nat
    PROVE  [value |-> v, next |-> n] # Error
<1> DEFINE V == Octet \cup Seq(Octet) \cup Nat \cup InputType \cup OutputType
<1>1. Error \notin [value : V, next : Nat]
    BY OptionAssumption
<1>2. v \in V
    OBVIOUS
<1> HIDE DEF V
<1>3. [value |-> v, next |-> n] \in [value : V, next : Nat]
    BY <1>2
<1> QED BY <1>1, <1>3

\* Bytes that are there can be taken,
LEMMA TakeSucceeds ==
    ASSUME raw \in Seq(Octet), NEW from \in 0..Len(raw), NEW n \in Nat, from + n <= Len(raw)
    PROVE  Take(from, n) # Error
<1> DEFINE s == SubSeq(raw, from + 1, from + n)
<1>1. Len(raw) \in Nat /\ from \in Nat /\ from + n \in from..Len(raw) /\ from + n \in Nat
    BY LenProperties
<1>2. s \in Seq(Octet)
    BY <1>1, AheadJoins DEF Span
<1>3. ~(Len(raw) - from < n)
    BY <1>1
<1>4. Take(from, n) = [value |-> s, next |-> from + n]
    BY <1>3 DEF Take
<1> HIDE DEF s
<1>5. [value |-> s, next |-> from + n] # Error
    BY <1>1, <1>2, ReadIsNoError
<1> QED BY <1>4, <1>5

\* A varint that comes next is read.
LEMMA VarintComes ==
    ASSUME raw \in Seq(Octet), NEW from \in 0..Len(raw), NEW n \in Countable,
           Comes(WriteVarint(n), from)
    PROVE  Varint(from) # Error /\ Varint(from).value = n
<1> DEFINE v == WriteVarint(n)  B == ByteBase  b == raw[from + 1]
<1>1. Len(raw) \in Nat /\ from \in Nat /\ n \in Nat
    BY LenProperties, SumOfDigits
<1>2. /\ v \in Seq(Octet) /\ Len(v) = Length(n) /\ v[1] = First(n) /\ Length(n) \in 1..4
    BY <1>1, VarintShape, VarintTuples
<1>3. from + Length(n) <= Len(raw) /\ \A k \in 1..Length(n) : raw[from + k] = v[k]
    <2> HIDE DEF v
    <2>1. from + Len(v) \in from..Len(raw) /\ \A k \in 1..Len(v) : raw[from + k] = v[k]
        BY <1>2, ComesThere DEF v
    <2> QED BY <1>1, <1>2, <2>1
<1>4. b = First(n) /\ 1 \in Nat /\ from + 1 <= Len(raw)
    <2>1. 1 \in 1..Length(n)
        BY <1>2
    <2> QED BY <1>1, <1>2, <1>3, <2>1
<1>5. Take(from, 1) # Error
    BY <1>4, TakeSucceeds
<1>6. from + 1 \in Nat /\ from + 1 \in 0..Len(raw)
    BY <1>1, <1>4
<1> HIDE DEF v
<1>7. CASE n < B - 3
    <2>1. First(n) = n /\ First(n) < Marker(1)
        BY <1>7, Forms DEF First
    <2>2. Varint(from) = [value |-> b, next |-> from + 1]
        BY <1>4, <1>5, <2>1 DEF Varint
    <2>3. b \in Nat
        BY <1>1, <1>4, <2>1
    <2> HIDE DEF b
    <2>4. [value |-> b, next |-> from + 1] # Error
        BY <1>6, <2>3, ReadIsNoError
    <2> QED BY <1>4, <2>1, <2>2, <2>4 DEF b
<1>8. CASE ~(n < B - 3)
    <2> DEFINE w == b - Marker(1) + 1  rest == Take(from + 1, w)
    <2>1. w = Length(n) - 1 /\ w \in Widths /\ w \in Nat /\ ~(b < Marker(1)) /\ n >= Least(w)
        <3>1. CASE n < B
            <4>1. First(n) = B - 3 /\ Length(n) = 2
                BY <1>8, <3>1 DEF First, Length
            <4>2. w = 1
                BY <1>4, <4>1, Forms
            <4> QED BY <1>1, <1>4, <1>8, <4>1, <4>2, Forms DEF Widths
        <3>2. CASE ~(n < B) /\ n < B * B
            <4>1. First(n) = B - 2 /\ Length(n) = 3
                BY <1>8, <3>2 DEF First, Length
            <4>2. w = 2
                BY <1>4, <4>1, Forms
            <4> QED BY <1>1, <1>4, <1>8, <3>2, <4>1, <4>2, Forms DEF Widths
        <3>3. CASE ~(n < B) /\ ~(n < B * B)
            <4>1. First(n) = B - 1 /\ Length(n) = 4
                BY <1>8, <3>3 DEF First, Length
            <4>2. w = 3
                BY <1>4, <4>1, Forms
            <4> QED BY <1>1, <1>4, <1>8, <3>3, <4>1, <4>2, Forms DEF Widths
        <3> QED BY <3>1, <3>2, <3>3
    <2>2. Varint(from) = IF rest = Error THEN Error
                         ELSE IF ~Minimal(Number(rest.value), w) THEN Error
                         ELSE [value |-> Number(rest.value), next |-> rest.next]
        BY <1>5, <2>1 DEF Varint
    <2> HIDE DEF w, b
    <2> DEFINE f == from + 1
    <2>3. f \in 0..Len(raw) /\ f + w <= Len(raw) /\ f \in Nat
        BY <1>1, <1>2, <1>3, <1>6, <2>1
    <2>4. rest # Error
        <3> HIDE DEF f
        <3>1. Take(f, w) # Error
            BY <2>1, <2>3, TakeSucceeds
        <3> QED BY <3>1 DEF f
    <2>5. /\ rest.next \in Nat /\ rest.value \in Seq(Octet) /\ Len(rest.value) = w
          /\ \A k \in 1..w : rest.value[k] = raw[f + k]
        <3> HIDE DEF f
        <3>1. Take(f, w) # Error
            BY <2>4 DEF f
        <3>2. /\ Take(f, w).next = f + w /\ Take(f, w).value \in Seq(Octet)
              /\ Len(Take(f, w).value) = w
              /\ \A k \in 1..w : Take(f, w).value[k] = raw[f + k]
            BY <2>1, <2>3, <3>1, TakeReads
        <3> QED BY <2>1, <2>3, <3>2 DEF f
    <2> DEFINE d == rest.value
    <2> HIDE DEF rest
    <2>6. \A k \in 1..w : d[k] = v[k + 1]
        <3>1. ASSUME NEW k \in 1..w PROVE d[k] = v[k + 1]
            <4> DEFINE j == k + 1
            <4>1. j \in 1..Length(n) /\ f + k = from + j
                BY <1>1, <1>2, <2>1
            <4> HIDE DEF j
            <4>2. raw[from + j] = v[j]
                BY <1>3, <4>1
            <4> QED BY <2>5, <4>1, <4>2 DEF j
        <3> QED BY <3>1
    <2>7. Number(d) = n
        <3>1. CASE w = 1
            <4>1. Length(n) = 2 /\ 1 \in 1..w
                BY <1>2, <2>1, <3>1
            <4>2. v = <<First(n), Low(n)>>
                BY <1>1, <4>1, VarintTuples DEF v
            <4>3. d[1] = Low(n)
                <5>1. d[1] = v[1 + 1] /\ v[2] = Low(n)
                    BY <2>6, <4>1, <4>2
                <5> QED BY <5>1
            <4>4. Number(d) = d[1]
                BY <2>1, <2>5, <3>1, NumberIs
            <4>5. n < B
                BY <4>1 DEF Length
            <4> QED BY <4>3, <4>4, <4>5, SumOfDigits DEF Low
        <3>2. CASE w = 2
            <4>1. Length(n) = 3 /\ 1 \in 1..w /\ 2 \in 1..w
                BY <1>2, <2>1, <3>2
            <4>2. v = <<First(n), Low(n), Middle(n)>>
                BY <1>1, <4>1, VarintTuples DEF v
            <4>3. d[1] = Low(n) /\ d[2] = Middle(n)
                <5>1. d[1] = v[1 + 1] /\ d[2] = v[2 + 1] /\ v[2] = Low(n) /\ v[3] = Middle(n)
                    BY <2>6, <4>1, <4>2
                <5> QED BY <5>1
            <4>4. Number(d) = d[1] + B * d[2]
                BY <2>1, <2>5, <3>2, NumberIs
            <4>5. n < B * B
                BY <4>1 DEF Length
            <4> QED BY <4>3, <4>4, <4>5, SumOfDigits DEF Low, Middle
        <3>3. CASE w = 3
            <4>1. Length(n) = 4 /\ 1 \in 1..w /\ 2 \in 1..w /\ 3 \in 1..w
                BY <1>2, <2>1, <3>3
            <4>2. v = <<First(n), Low(n), Middle(n), High(n)>>
                BY <1>1, <4>1, VarintTuples DEF v
            <4>3. d[1] = Low(n) /\ d[2] = Middle(n) /\ d[3] = High(n)
                <5>1. d[1] = v[1 + 1] /\ d[2] = v[2 + 1] /\ d[3] = v[3 + 1]
                    BY <2>6, <4>1
                <5>2. v[2] = Low(n) /\ v[3] = Middle(n) /\ v[4] = High(n)
                    BY <4>2
                <5> QED BY <5>1, <5>2
            <4>4. Number(d) = d[1] + B * (d[2] + B * d[3])
                BY <2>1, <2>5, <3>3, NumberIs
            <4> QED BY <4>3, <4>4, SumOfDigits DEF Low, Middle, High
        <3> QED BY <2>1, <3>1, <3>2, <3>3 DEF Widths
    <2>8. Varint(from) = [value |-> n, next |-> rest.next]
        BY <2>1, <2>2, <2>4, <2>7 DEF Minimal
    <2>9. [value |-> n, next |-> rest.next] # Error
        BY <1>1, <2>5, ReadIsNoError
    <2> QED BY <2>8, <2>9
<1> QED BY <1>7, <1>8

\* What comes next is read, and the rest comes then:
LEMMA RestComes ==
    ASSUME raw \in Seq(Octet), NEW from \in 0..Len(raw), NEW next \in from..Len(raw),
           NEW b \in Seq(Octet), NEW r \in Seq(Octet), Ahead(from) = Cat(b, r),
           Span(from, next) = b \/ next = from + Len(b)
    PROVE  Ahead(next) = r /\ Span(from, next) = b /\ next \in 0..Len(raw)
<1> DEFINE a == Span(from, next)  c == Ahead(next)
<1>1. Len(raw) \in Nat /\ from \in Nat /\ next \in 0..Len(raw) /\ next \in Nat
    BY LenProperties
<1>2. a \in Seq(Octet) /\ Cat(a, c) = Cat(b, r)
    BY AheadJoins
<1>3. c \in Seq(Octet)
    BY <1>1, AheadIsBytes
<1>4. Len(a) = Len(b)
    <2>1. CASE Span(from, next) = b
        BY <2>1
    <2>2. CASE next = from + Len(b)
        <3>1. Len(Ahead(from)) = Len(raw) - from /\ Len(c) = Len(raw) - next
            BY <1>1, AheadIsBytes
        <3>2. Ahead(from) = Cat(a, c)
            BY AheadJoins
        <3> HIDE DEF a, c
        <3>3. Len(Ahead(from)) = Len(a) + Len(c) /\ Len(a) \in Nat
            BY <1>2, <1>3, <3>2, CatLen
        <3>4. Len(b) \in Nat
            BY LenProperties
        <3> QED BY <1>1, <2>2, <3>1, <3>3, <3>4
    <2> QED BY <2>1, <2>2
<1> HIDE DEF a, c
<1>5. a = b /\ c = r
    BY <1>2, <1>3, <1>4, CatCut
<1> QED BY <1>1, <1>5 DEF a, c

\* a varint,
LEMMA VarintFollows ==
    ASSUME raw \in Seq(Octet), NEW from \in 0..Len(raw), NEW n \in Countable,
           NEW r \in Seq(Octet), Ahead(from) = Cat(WriteVarint(n), r)
    PROVE  /\ Varint(from) # Error /\ Varint(from).value = n
           /\ Varint(from).next \in from..Len(raw) /\ Ahead(Varint(from).next) = r
<1>1. Comes(WriteVarint(n), from)
    BY DEF Comes
<1>2. Varint(from) # Error /\ Varint(from).value = n
    BY <1>1, VarintComes
<1> DEFINE next == Varint(from).next
<1>3. next \in from..Len(raw) /\ Span(from, next) = WriteVarint(n)
    BY <1>2, VarintReads
<1>4. WriteVarint(n) \in Seq(Octet)
    BY SumOfDigits, VarintIsBytes
<1> HIDE DEF next
<1>5. Ahead(next) = r
    BY <1>3, <1>4, RestComes
<1> QED BY <1>2, <1>3, <1>5 DEF next

\* as many bytes as are asked for,
LEMMA TakeFollows ==
    ASSUME raw \in Seq(Octet), NEW from \in 0..Len(raw), NEW s \in Seq(Octet),
           NEW r \in Seq(Octet), NEW n, n = Len(s), Ahead(from) = Cat(s, r)
    PROVE  /\ Take(from, n) # Error /\ Take(from, n).value = s
           /\ Take(from, n).next \in from..Len(raw) /\ Ahead(Take(from, n).next) = r
<1>1. Comes(s, from)
    BY DEF Comes
<1>2. n \in Nat /\ from + n \in from..Len(raw)
    BY <1>1, ComesThere
<1>3. Len(raw) \in Nat /\ from \in Nat /\ from + n <= Len(raw)
    BY <1>2, LenProperties
<1>4. Take(from, n) # Error
    BY <1>2, <1>3, TakeSucceeds
<1>5. Take(from, n).next = from + n /\ Take(from, n).value = Span(from, from + n)
    BY <1>2, <1>4, TakeReads DEF Span
<1> DEFINE next == from + n
<1>6. next \in from..Len(raw) /\ next = from + Len(s)
    BY <1>2
<1> HIDE DEF next
<1>7. Ahead(next) = r /\ Span(from, next) = s
    BY <1>6, RestComes
<1> QED BY <1>2, <1>4, <1>5, <1>7 DEF next

\* The byte that comes is the one taken.
LEMMA ByteFollows ==
    ASSUME raw \in Seq(Octet), NEW from \in 0..Len(raw), NEW b \in Octet,
           NEW r \in Seq(Octet), Ahead(from) = Cat(<<b>>, r)
    PROVE  /\ Take(from, 1) # Error /\ Take(from, 1).value[1] = b
           /\ Take(from, 1).next \in from..Len(raw) /\ Ahead(Take(from, 1).next) = r
<1> DEFINE s == <<b>>
<1>1. s \in Seq(Octet) /\ Ahead(from) = Cat(s, r)
    OBVIOUS
<1>4. Len(s) = 1 /\ s[1] = b
    OBVIOUS
<1> HIDE DEF s
<1> DEFINE n == Len(s)
<1>2. n = Len(s)
    OBVIOUS
<1> HIDE DEF n
<1>3. /\ Take(from, n) # Error /\ Take(from, n).value = s
      /\ Take(from, n).next \in from..Len(raw) /\ Ahead(Take(from, n).next) = r
    BY <1>1, <1>2, TakeFollows
<1> QED BY <1>2, <1>3, <1>4

\* bytes behind their length,
LEMMA VarBytesFollows ==
    ASSUME raw \in Seq(Octet), Len(raw) <= MaxTxBytes, NEW from \in 0..Len(raw),
           NEW s \in Seq(Octet), NEW r \in Seq(Octet), Ahead(from) = Cat(WriteBytes(s), r)
    PROVE  /\ VarBytes(from) # Error /\ VarBytes(from).value = s
           /\ VarBytes(from).next \in from..Len(raw) /\ Ahead(VarBytes(from).next) = r
<1> DEFINE v == WriteVarint(Len(s))  n == Varint(from)
<1>1. Len(raw) \in Nat /\ from \in Nat /\ Len(s) \in Nat /\ MaxTxBytes \in Nat
    BY LenProperties, LimitsAssumption
<1>2. v \in Seq(Octet) /\ WriteBytes(s) = Cat(v, s)
    BY <1>1, VarintIsBytes DEF WriteBytes, Cat
<1>3. Ahead(from) = Cat(v, Cat(s, r)) /\ Cat(s, r) \in Seq(Octet)
    <2> HIDE DEF v
    <2> QED BY <1>2, CatAssoc, CatIsBytes
<1>4. Len(s) <= MaxTxBytes
    <2> DEFINE b == WriteBytes(s)
    <2>1. b \in Seq(Octet) /\ Ahead(from) = Cat(b, r) /\ b = Cat(v, s)
        BY <1>2, BytesAreWritten
    <2>2. Len(Ahead(from)) = Len(raw) - from
        BY AheadIsBytes
    <2> HIDE DEF b, v
    <2>3. Len(b) <= Len(Ahead(from)) /\ Len(b) \in Nat
        BY <2>1, CatCovers
    <2>4. Len(s) <= Len(b)
        BY <1>2, <2>1, CatCovers
    <2> QED BY <1>1, <2>2, <2>3, <2>4
<1>5. Len(s) \in Countable
    <2> DEFINE C == ByteBase * ByteBase * ByteBase
    <2>1. C \in Nat /\ MaxTxBytes \in 0..(C - 1) /\ Countable = 0..(C - 1)
        BY Forms, LimitsAssumption DEF Countable
    <2> HIDE DEF C
    <2> QED BY <1>1, <1>4, <2>1
<1>6. n # Error /\ n.value = Len(s) /\ n.next \in from..Len(raw) /\ Ahead(n.next) = Cat(s, r)
    BY <1>3, <1>5, VarintFollows
<1> HIDE DEF n
<1>7. VarBytes(from) = Take(n.next, n.value)
    BY <1>1, <1>4, <1>6 DEF VarBytes, n
<1> DEFINE f == n.next  m == n.value
<1>8. f \in 0..Len(raw) /\ f \in from..Len(raw) /\ m = Len(s) /\ Ahead(f) = Cat(s, r)
    BY <1>1, <1>6
<1> HIDE DEF f, m
<1>9. /\ Take(f, m) # Error /\ Take(f, m).value = s
      /\ Take(f, m).next \in f..Len(raw) /\ Ahead(Take(f, m).next) = r
    BY <1>8, TakeFollows
<1>10. Take(f, m).next \in from..Len(raw)
    BY <1>1, <1>8, <1>9
<1> QED BY <1>7, <1>9, <1>10 DEF f, m

\* an input,
LEMMA InputFollows ==
    ASSUME raw \in Seq(Octet), Len(raw) <= MaxTxBytes, p \in 0..Len(raw),
           NEW x \in InputType, NEW r \in Seq(Octet), Ahead(p) = Cat(WriteInput(x), r)
    PROVE  /\ Input # Error /\ Input.value = x
           /\ Input.next \in p..Len(raw) /\ Ahead(Input.next) = r
<1> DEFINE b == WriteBytes(x.script_sig)  u == <<x.sequence>>
           prev == Take(p, 2)  script == VarBytes(prev.next)  sequence == Take(script.next, 1)
<1>1. /\ x.prev \in Seq(Octet) /\ Len(x.prev) = 2 /\ x.script_sig \in Seq(Octet)
      /\ x.sequence \in Octet /\ u \in Seq(Octet) /\ b \in Seq(Octet)
    BY InputIsWritten, BytesAreWritten
<1>2. WriteInput(x) = Cat(Cat(x.prev, b), u)
    BY DEF WriteInput, Cat
<1>3. Ahead(p) = Cat(x.prev, Cat(b, Cat(u, r))) /\ Cat(u, r) \in Seq(Octet)
      /\ Cat(b, Cat(u, r)) \in Seq(Octet)
    <2> HIDE DEF b, u
    <2>1. /\ Cat(u, r) \in Seq(Octet) /\ Cat(x.prev, b) \in Seq(Octet)
          /\ Cat(b, Cat(u, r)) \in Seq(Octet)
        BY <1>1, CatIsBytes
    <2> QED BY <1>1, <1>2, <2>1, CatAssoc
<1>4. /\ prev # Error /\ prev.value = x.prev /\ prev.next \in p..Len(raw)
      /\ Ahead(prev.next) = Cat(b, Cat(u, r))
    <2> DEFINE n == Len(x.prev)  c == Cat(b, Cat(u, r))
    <2>1. c \in Seq(Octet) /\ Ahead(p) = Cat(x.prev, c)
        BY <1>3
    <2>2. x.prev \in Seq(Octet) /\ n = Len(x.prev)
        BY <1>1
    <2>3. n = 2
        BY <1>1
    <2> HIDE DEF n, c
    <2>4. /\ Take(p, n) # Error /\ Take(p, n).value = x.prev /\ Take(p, n).next \in p..Len(raw)
          /\ Ahead(Take(p, n).next) = c
        BY <2>1, <2>2, TakeFollows
    <2> QED BY <2>3, <2>4 DEF c
<1> HIDE DEF prev
<1>5. Len(raw) \in Nat /\ p \in Nat
    BY LenProperties
<1>6. /\ script # Error /\ script.value = x.script_sig /\ script.next \in p..Len(raw)
      /\ Ahead(script.next) = Cat(u, r)
    <2> DEFINE f == prev.next  c == Cat(u, r)
    <2>1. f \in 0..Len(raw) /\ f \in p..Len(raw) /\ Ahead(f) = Cat(b, c) /\ c \in Seq(Octet)
        BY <1>3, <1>4, <1>5
    <2> HIDE DEF f, c
    <2>2. /\ VarBytes(f) # Error /\ VarBytes(f).value = x.script_sig
          /\ VarBytes(f).next \in f..Len(raw) /\ Ahead(VarBytes(f).next) = c
        BY <1>1, <2>1, VarBytesFollows
    <2>3. VarBytes(f).next \in p..Len(raw)
        BY <1>5, <2>1, <2>2
    <2> QED BY <2>2, <2>3 DEF f, c
<1> HIDE DEF script
<1>7. /\ sequence # Error /\ sequence.value[1] = x.sequence /\ sequence.next \in p..Len(raw)
      /\ Ahead(sequence.next) = r
    <2> DEFINE f == script.next
    <2>1. f \in 0..Len(raw) /\ f \in p..Len(raw) /\ Ahead(f) = Cat(<<x.sequence>>, r)
        BY <1>5, <1>6
    <2> HIDE DEF f
    <2>2. /\ Take(f, 1) # Error /\ Take(f, 1).value[1] = x.sequence
          /\ Take(f, 1).next \in f..Len(raw) /\ Ahead(Take(f, 1).next) = r
        BY <1>1, <2>1, ByteFollows
    <2>3. Take(f, 1).next \in p..Len(raw)
        BY <1>5, <2>1, <2>2
    <2> QED BY <2>2, <2>3 DEF f
<1> HIDE DEF sequence
<1>8. Input = [value |-> [prev |-> prev.value, script_sig |-> script.value,
                          sequence |-> sequence.value[1]],
               next  |-> sequence.next]
    BY <1>4, <1>6, <1>7 DEF Input, prev, script, sequence
<1>9. x = [prev |-> x.prev, script_sig |-> x.script_sig, sequence |-> x.sequence]
    BY DEF InputType
<1>10. Input = [value |-> x, next |-> sequence.next]
    BY <1>4, <1>6, <1>7, <1>8, <1>9
<1>11. [value |-> x, next |-> sequence.next] # Error
    <2>1. sequence.next \in Nat
        BY <1>5, <1>7
    <2> QED BY <2>1, ReadIsNoError
<1> QED BY <1>7, <1>10, <1>11

\* an output
LEMMA OutputFollows ==
    ASSUME raw \in Seq(Octet), Len(raw) <= MaxTxBytes, p \in 0..Len(raw),
           NEW x \in OutputType, NEW r \in Seq(Octet), Ahead(p) = Cat(WriteOutput(x), r)
    PROVE  /\ Output # Error /\ Output.value = x
           /\ Output.next \in p..Len(raw) /\ Ahead(Output.next) = r
<1> DEFINE b == WriteBytes(x.script_pubkey)  u == <<x.value_sat>>
           value == Take(p, 1)  script == VarBytes(value.next)
<1>1. /\ x.script_pubkey \in Seq(Octet) /\ x.value_sat \in Octet
      /\ u \in Seq(Octet) /\ b \in Seq(Octet)
    BY OutputIsWritten, BytesAreWritten
<1>2. WriteOutput(x) = Cat(u, b)
    BY DEF WriteOutput, Cat
<1>3. Ahead(p) = Cat(u, Cat(b, r)) /\ Cat(b, r) \in Seq(Octet)
    <2> HIDE DEF b, u
    <2> QED BY <1>1, <1>2, CatAssoc, CatIsBytes
<1>4. /\ value # Error /\ value.value[1] = x.value_sat /\ value.next \in p..Len(raw)
      /\ Ahead(value.next) = Cat(b, r)
    <2> HIDE DEF b
    <2> QED BY <1>1, <1>3, ByteFollows
<1> HIDE DEF value
<1>5. Len(raw) \in Nat /\ p \in Nat
    BY LenProperties
<1>6. /\ script # Error /\ script.value = x.script_pubkey /\ script.next \in p..Len(raw)
      /\ Ahead(script.next) = r
    <2> DEFINE f == value.next
    <2>1. f \in 0..Len(raw) /\ f \in p..Len(raw) /\ Ahead(f) = Cat(b, r)
        BY <1>4, <1>5
    <2> HIDE DEF f
    <2>2. /\ VarBytes(f) # Error /\ VarBytes(f).value = x.script_pubkey
          /\ VarBytes(f).next \in f..Len(raw) /\ Ahead(VarBytes(f).next) = r
        BY <1>1, <2>1, VarBytesFollows
    <2>3. VarBytes(f).next \in p..Len(raw)
        BY <1>5, <2>1, <2>2
    <2> QED BY <2>2, <2>3 DEF f
<1> HIDE DEF script
<1>7. Output = [value |-> [value_sat |-> value.value[1], script_pubkey |-> script.value],
                next  |-> script.next]
    BY <1>4, <1>6 DEF Output, value, script
<1>8. x = [value_sat |-> x.value_sat, script_pubkey |-> x.script_pubkey]
    BY DEF OutputType
<1>9. Output = [value |-> x, next |-> script.next]
    BY <1>4, <1>6, <1>7, <1>8
<1>10. [value |-> x, next |-> script.next] # Error
    <2>1. script.next \in Nat
        BY <1>5, <1>6
    <2> QED BY <2>1, ReadIsNoError
<1> QED BY <1>6, <1>9, <1>10

\* or a count.
LEMMA CountFollows ==
    ASSUME raw \in Seq(Octet), p \in 0..Len(raw),
           NEW n \in Countable, NEW allowed, n \in allowed,
           NEW r \in Seq(Octet), Ahead(p) = Cat(WriteVarint(n), r)
    PROVE  /\ Count(p, allowed) # Error /\ Count(p, allowed).value = n
           /\ Count(p, allowed).next \in p..Len(raw) /\ Ahead(Count(p, allowed).next) = r
<1> DEFINE v == Varint(p)
<1>1. v # Error /\ v.value = n /\ v.next \in p..Len(raw) /\ Ahead(v.next) = r
    BY VarintFollows
<1> HIDE DEF v
<1>2. Count(p, allowed) = v
    BY <1>1 DEF Count, v
<1> QED BY <1>1, <1>2

\* The element of a sequence that follows those it begins with
NextOf(q, s) == s[Len(q) + 1]

\* A beginning that is not all yet grows by what is next,
LEMMA BeginsGrows ==
    ASSUME NEW S, NEW q \in Seq(S), NEW s \in Seq(S), Begins(q, s), Len(q) < Len(s)
    PROVE  /\ NextOf(q, s) \in S
           /\ Append(q, NextOf(q, s)) \in Seq(S)
           /\ Len(Append(q, NextOf(q, s))) = Len(q) + 1
           /\ Begins(Append(q, NextOf(q, s)), s)
           /\ Len(q) + 1 = Len(s) => Append(q, NextOf(q, s)) = s
<1> DEFINE n == Len(q)  m == n + 1  y == NextOf(q, s)  t == Append(q, y)
<1>1. n \in Nat /\ Len(s) \in Nat /\ m \in 1..Len(s) /\ n < Len(s)
    BY LenProperties
<1>2. y = s[m]
    BY DEF NextOf
<1>3. y \in S
    BY <1>1, <1>2, ElementOfSeq
<1> HIDE DEF y
<1>4. t \in Seq(S) /\ Len(t) = m /\ t[m] = y /\ \A k \in 1..n : t[k] = q[k]
    BY <1>3, AppendProperties
<1> HIDE DEF t, n
<1>5. \A k \in 1..m : t[k] = s[k]
    <2>1. \A k \in 1..m : k \in 1..n \/ k = m
        BY <1>1
    <2>2. \A k \in 1..n : q[k] = s[k]
        BY DEF Begins, n
    <2> QED BY <1>2, <1>4, <2>1, <2>2
<1> HIDE DEF m
<1>6. Begins(t, s)
    BY <1>1, <1>4, <1>5 DEF Begins
<1>7. m = Len(s) => t = s
    BY <1>4, <1>5, SeqEqual
<1> QED BY <1>3, <1>4, <1>6, <1>7 DEF t, y, m, n

\* Sequences as long that begin with one another
LEMMA BeginsAll ==
    ASSUME NEW S, NEW q \in Seq(S), NEW s \in Seq(S), Begins(q, s), Len(q) = Len(s)
    PROVE  q = s
BY SeqEqual DEF Begins

\* which is what is written next.
LEMMA NextComes ==
    ASSUME NEW S, NEW write \in [S -> Seq(Octet)], NEW q \in Seq(S), NEW s \in Seq(S),
           Begins(q, s), Len(q) < Len(s)
    PROVE  Then(Each(write, s), Each(write, q), write[NextOf(q, s)])
<1> DEFINE n == Len(s)
<1>1. n \in Nat
    BY LenProperties
<1>2. Orderly(write, S, n)
    BY <1>1, EachInOrder
<1>3. NextOf(q, s) \in S
    BY BeginsGrows
<1>4. \A k \in 1..n : k = Len(q) + 1 => s[k] = NextOf(q, s)
    BY DEF NextOf
<1> QED BY <1>2, <1>3, <1>4 DEF Orderly

\* What writes the elements of a vector
InputWriter   == [x \in InputType |-> WriteInput(x)]
OutputWriter  == [x \in OutputType |-> WriteOutput(x)]
ItemWriter    == [x \in Seq(Octet) |-> WriteBytes(x)]
WitnessWriter == [x \in Stack |-> WriteWitness(x)]

\* What the writers write are bytes,
LEMMA Writers ==
    /\ InputWriter \in [InputType -> Seq(Octet)] /\ OutputWriter \in [OutputType -> Seq(Octet)]
    /\ ItemWriter \in [Seq(Octet) -> Seq(Octet)] /\ WitnessWriter \in [Stack -> Seq(Octet)]
    /\ \A x \in InputType : InputWriter[x] = WriteInput(x)
    /\ \A x \in OutputType : OutputWriter[x] = WriteOutput(x)
    /\ \A x \in Seq(Octet) : ItemWriter[x] = WriteBytes(x)
    /\ \A x \in Stack : WitnessWriter[x] = WriteWitness(x)
<1>1. InputWriter \in [InputType -> Seq(Octet)]
    BY InputIsWritten DEF InputWriter
<1>2. OutputWriter \in [OutputType -> Seq(Octet)]
    BY OutputIsWritten DEF OutputWriter
<1>3. ItemWriter \in [Seq(Octet) -> Seq(Octet)]
    BY BytesAreWritten DEF ItemWriter
<1>4. WitnessWriter \in [Stack -> Seq(Octet)]
    BY WitnessIsWritten DEF WitnessWriter
<1>5. /\ \A x \in InputType : InputWriter[x] = WriteInput(x)
      /\ \A x \in OutputType : OutputWriter[x] = WriteOutput(x)
      /\ \A x \in Seq(Octet) : ItemWriter[x] = WriteBytes(x)
      /\ \A x \in Stack : WitnessWriter[x] = WriteWitness(x)
    BY DEF InputWriter, OutputWriter, ItemWriter, WitnessWriter
<1> QED BY <1>1, <1>2, <1>3, <1>4, <1>5

\* and the parts of a transaction are what they write one by one.
LEMMA WrittenByEach ==
    /\ \A s \in Seq(InputType) : InputsOf(s) = Each(InputWriter, s)
    /\ \A s \in Seq(OutputType) : OutputsOf(s) = Each(OutputWriter, s)
    /\ \A s \in Stack : ItemsOf(s) = Each(ItemWriter, s)
    /\ \A s \in Seq(Stack) : WitnessesOf(s) = Each(WitnessWriter, s)
<1>1. ASSUME NEW s \in Seq(InputType) PROVE InputsOf(s) = Each(InputWriter, s)
    <2>1. \A k \in DOMAIN s : s[k] \in InputType
        BY LenProperties, ElementOfSeq
    <2> QED BY <2>1 DEF InputsOf, Each, InputWriter
<1>2. ASSUME NEW s \in Seq(OutputType) PROVE OutputsOf(s) = Each(OutputWriter, s)
    <2>1. \A k \in DOMAIN s : s[k] \in OutputType
        BY LenProperties, ElementOfSeq
    <2> QED BY <2>1 DEF OutputsOf, Each, OutputWriter
<1>3. ASSUME NEW s \in Seq(Seq(Octet)) PROVE ItemsOf(s) = Each(ItemWriter, s)
    <2> DEFINE S == Seq(Octet)
    <2>1. \A k \in DOMAIN s : s[k] \in S
        <3> HIDE DEF S
        <3>1. s \in Seq(S)
            BY DEF S
        <3> QED BY <3>1, LenProperties, ElementOfSeq
    <2> QED BY <2>1 DEF ItemsOf, Each, ItemWriter
<1>4. ASSUME NEW s \in Seq(Stack) PROVE WitnessesOf(s) = Each(WitnessWriter, s)
    <2>1. \A k \in DOMAIN s : s[k] \in Stack
        BY LenProperties, ElementOfSeq
    <2> QED BY <2>1 DEF WitnessesOf, Each, WitnessWriter
<1> QED BY <1>1, <1>2, <1>3, <1>4 DEF Stack

\* The next input, output, item or witness is written behind those before it.
LEMMA NextIsWritten ==
    /\ \A q, s \in Seq(InputType) : Begins(q, s) /\ Len(q) < Len(s) =>
           Then(InputsOf(s), InputsOf(q), WriteInput(NextOf(q, s)))
    /\ \A q, s \in Seq(OutputType) : Begins(q, s) /\ Len(q) < Len(s) =>
           Then(OutputsOf(s), OutputsOf(q), WriteOutput(NextOf(q, s)))
    /\ \A q, s \in Stack : Begins(q, s) /\ Len(q) < Len(s) =>
           Then(ItemsOf(s), ItemsOf(q), WriteBytes(NextOf(q, s)))
    /\ \A q, s \in Seq(Stack) : Begins(q, s) /\ Len(q) < Len(s) =>
           Then(WitnessesOf(s), WitnessesOf(q), WriteWitness(NextOf(q, s)))
<1>1. ASSUME NEW q \in Seq(InputType), NEW s \in Seq(InputType), Begins(q, s), Len(q) < Len(s)
      PROVE  Then(InputsOf(s), InputsOf(q), WriteInput(NextOf(q, s)))
    <2>1. NextOf(q, s) \in InputType
        BY <1>1, BeginsGrows
    <2>2. Then(Each(InputWriter, s), Each(InputWriter, q), InputWriter[NextOf(q, s)])
        BY <1>1, Writers, NextComes
    <2> QED BY <2>1, <2>2, Writers, WrittenByEach
<1>2. ASSUME NEW q \in Seq(OutputType), NEW s \in Seq(OutputType), Begins(q, s), Len(q) < Len(s)
      PROVE  Then(OutputsOf(s), OutputsOf(q), WriteOutput(NextOf(q, s)))
    <2>1. NextOf(q, s) \in OutputType
        BY <1>2, BeginsGrows
    <2>2. Then(Each(OutputWriter, s), Each(OutputWriter, q), OutputWriter[NextOf(q, s)])
        BY <1>2, Writers, NextComes
    <2> QED BY <2>1, <2>2, Writers, WrittenByEach
<1>3. ASSUME NEW q \in Stack, NEW s \in Stack, Begins(q, s), Len(q) < Len(s)
      PROVE  Then(ItemsOf(s), ItemsOf(q), WriteBytes(NextOf(q, s)))
    <2> DEFINE S == Seq(Octet)
    <2>1. q \in Seq(S) /\ s \in Seq(S) /\ ItemWriter \in [S -> Seq(Octet)]
        BY Writers DEF Stack
    <2> HIDE DEF S
    <2>2. NextOf(q, s) \in S
        BY <1>3, <2>1, BeginsGrows
    <2>3. Then(Each(ItemWriter, s), Each(ItemWriter, q), ItemWriter[NextOf(q, s)])
        BY <1>3, <2>1, NextComes
    <2> QED BY <2>2, <2>3, Writers, WrittenByEach DEF S
<1>4. ASSUME NEW q \in Seq(Stack), NEW s \in Seq(Stack), Begins(q, s), Len(q) < Len(s)
      PROVE  Then(WitnessesOf(s), WitnessesOf(q), WriteWitness(NextOf(q, s)))
    <2>1. NextOf(q, s) \in Stack
        BY <1>4, BeginsGrows
    <2>2. Then(Each(WitnessWriter, s), Each(WitnessWriter, q), WitnessWriter[NextOf(q, s)])
        BY <1>4, Writers, NextComes
    <2> QED BY <2>1, <2>2, Writers, WrittenByEach
<1> QED BY <1>1, <1>2, <1>3, <1>4

\* What is written before both moves them together,
LEMMA ThenBehind ==
    \A a, b, h, w \in Seq(Octet) : Then(w, a, b) => Then(Cat(h, w), Cat(h, a), b)
<1>1. SUFFICES ASSUME NEW a \in Seq(Octet), NEW b \in Seq(Octet), NEW h \in Seq(Octet),
                      NEW w \in Seq(Octet), Then(w, a, b)
               PROVE  Then(Cat(h, w), Cat(h, a), b)
    OBVIOUS
<1>2. Then(Cat(h, w), h, w)
    BY ThenEnds
<1>3. Cat(h, w) \in Seq(Octet)
    BY CatIsBytes
<1> QED BY <1>1, <1>2, <1>3, ThenWithin

\* and nothing needs to come before.
LEMMA ThenFirst ==
    \A a, b \in Seq(Octet) : Then(Cat(a, b), <<>>, a)
<1> SUFFICES ASSUME NEW a \in Seq(Octet), NEW b \in Seq(Octet) PROVE Then(Cat(a, b), <<>>, a)
    OBVIOUS
<1>1. Cat(a, b) \in Seq(Octet)
    BY CatIsBytes
<1>2. Cat(<<>>, Cat(a, b)) = Cat(a, b)
    BY <1>1, CatEmpty
<1> QED BY <1>2 DEF Then

\* Where the parts of a transaction are found in it
LEMMA WhereParts ==
    ASSUME NEW t \in Transaction
    PROVE  /\ \A a, b \in Seq(Octet) : Then(Opening(t), a, b) => Then(WireSerialize(t), a, b)
           /\ \A a, b \in Seq(Octet) :
                 Then(WriteInputs(t), a, b) => Then(WireSerialize(t), Cat(Opening(t), a), b)
           /\ \A a, b \in Seq(Octet) :
                 Then(WriteOutputs(t), a, b) =>
                     Then(WireSerialize(t), Cat(Cat(Opening(t), WriteInputs(t)), a), b)
           /\ t.witnesses # Absent => \A a, b \in Seq(Octet) :
                 Then(WitnessesOf(t.witnesses), a, b) =>
                     Then(WireSerialize(t), Cat(Outs(t), a), b)
           /\ WireSerialize(t) = Cat(Body(t), <<t.lock_time>>)
<1> DEFINE ow == Opening(t)  i == WriteInputs(t)  u == WriteOutputs(t)
           w == WitnessesOf(t.witnesses)  z == <<t.lock_time>>  outs == Outs(t)  body == Body(t)
           wire == WireSerialize(t)
<1>1. /\ ow \in Seq(Octet) /\ i \in Seq(Octet) /\ u \in Seq(Octet)
      /\ Cat(ow, i) \in Seq(Octet) /\ outs \in Seq(Octet) /\ body \in Seq(Octet)
    BY PartsAreBytes DEF Cat
<1>2. outs = Cat(Cat(ow, i), u)
    BY DEF Outs, Cat
<1>3. /\ wire = Cat(body, z) /\ z \in Seq(Octet)
      /\ t.witnesses = Absent => body = outs
      /\ t.witnesses # Absent => body = Cat(outs, w) /\ w \in Seq(Octet)
    <2>1. z \in Seq(Octet)
        BY Parts
    <2>2. wire = Cat(body, z)
        BY WireIsBody DEF Cat
    <2>3. t.witnesses # Absent => w \in Seq(Octet)
        BY Parts, NoneIsAbsent, WitnessesGrow
    <2> QED BY <2>1, <2>2, <2>3 DEF Body, Cat
<1> HIDE DEF ow, i, u, w, z, outs, body, wire
<1>4. ASSUME NEW a \in Seq(Octet), NEW b \in Seq(Octet), Then(body, a, b) PROVE Then(wire, a, b)
    BY <1>1, <1>3, <1>4, ThenGoesOn
<1>5. ASSUME NEW a \in Seq(Octet), NEW b \in Seq(Octet), Then(outs, a, b) PROVE Then(wire, a, b)
    <2>1. Then(body, a, b)
        BY <1>1, <1>3, <1>5, ThenGoesOn
    <2> QED BY <1>4, <2>1
<1>6. ASSUME NEW a \in Seq(Octet), NEW b \in Seq(Octet), Then(Cat(ow, i), a, b)
      PROVE  Then(wire, a, b)
    <2>1. Then(outs, a, b)
        BY <1>1, <1>2, <1>6, ThenGoesOn
    <2> QED BY <1>5, <2>1
<1>7. ASSUME NEW a \in Seq(Octet), NEW b \in Seq(Octet), Then(ow, a, b) PROVE Then(wire, a, b)
    <2>1. Then(Cat(ow, i), a, b)
        BY <1>1, <1>7, ThenGoesOn
    <2> QED BY <1>6, <2>1
<1>8. ASSUME NEW a \in Seq(Octet), NEW b \in Seq(Octet), Then(i, a, b)
      PROVE  Then(wire, Cat(ow, a), b)
    <2>1. Then(Cat(ow, i), Cat(ow, a), b) /\ Cat(ow, a) \in Seq(Octet)
        BY <1>1, <1>8, ThenBehind, CatIsBytes
    <2> QED BY <1>6, <2>1
<1>9. ASSUME NEW a \in Seq(Octet), NEW b \in Seq(Octet), Then(u, a, b)
      PROVE  Then(wire, Cat(Cat(ow, i), a), b)
    <2> DEFINE h == Cat(ow, i)
    <2>1. h \in Seq(Octet) /\ outs = Cat(h, u)
        BY <1>1, <1>2
    <2> HIDE DEF h
    <2>2. Then(Cat(h, u), Cat(h, a), b) /\ Cat(h, a) \in Seq(Octet)
        BY <1>1, <1>9, <2>1, ThenBehind, CatIsBytes
    <2>3. Then(wire, Cat(h, a), b)
        BY <1>5, <2>1, <2>2
    <2> QED BY <2>3 DEF h
<1>10. ASSUME t.witnesses # Absent, NEW a \in Seq(Octet), NEW b \in Seq(Octet), Then(w, a, b)
       PROVE  Then(wire, Cat(outs, a), b)
    <2>1. Then(Cat(outs, w), Cat(outs, a), b) /\ Cat(outs, a) \in Seq(Octet)
        BY <1>1, <1>3, <1>10, ThenBehind, CatIsBytes
    <2> QED BY <1>3, <1>4, <1>10, <2>1
<1> QED BY <1>3, <1>7, <1>8, <1>9, <1>10 DEF ow, i, u, w, z, outs, body, wire

\* What the parser reads from what would be written for t, place by place
LEMMA InputsPlaced ==
    ASSUME NEW t \in Transaction, NEW q \in Seq(InputType), Begins(q, t.inputs)
    PROVE  /\ Then(WireSerialize(t), Opening(t), WriteVarint(Len(t.inputs)))
           /\ Len(q) < Len(t.inputs) =>
                 Then(WireSerialize(t),
                      Cat(Opening(t), Cat(WriteVarint(Len(t.inputs)), InputsOf(q))),
                      WriteInput(NextOf(q, t.inputs)))
<1> DEFINE v == WriteVarint(Len(t.inputs))  i == InputsOf(t.inputs)  j == InputsOf(q)
           x == NextOf(q, t.inputs)  b == WriteInput(x)
<1>1. t.inputs \in Seq(InputType) /\ t.outputs \in Seq(OutputType) /\ Len(t.inputs) \in Nat
    BY Parts
<1>2. v \in Seq(Octet) /\ i \in Seq(Octet) /\ j \in Seq(Octet) /\ Opening(t) \in Seq(Octet)
    BY <1>1, VarintIsBytes, InputsAreBytes, PartsAreBytes
<1>3. WriteInputs(t) = Cat(v, i)
    BY <1>1, VectorsAreWritten DEF Cat
<1>4. Then(WireSerialize(t), Opening(t), v)
    <2> HIDE DEF v, i
    <2>1. Then(Cat(v, i), <<>>, v) /\ <<>> \in Seq(Octet)
        BY <1>2, ThenFirst, EmptySeq
    <2>2. Then(WireSerialize(t), Cat(Opening(t), <<>>), v)
        BY <1>2, <1>3, <2>1, WhereParts
    <2> QED BY <1>2, <2>2, CatEmpty
<1>5. ASSUME Len(q) < Len(t.inputs) PROVE Then(WireSerialize(t), Cat(Opening(t), Cat(v, j)), b)
    <2>1. b \in Seq(Octet)
        <3>1. x \in InputType
            BY <1>1, <1>5, BeginsGrows
        <3> QED BY <3>1, InputIsWritten
    <2>2. Then(i, j, b)
        BY <1>1, <1>5, NextIsWritten
    <2> HIDE DEF v, i, j, b
    <2>3. Then(Cat(v, i), Cat(v, j), b) /\ Cat(v, j) \in Seq(Octet)
        BY <1>2, <2>1, <2>2, ThenBehind, CatIsBytes
    <2> QED BY <1>3, <2>1, <2>3, WhereParts
<1> QED BY <1>4, <1>5

\* the outputs behind their count,
LEMMA OutputsPlaced ==
    ASSUME NEW t \in Transaction, NEW q \in Seq(OutputType), Begins(q, t.outputs)
    PROVE  /\ Then(WireSerialize(t), Cat(Opening(t), WriteInputs(t)),
                   WriteVarint(Len(t.outputs)))
           /\ Len(q) < Len(t.outputs) =>
                 Then(WireSerialize(t),
                      Cat(Cat(Opening(t), WriteInputs(t)),
                          Cat(WriteVarint(Len(t.outputs)), OutputsOf(q))),
                      WriteOutput(NextOf(q, t.outputs)))
<1> DEFINE v == WriteVarint(Len(t.outputs))  i == OutputsOf(t.outputs)  j == OutputsOf(q)
           x == NextOf(q, t.outputs)  b == WriteOutput(x)  ow == Cat(Opening(t), WriteInputs(t))
<1>1. t.inputs \in Seq(InputType) /\ t.outputs \in Seq(OutputType) /\ Len(t.outputs) \in Nat
    BY Parts
<1>2. v \in Seq(Octet) /\ i \in Seq(Octet) /\ j \in Seq(Octet) /\ ow \in Seq(Octet)
    BY <1>1, VarintIsBytes, OutputsAreBytes, PartsAreBytes DEF Cat
<1>3. WriteOutputs(t) = Cat(v, i)
    BY <1>1, VectorsAreWritten DEF Cat
<1>6. \A a, c \in Seq(Octet) :
          Then(WriteOutputs(t), a, c) => Then(WireSerialize(t), Cat(ow, a), c)
    BY WhereParts
<1> HIDE DEF ow
<1>4. Then(WireSerialize(t), ow, v)
    <2> HIDE DEF v, i
    <2>1. Then(Cat(v, i), <<>>, v) /\ <<>> \in Seq(Octet)
        BY <1>2, ThenFirst, EmptySeq
    <2>2. Then(WireSerialize(t), Cat(ow, <<>>), v)
        BY <1>2, <1>3, <1>6, <2>1
    <2> QED BY <1>2, <2>2, CatEmpty
<1>5. ASSUME Len(q) < Len(t.outputs) PROVE Then(WireSerialize(t), Cat(ow, Cat(v, j)), b)
    <2>1. b \in Seq(Octet)
        <3>1. x \in OutputType
            BY <1>1, <1>5, BeginsGrows
        <3> QED BY <3>1, OutputIsWritten
    <2>2. Then(i, j, b)
        BY <1>1, <1>5, NextIsWritten
    <2> HIDE DEF v, i, j, b
    <2>3. Then(Cat(v, i), Cat(v, j), b) /\ Cat(v, j) \in Seq(Octet)
        BY <1>2, <2>1, <2>2, ThenBehind, CatIsBytes
    <2> QED BY <1>3, <1>6, <2>1, <2>3
<1> QED BY <1>4, <1>5 DEF ow

\* and the items of every stack behind theirs.
LEMMA WitnessesPlaced ==
    ASSUME NEW t \in Transaction, t.witnesses # Absent, NEW q \in Seq(Stack),
           Begins(q, t.witnesses), Len(q) < Len(t.witnesses),
           NEW s \in Stack, Begins(s, NextOf(q, t.witnesses))
    PROVE  /\ Then(WireSerialize(t), Cat(Outs(t), WitnessesOf(q)),
                   WriteVarint(Len(NextOf(q, t.witnesses))))
           /\ Len(s) < Len(NextOf(q, t.witnesses)) =>
                 Then(WireSerialize(t),
                      Cat(Cat(Outs(t), WitnessesOf(q)),
                          Cat(WriteVarint(Len(NextOf(q, t.witnesses))), ItemsOf(s))),
                      WriteBytes(NextOf(s, NextOf(q, t.witnesses))))
<1> DEFINE w == NextOf(q, t.witnesses)  v == WriteVarint(Len(w))  i == ItemsOf(w)
           j == ItemsOf(s)  x == NextOf(s, w)  b == WriteBytes(x)  ow == Outs(t)
           h == WitnessesOf(q)  all == WitnessesOf(t.witnesses)  k == WriteWitness(w)
<1>1. t.witnesses \in Seq(Stack)
    BY Parts
<1>2. w \in Stack
    BY <1>1, BeginsGrows
<1>3. Len(w) \in Nat /\ k = Cat(v, i) /\ k \in Seq(Octet)
    <2> HIDE DEF w
    <2> QED BY <1>2, WitnessIsWritten DEF Cat
<1>4. /\ v \in Seq(Octet) /\ i \in Seq(Octet) /\ j \in Seq(Octet) /\ ow \in Seq(Octet)
      /\ h \in Seq(Octet) /\ all \in Seq(Octet)
    <2>1. v \in Seq(Octet)
        BY <1>3, VarintIsBytes
    <2>2. i \in Seq(Octet) /\ j \in Seq(Octet)
        BY <1>2, EmptySeq, ItemsGrow
    <2>3. h \in Seq(Octet) /\ all \in Seq(Octet)
        BY <1>1, NoneIsAbsent, WitnessesGrow
    <2>4. ow \in Seq(Octet)
        BY PartsAreBytes
    <2> QED BY <2>1, <2>2, <2>3, <2>4
<1>5. Then(all, h, k)
    BY <1>1, NextIsWritten
<1>6. \A a, c \in Seq(Octet) : Then(all, a, c) => Then(WireSerialize(t), Cat(ow, a), c)
    BY WhereParts
<1>7. Len(s) < Len(w) => Then(i, j, b) /\ b \in Seq(Octet)
    <2> HIDE DEF w
    <2>1. ASSUME Len(s) < Len(w) PROVE Then(i, j, b)
        BY <1>2, <2>1, NextIsWritten DEF w
    <2>2. ASSUME Len(s) < Len(w) PROVE b \in Seq(Octet)
        <3> DEFINE S == Seq(Octet)
        <3>1. s \in Seq(S) /\ w \in Seq(S) /\ Begins(s, w)
            BY <1>2 DEF Stack, w
        <3> HIDE DEF S
        <3>2. x \in S
            BY <2>2, <3>1, BeginsGrows
        <3> QED BY <3>2, BytesAreWritten DEF S
    <2> QED BY <2>1, <2>2
<1> HIDE DEF w, v, i, j, x, b, ow, h, all, k
<1>8. Then(all, h, v)
    <2>1. Then(k, <<>>, v) /\ <<>> \in Seq(Octet)
        BY <1>3, <1>4, ThenFirst, EmptySeq
    <2>2. Then(all, Cat(h, <<>>), v)
        BY <1>3, <1>4, <1>5, <2>1, ThenWithin
    <2> QED BY <1>4, <2>2, CatEmpty
<1>9. Then(WireSerialize(t), Cat(ow, h), v)
    BY <1>4, <1>6, <1>8
<1>10. ASSUME Len(s) < Len(w)
       PROVE  Then(WireSerialize(t), Cat(Cat(ow, h), Cat(v, j)), b)
    <2>1. b \in Seq(Octet) /\ Then(k, Cat(v, j), b) /\ Cat(v, j) \in Seq(Octet)
        BY <1>3, <1>4, <1>7, <1>10, ThenBehind, CatIsBytes
    <2>2. Then(all, Cat(h, Cat(v, j)), b) /\ Cat(h, Cat(v, j)) \in Seq(Octet)
        BY <1>3, <1>4, <1>5, <2>1, ThenWithin, CatIsBytes
    <2>3. Then(WireSerialize(t), Cat(ow, Cat(h, Cat(v, j))), b)
        BY <1>6, <2>1, <2>2
    <2>4. Cat(ow, Cat(h, Cat(v, j))) = Cat(Cat(ow, h), Cat(v, j))
        BY <1>4, <2>1, CatAssoc
    <2> QED BY <2>3, <2>4
<1> QED BY <1>9, <1>10 DEF w, v, j, x, b, ow, h

\* What has been read of t, when the parser stands at the place and its loop
\* has n turns left
Follows(place, x, n, s, t) ==
    /\ place # "rejected"
    /\ place # "version" => x.version = t.version
    /\ place \notin Early => (x.witnesses = Absent <=> t.witnesses = Absent)
    /\ Begins(x.inputs, t.inputs) /\ Begins(x.outputs, t.outputs)
    /\ place = "input" => Len(x.inputs) + n = Len(t.inputs)
    /\ place \in {"out_count", "output", "items", "item"} \cup Late => x.inputs = t.inputs
    /\ place = "output" => Len(x.outputs) + n = Len(t.outputs)
    /\ place \in {"items", "item"} \cup Late => x.outputs = t.outputs
    /\ place \in {"items", "item"} => Begins(x.witnesses, t.witnesses)
    /\ place = "item" =>
          /\ Begins(s, NextOf(x.witnesses, t.witnesses))
          /\ Len(s) + n = Len(NextOf(x.witnesses, t.witnesses))
    /\ place \in Late => x.witnesses = t.witnesses
    /\ place \in {"parsed", "accepted", "mismatch"} => x = t

Retracing(t) ==
    IInv /\ Valid(t) /\ raw = WireSerialize(t) /\ Follows(at, tx, left, stack, t)

\* What such a state has, in one place
LEMMA RetracingIs ==
    ASSUME NEW t, Retracing(t)
    PROVE  /\ raw \in Seq(Octet) /\ p \in 0..Len(raw) /\ Len(raw) <= MaxTxBytes /\ left \in Nat
           /\ tx \in Transaction /\ stack \in Stack /\ t \in Transaction
           /\ Filled(at, tx, left, stack) /\ Follows(at, tx, left, stack, t)
           /\ Len(t.inputs) \in 1..MaxInputs /\ Len(t.outputs) \in 1..MaxOutputs
           /\ Len(t.inputs) \in Countable /\ Len(t.outputs) \in Countable
           /\ t.witnesses # Absent =>
                 /\ Len(t.witnesses) = Len(t.inputs)
                 /\ \E k \in DOMAIN t.witnesses : t.witnesses[k] # <<>>
                 /\ \A k \in DOMAIN t.witnesses : Len(t.witnesses[k]) <= MaxWitnessItems
           /\ raw = WireSerialize(t) /\ at # "rejected"
           /\ Span(0, p) = Written(at, tx, left, stack)
<1>1. IInv /\ Valid(t) /\ raw = WireSerialize(t) /\ Follows(at, tx, left, stack, t)
    BY DEF Retracing
<1>2. /\ raw \in Seq(Octet) /\ p \in 0..Len(raw) /\ left \in Nat
      /\ tx \in Transaction /\ stack \in Stack /\ Filled(at, tx, left, stack)
      /\ (at # "rejected" => Span(0, p) = Written(at, tx, left, stack))
    BY <1>1 DEF IInv
<1>3. at # "rejected"
    BY <1>1 DEF Follows
<1>4. /\ t \in Transaction /\ Len(WireSerialize(t)) <= MaxTxBytes
      /\ Len(t.inputs) \in 1..MaxInputs /\ Len(t.outputs) \in 1..MaxOutputs
      /\ t.witnesses # Absent =>
            /\ Len(t.witnesses) = Len(t.inputs)
            /\ \E k \in DOMAIN t.witnesses : t.witnesses[k] # <<>>
            /\ \A k \in DOMAIN t.witnesses : Len(t.witnesses[k]) <= MaxWitnessItems
    BY <1>1 DEF Valid
<1>5. HeldTransaction(t)
    BY <1>4, WithinLimitsIsHeld
<1>6. Len(t.inputs) \in Countable /\ Len(t.outputs) \in Countable
    BY <1>5 DEF HeldTransaction
<1> QED BY <1>1, <1>2, <1>3, <1>4, <1>6

\* What would be written next is what comes next.
LEMMA Present ==
    ASSUME raw \in Seq(Octet), p \in 0..Len(raw), NEW b \in Seq(Octet),
           Then(raw, Span(0, p), b)
    PROVE  \E r \in Seq(Octet) : Ahead(p) = Cat(b, r)
<1> DEFINE a == Span(0, p)  c == Ahead(p)
<1>1. Len(raw) \in Nat /\ 0 \in 0..Len(raw)
    BY LenProperties
<1>2. Ahead(0) = Cat(a, c) /\ a \in Seq(Octet)
    BY <1>1, AheadJoins
<1>3. Ahead(0) = raw
    BY SubSeqFull DEF Ahead, Span
<1>4. c \in Seq(Octet)
    BY AheadIsBytes
<1>5. PICK r \in Seq(Octet) : raw = Cat(a, Cat(b, r))
    BY DEF Then
<1>6. Cat(b, r) \in Seq(Octet)
    BY CatIsBytes
<1> HIDE DEF a, c
<1>7. c = Cat(b, r)
    <2> DEFINE d == Cat(b, r)
    <2>1. d \in Seq(Octet) /\ Cat(a, c) = Cat(a, d)
        BY <1>2, <1>3, <1>5, <1>6
    <2> HIDE DEF d
    <2>2. c = d
        BY <1>2, <1>4, <2>1, CatCut
    <2> QED BY <2>2 DEF d
<1> QED BY <1>7 DEF c

\* The first byte of a transaction
LEMMA OpeningBegins ==
    ASSUME NEW t \in Transaction
    PROVE  /\ <<t.version>> \in Seq(Octet) /\ Then(WireSerialize(t), <<>>, <<t.version>>)
           /\ t.witnesses # Absent => Then(WireSerialize(t), <<t.version>>, <<0, 1>>)
           /\ t.witnesses = Absent => Opening(t) = <<t.version>>
<1> DEFINE v == <<t.version>>  m == <<0, 1>>
<1>1. v \in Seq(Octet) /\ m \in Seq(Octet) /\ <<>> \in Seq(Octet)
    <2>1. t.version \in Octet /\ 0 \in Octet /\ 1 \in Octet
        BY Parts, Forms DEF Octet
    <2> QED BY <2>1
<1>2. t.witnesses = Absent => Opening(t) = v
    BY DEF Opening
<1>3. t.witnesses # Absent => Opening(t) = Cat(v, m)
    BY Tuples DEF Opening, Cat
<1> HIDE DEF v, m
<1>4. Then(Opening(t), <<>>, v)
    <2>1. CASE t.witnesses = Absent
        <3>1. Then(Cat(v, <<>>), <<>>, v)
            BY <1>1, ThenFirst
        <3> QED BY <1>1, <1>2, <2>1, <3>1, CatEmpty
    <2>2. CASE t.witnesses # Absent
        BY <1>1, <1>3, <2>2, ThenFirst
    <2> QED BY <2>1, <2>2
<1>5. t.witnesses # Absent => Then(Opening(t), v, m)
    BY <1>1, <1>3, ThenEnds
<1>6. Then(WireSerialize(t), <<>>, v)
    BY <1>1, <1>4, WhereParts
<1>7. t.witnesses # Absent => Then(WireSerialize(t), v, m)
    BY <1>1, <1>5, WhereParts
<1> QED BY <1>1, <1>2, <1>6, <1>7 DEF v, m

\* One lemma per step, for a parse that retraces the transaction t: the version
LEMMA VersionFollows ==
    ASSUME NEW t, Retracing(t), ReadVersion PROVE Follows(at, tx, left, stack, t)'
<1> DEFINE version == IF Len(raw) > MaxTxBytes THEN Error ELSE Take(0, 1)
<1>1. /\ raw \in Seq(Octet) /\ p \in 0..Len(raw) /\ Len(raw) <= MaxTxBytes
      /\ tx \in Transaction /\ t \in Transaction /\ raw = WireSerialize(t)
      /\ Follows(at, tx, left, stack, t) /\ at = "version"
    BY RetracingIs DEF ReadVersion
<1>2. Len(raw) \in Nat /\ 0 \in 0..Len(raw) /\ MaxTxBytes \in Nat
    BY <1>1, LenProperties, LimitsAssumption
<1>3. t.version \in Octet
    BY <1>1, Parts
<1>4. PICK r \in Seq(Octet) : raw = Cat(<<t.version>>, r)
    <2> DEFINE b == <<t.version>>
    <2>1. b \in Seq(Octet) /\ Then(raw, <<>>, b)
        BY <1>1, OpeningBegins
    <2> HIDE DEF b
    <2>2. PICK r \in Seq(Octet) : raw = Cat(<<>>, Cat(b, r))
        BY <2>1 DEF Then
    <2>3. Cat(b, r) \in Seq(Octet)
        BY <2>1, CatIsBytes
    <2>4. Cat(<<>>, Cat(b, r)) = Cat(b, r)
        BY <2>3, CatEmpty
    <2> QED BY <2>2, <2>4 DEF b
<1>5. Ahead(0) = raw
    BY <1>1, SubSeqFull DEF Ahead, Span
<1>6. Take(0, 1) # Error /\ Take(0, 1).value[1] = t.version
    <2> DEFINE f == 0
    <2>1. f \in 0..Len(raw) /\ Ahead(f) = Cat(<<t.version>>, r)
        BY <1>2, <1>4, <1>5
    <2> HIDE DEF f
    <2>2. Take(f, 1) # Error /\ Take(f, 1).value[1] = t.version
        BY <1>1, <1>3, <2>1, ByteFollows
    <2> QED BY <2>2 DEF f
<1>7. version = Take(0, 1)
    BY <1>1, <1>2
<1>8. /\ tx' = [tx EXCEPT !.version = t.version] /\ at' = "marker"
    <2>1. version # Error /\ version.value[1] = t.version
        BY <1>6, <1>7
    <2>2. Reading(version, /\ tx' = [tx EXCEPT !.version = version.value[1]]
                            /\ at' = "marker"
                            /\ UNCHANGED <<left, stack>>)
        BY DEF ReadVersion
    <2> HIDE DEF version
    <2> QED BY <2>1, <2>2 DEF Reading
<1>9. /\ tx'.version = t.version /\ tx'.inputs = tx.inputs /\ tx'.outputs = tx.outputs
    BY <1>1, <1>8 DEF Transaction
<1> QED BY <1>1, <1>8, <1>9 DEF Follows, Early, Late

\* The marker is taken for one only where the transaction has a witness.
LEMMA MarkerFollows ==
    ASSUME NEW t, Retracing(t), ReadMarker PROVE Follows(at, tx, left, stack, t)'
<1>1. /\ raw \in Seq(Octet) /\ p \in 0..Len(raw)
      /\ tx \in Transaction /\ t \in Transaction /\ raw = WireSerialize(t)
      /\ Follows(at, tx, left, stack, t) /\ Filled(at, tx, left, stack) /\ at = "marker"
      /\ Len(t.inputs) \in 1..MaxInputs /\ Len(t.inputs) \in Countable
      /\ Span(0, p) = Written(at, tx, left, stack)
    BY RetracingIs DEF ReadMarker
<1>2. Len(raw) \in Nat /\ p \in Nat
    BY <1>1, LenProperties
<1>3. tx.version = t.version /\ tx.witnesses = Absent
    BY <1>1 DEF Follows, Filled, Early
<1>4. Span(0, p) = <<t.version>>
    BY <1>1, <1>3, Rows
<1>5. CASE t.witnesses = Absent
    <2> DEFINE n == Len(t.inputs)  b == WriteVarint(n)
    <2>1. n \in Nat /\ n >= 1
        BY <1>1, SumOfDigits
    <2>2. b \in Seq(Octet) /\ Len(b) = Length(n) /\ b[1] = First(n) /\ Length(n) \in 1..4
        BY <2>1, VarintShape, VarintTuples
    <2>3. First(n) # 0
        BY <2>1, Forms DEF First
    <2>4. Then(raw, Span(0, p), b)
        <3>1. Begins(<<>>, t.inputs) /\ <<>> \in Seq(InputType)
            BY <1>1, Parts, EmptySeq, NoneIsAbsent DEF Begins
        <3> QED BY <1>1, <1>4, <1>5, <3>1, InputsPlaced, OpeningBegins
    <2> HIDE DEF b, n
    <2>5. Comes(b, p)
        BY <1>1, <2>2, <2>4, Present DEF Comes
    <2>6. Remaining > 0 /\ raw[p + 1] # 0
        <3>1. p + Len(b) \in p..Len(raw) /\ \A k \in 1..Len(b) : raw[p + k] = b[k]
            BY <1>1, <2>2, <2>5, ComesThere
        <3>2. 1 \in 1..Len(b)
            BY <2>2
        <3>3. raw[p + 1] # 0
            BY <2>2, <2>3, <3>1, <3>2
        <3>4. Remaining > 0
            BY <1>2, <2>2, <3>1 DEF Remaining
        <3> QED BY <3>3, <3>4
    <2>7. at' = "in_count" /\ tx' = tx
        BY <2>6 DEF ReadMarker
    <2> QED BY <1>1, <1>3, <1>5, <2>7 DEF Follows, Early, Late
<1>6. CASE t.witnesses # Absent
    <2> DEFINE b == <<0, 1>>
    <2>1. b \in Seq(Octet) /\ Len(b) = 2 /\ b[1] = 0 /\ b[2] = 1
        BY Forms DEF Octet
    <2>2. Then(raw, Span(0, p), b)
        BY <1>1, <1>4, <1>6, OpeningBegins
    <2> HIDE DEF b
    <2>3. Comes(b, p)
        BY <1>1, <2>1, <2>2, Present DEF Comes
    <2>4. Remaining > 1 /\ raw[p + 1] = 0 /\ raw[p + 2] = 1
        <3>1. p + Len(b) \in p..Len(raw) /\ \A k \in 1..Len(b) : raw[p + k] = b[k]
            BY <1>1, <2>1, <2>3, ComesThere
        <3>2. 1 \in 1..Len(b) /\ 2 \in 1..Len(b)
            BY <2>1
        <3>3. raw[p + 1] = 0 /\ raw[p + 2] = 1
            BY <2>1, <3>1, <3>2
        <3>4. Remaining > 1
            BY <1>2, <2>1, <3>1 DEF Remaining
        <3> QED BY <3>3, <3>4
    <2>5. at' = "in_count" /\ tx' = [tx EXCEPT !.witnesses = <<>>]
        BY <1>2, <2>4 DEF ReadMarker, Remaining
    <2>6. /\ tx'.version = tx.version /\ tx'.inputs = tx.inputs /\ tx'.outputs = tx.outputs
          /\ tx'.witnesses # Absent
        BY <1>1, <2>5, NoneIsAbsent DEF Transaction
    <2> QED BY <1>1, <1>3, <1>6, <2>5, <2>6 DEF Follows, Early, Late
<1> QED BY <1>5, <1>6

\* Transactions of the same version, both with witnesses or both without
LEMMA SameOpening ==
    ASSUME NEW t, NEW u, t.version = u.version, t.witnesses = Absent <=> u.witnesses = Absent
    PROVE  Opening(t) = Opening(u)
BY DEF Opening

\* The inputs counted are as many as t has,
LEMMA CountInputsFollows ==
    ASSUME NEW t, Retracing(t), CountInputs PROVE Follows(at, tx, left, stack, t)'
<1> DEFINE n == Len(t.inputs)  b == WriteVarint(n)
<1>1. /\ raw \in Seq(Octet) /\ p \in 0..Len(raw)
      /\ tx \in Transaction /\ t \in Transaction /\ raw = WireSerialize(t)
      /\ Follows(at, tx, left, stack, t) /\ Filled(at, tx, left, stack) /\ at = "in_count"
      /\ n \in 1..MaxInputs /\ n \in Countable
      /\ Span(0, p) = Written(at, tx, left, stack)
    BY RetracingIs DEF CountInputs
<1>2. Span(0, p) = Opening(t)
    <2>1. tx.version = t.version /\ (tx.witnesses = Absent <=> t.witnesses = Absent)
        BY <1>1 DEF Follows, Early
    <2>2. Opening(tx) = Opening(t)
        BY <2>1, SameOpening
    <2> QED BY <1>1, <2>2, Rows
<1>3. b \in Seq(Octet) /\ Then(raw, Span(0, p), b)
    <2>1. Begins(<<>>, t.inputs) /\ <<>> \in Seq(InputType)
        BY <1>1, Parts, EmptySeq, NoneIsAbsent DEF Begins
    <2>2. n \in Nat
        BY <1>1, Parts
    <2> QED BY <1>1, <1>2, <2>1, <2>2, InputsPlaced, VarintIsBytes
<1>4. PICK r \in Seq(Octet) : Ahead(p) = Cat(b, r)
    <2> HIDE DEF b
    <2> QED BY <1>1, <1>3, Present
<1> DEFINE c == Count(p, 1..MaxInputs)
<1>5. c # Error /\ c.value = n
    <2> HIDE DEF n
    <2> QED BY <1>1, <1>4, CountFollows
<1> HIDE DEF c
<1>6. left' = n /\ at' = "input" /\ tx' = tx
    BY <1>5 DEF CountInputs, Reading, c
<1>7. tx.inputs = <<>> /\ Len(<<>>) + n = n
    <2>1. tx.inputs = <<>>
        BY <1>1 DEF Filled
    <2>2. n \in Nat
        BY <1>1, Parts
    <2> QED BY <2>1, <2>2, NoneIsAbsent
<1> HIDE DEF n
<1>8. Len(tx'.inputs) + left' = n
    BY <1>6, <1>7
<1> QED BY <1>1, <1>6, <1>8 DEF Follows, Early, Late, n

\* each input read is the next of t,
LEMMA InputTraced ==
    ASSUME NEW t, Retracing(t), ReadInput PROVE Follows(at, tx, left, stack, t)'
<1> DEFINE q == tx.inputs  s == t.inputs  x == NextOf(q, s)  b == WriteInput(x)  n == Len(s)
<1>1. /\ raw \in Seq(Octet) /\ p \in 0..Len(raw) /\ Len(raw) <= MaxTxBytes
      /\ tx \in Transaction /\ t \in Transaction /\ raw = WireSerialize(t)
      /\ Follows(at, tx, left, stack, t) /\ Filled(at, tx, left, stack) /\ at = "input"
      /\ Span(0, p) = Written(at, tx, left, stack) /\ left \in Nat
    BY RetracingIs DEF ReadInput
<1>2. left >= 1
    BY <1>1 DEF Retracing, IInv
<1>3. /\ q \in Seq(InputType) /\ s \in Seq(InputType) /\ Begins(q, s) /\ Len(q) + left = n
      /\ Len(q) \in Nat /\ n \in Nat
    BY <1>1, Parts DEF Follows
<1>4. Len(q) < n
    BY <1>1, <1>2, <1>3
<1>5. /\ x \in InputType /\ Append(q, x) \in Seq(InputType) /\ Len(Append(q, x)) = Len(q) + 1
      /\ Begins(Append(q, x), s) /\ (Len(q) + 1 = n => Append(q, x) = s)
    BY <1>3, <1>4, BeginsGrows
<1>6. Span(0, p) = Cat(Opening(t), Cat(WriteVarint(n), InputsOf(q)))
    <2>1. tx.version = t.version /\ (tx.witnesses = Absent <=> t.witnesses = Absent)
        BY <1>1 DEF Follows, Early
    <2>2. Opening(tx) = Opening(t)
        BY <2>1, SameOpening
    <2>3. Written("input", tx, left, stack)
              = Opening(tx) \o (WriteVarint(Len(tx.inputs) + left) \o InputsOf(tx.inputs))
        BY Rows
    <2> QED BY <1>1, <1>3, <2>2, <2>3 DEF Cat
<1>7. b \in Seq(Octet) /\ Then(raw, Span(0, p), b)
    BY <1>1, <1>3, <1>4, <1>5, <1>6, InputsPlaced, InputIsWritten
<1>8. PICK r \in Seq(Octet) : Ahead(p) = Cat(b, r)
    <2> HIDE DEF b
    <2> QED BY <1>1, <1>7, Present
<1> HIDE DEF x
<1>9. Input # Error /\ Input.value = x
    BY <1>1, <1>5, <1>8, InputFollows
<1>10. /\ tx' = [tx EXCEPT !.inputs = Append(q, x)] /\ left' = left - 1
       /\ at' = IF left = 1 THEN "out_count" ELSE "input"
    BY <1>9 DEF ReadInput, Reading
<1>11. /\ tx'.version = tx.version /\ tx'.inputs = Append(q, x) /\ tx'.outputs = tx.outputs
       /\ tx'.witnesses = tx.witnesses
    BY <1>1, <1>5, <1>10 DEF Transaction
<1>12. Len(tx'.inputs) + left' = n
    BY <1>1, <1>3, <1>5, <1>10, <1>11
<1>13. left = 1 => tx'.inputs = s
    BY <1>3, <1>5, <1>11
<1>14. CASE left = 1
    <2>1. at' = "out_count"
        BY <1>10, <1>14
    <2> QED BY <1>1, <1>5, <1>11, <1>13, <1>14, <2>1 DEF Follows, Early, Late
<1>15. CASE left # 1
    <2>1. at' = "input"
        BY <1>10, <1>15
    <2> QED BY <1>1, <1>5, <1>11, <1>12, <2>1 DEF Follows, Early, Late
<1> QED BY <1>14, <1>15

\* the outputs counted are as many as t has,
LEMMA CountOutputsFollows ==
    ASSUME NEW t, Retracing(t), CountOutputs PROVE Follows(at, tx, left, stack, t)'
<1> DEFINE n == Len(t.outputs)  b == WriteVarint(n)
<1>1. /\ raw \in Seq(Octet) /\ p \in 0..Len(raw)
      /\ tx \in Transaction /\ t \in Transaction /\ raw = WireSerialize(t)
      /\ Follows(at, tx, left, stack, t) /\ Filled(at, tx, left, stack) /\ at = "out_count"
      /\ n \in 1..MaxOutputs /\ n \in Countable
      /\ Span(0, p) = Written(at, tx, left, stack)
    BY RetracingIs DEF CountOutputs
<1>2. Span(0, p) = Cat(Opening(t), WriteInputs(t))
    <2>1. /\ tx.version = t.version /\ (tx.witnesses = Absent <=> t.witnesses = Absent)
          /\ tx.inputs = t.inputs
        BY <1>1 DEF Follows, Early
    <2>2. Opening(tx) = Opening(t) /\ WriteInputs(tx) = WriteInputs(t)
        BY <2>1, SameOpening DEF WriteInputs
    <2>3. Written("out_count", tx, left, stack) = Opening(tx) \o WriteInputs(tx)
        BY Rows
    <2> QED BY <1>1, <2>2, <2>3 DEF Cat
<1>3. b \in Seq(Octet) /\ Then(raw, Span(0, p), b)
    <2>1. Begins(<<>>, t.outputs) /\ <<>> \in Seq(OutputType)
        BY <1>1, Parts, EmptySeq, NoneIsAbsent DEF Begins
    <2>2. n \in Nat
        BY <1>1, Parts
    <2> QED BY <1>1, <1>2, <2>1, <2>2, OutputsPlaced, VarintIsBytes
<1>4. PICK r \in Seq(Octet) : Ahead(p) = Cat(b, r)
    <2> HIDE DEF b
    <2> QED BY <1>1, <1>3, Present
<1> DEFINE c == Count(p, 1..MaxOutputs)
<1>5. c # Error /\ c.value = n
    <2> HIDE DEF n
    <2> QED BY <1>1, <1>4, CountFollows
<1> HIDE DEF c
<1>6. left' = n /\ at' = "output" /\ tx' = tx
    BY <1>5 DEF CountOutputs, Reading, c
<1>7. tx.outputs = <<>> /\ Len(<<>>) + n = n
    <2>1. tx.outputs = <<>>
        BY <1>1 DEF Filled
    <2>2. n \in Nat
        BY <1>1, Parts
    <2> QED BY <2>1, <2>2, NoneIsAbsent
<1> HIDE DEF n
<1>8. Len(tx'.outputs) + left' = n
    BY <1>6, <1>7
<1> QED BY <1>1, <1>6, <1>8 DEF Follows, Early, Late, n

\* and each output read is the next of t.
LEMMA OutputTraced ==
    ASSUME NEW t, Retracing(t), ReadOutput PROVE Follows(at, tx, left, stack, t)'
<1> DEFINE q == tx.outputs  s == t.outputs  x == NextOf(q, s)  b == WriteOutput(x)  n == Len(s)
           ow == Cat(Opening(t), WriteInputs(t))
<1>1. /\ raw \in Seq(Octet) /\ p \in 0..Len(raw) /\ Len(raw) <= MaxTxBytes
      /\ tx \in Transaction /\ t \in Transaction /\ raw = WireSerialize(t)
      /\ Follows(at, tx, left, stack, t) /\ Filled(at, tx, left, stack) /\ at = "output"
      /\ Span(0, p) = Written(at, tx, left, stack) /\ left \in Nat
    BY RetracingIs DEF ReadOutput
<1>2. left >= 1
    BY <1>1 DEF Retracing, IInv
<1>3. /\ q \in Seq(OutputType) /\ s \in Seq(OutputType) /\ Begins(q, s) /\ Len(q) + left = n
      /\ Len(q) \in Nat /\ n \in Nat
    BY <1>1, Parts DEF Follows
<1>4. Len(q) < n
    BY <1>1, <1>2, <1>3
<1>5. /\ x \in OutputType /\ Append(q, x) \in Seq(OutputType) /\ Len(Append(q, x)) = Len(q) + 1
      /\ Begins(Append(q, x), s) /\ (Len(q) + 1 = n => Append(q, x) = s)
    BY <1>3, <1>4, BeginsGrows
<1>6. Span(0, p) = Cat(ow, Cat(WriteVarint(n), OutputsOf(q)))
    <2>1. /\ tx.version = t.version /\ (tx.witnesses = Absent <=> t.witnesses = Absent)
          /\ tx.inputs = t.inputs
        BY <1>1 DEF Follows, Early
    <2>2. Opening(tx) = Opening(t) /\ WriteInputs(tx) = WriteInputs(t)
        BY <2>1, SameOpening DEF WriteInputs
    <2>3. Written("output", tx, left, stack)
              = Opening(tx) \o WriteInputs(tx)
                    \o (WriteVarint(Len(tx.outputs) + left) \o OutputsOf(tx.outputs))
        BY Rows
    <2> QED BY <1>1, <1>3, <2>2, <2>3 DEF Cat
<1>7. b \in Seq(Octet) /\ Then(raw, Span(0, p), b)
    <2>1. b \in Seq(Octet)
        BY <1>5, OutputIsWritten
    <2>2. Then(WireSerialize(t), Cat(ow, Cat(WriteVarint(n), OutputsOf(q))), b)
        BY <1>1, <1>3, <1>4, OutputsPlaced
    <2> QED BY <1>1, <1>6, <2>1, <2>2
<1>8. PICK r \in Seq(Octet) : Ahead(p) = Cat(b, r)
    <2> HIDE DEF b
    <2> QED BY <1>1, <1>7, Present
<1> HIDE DEF x
<1>9. Output # Error /\ Output.value = x
    BY <1>1, <1>5, <1>8, OutputFollows
<1>10. /\ tx' = [tx EXCEPT !.outputs = Append(q, x)] /\ left' = left - 1
       /\ at' = IF left > 1 THEN "output"
                ELSE IF tx.witnesses = Absent THEN "lock_time" ELSE "items"
    BY <1>9 DEF ReadOutput, Reading
<1>11. /\ tx'.version = tx.version /\ tx'.inputs = tx.inputs /\ tx'.outputs = Append(q, x)
       /\ tx'.witnesses = tx.witnesses
    BY <1>1, <1>5, <1>10 DEF Transaction
<1>12. Len(tx'.outputs) + left' = n
    BY <1>1, <1>3, <1>5, <1>10, <1>11
<1>13. left = 1 => tx'.outputs = s
    BY <1>3, <1>5, <1>11
<1>14. CASE left > 1
    <2>1. at' = "output"
        BY <1>10, <1>14
    <2> QED BY <1>1, <1>5, <1>11, <1>12, <2>1 DEF Follows, Early, Late
<1>15. CASE left = 1 /\ tx.witnesses = Absent
    <2>1. at' = "lock_time"
        BY <1>10, <1>15
    <2>2. tx'.witnesses = Absent /\ t.witnesses = Absent
        BY <1>1, <1>11, <1>15 DEF Follows, Early
    <2> QED BY <1>1, <1>5, <1>11, <1>13, <1>15, <2>1, <2>2 DEF Follows, Early, Late
<1>16. CASE left = 1 /\ tx.witnesses # Absent
    <2>1. at' = "items"
        BY <1>10, <1>16
    <2>2. tx.witnesses = <<>>
        BY <1>1, <1>16 DEF Filled
    <2>3. t.witnesses # Absent
        BY <1>1, <1>16 DEF Follows, Early
    <2>4. t.witnesses \in Seq(Stack)
        BY <1>1, <2>3, Parts
    <2>5. Len(t.witnesses) \in Nat
        BY <2>4, LenProperties
    <2>6. Begins(<<>>, t.witnesses)
        BY <2>5 DEF Begins
    <2>7. Begins(tx'.witnesses, t.witnesses)
        BY <1>11, <2>2, <2>6
    <2> QED BY <1>1, <1>5, <1>11, <1>13, <1>16, <2>1, <2>3, <2>7 DEF Follows, Early, Late
<1> QED BY <1>1, <1>2, <1>14, <1>15, <1>16

\* The comparison of the txid changes nothing that was read.
LEMMA VerdictFollows ==
    ASSUME NEW t, Retracing(t), VerifyTxidInternal PROVE Follows(at, tx, left, stack, t)'
<1>1. Follows(at, tx, left, stack, t) /\ at = "parsed" /\ tx' = tx
      /\ at' \in {"accepted", "mismatch"}
    BY RetracingIs DEF VerifyTxidInternal
<1> QED BY <1>1 DEF Follows, Early, Late

\* The lock time is the last of the input, and nothing trails it.
LEMMA LockTimeFollows ==
    ASSUME NEW t, Retracing(t), ReadLockTime PROVE Follows(at, tx, left, stack, t)'
<1> DEFINE z == <<t.lock_time>>
<1>1. /\ raw \in Seq(Octet) /\ p \in 0..Len(raw)
      /\ tx \in Transaction /\ t \in Transaction /\ raw = WireSerialize(t)
      /\ Follows(at, tx, left, stack, t) /\ at = "lock_time"
      /\ Span(0, p) = Written(at, tx, left, stack)
    BY RetracingIs DEF ReadLockTime
<1>2. /\ tx.version = t.version /\ tx.inputs = t.inputs /\ tx.outputs = t.outputs
      /\ tx.witnesses = t.witnesses
    BY <1>1 DEF Follows, Early, Late
<1>3. Body(tx) = Body(t)
    BY <1>2 DEF Body, Outs, Opening, WriteInputs, WriteOutputs
<1>4. Span(0, p) = Body(t) /\ Body(t) \in Seq(Octet)
    BY <1>1, <1>3, Rows, PartsAreBytes
<1>5. z \in Seq(Octet) /\ Len(z) = 1 /\ t.lock_time \in Octet
    BY <1>1, Parts
<1>6. raw = Cat(Body(t), z)
    BY <1>1, WhereParts
<1> DEFINE a == Ahead(p)  e == <<>>
<1>7. a = z
    <2>1. Len(raw) \in Nat /\ 0 \in 0..Len(raw)
        BY <1>1, LenProperties
    <2>2. Ahead(0) = Cat(Span(0, p), a)
        BY <1>1, <2>1, AheadJoins
    <2>3. Ahead(0) = raw
        BY <1>1, SubSeqFull DEF Ahead, Span
    <2>4. a \in Seq(Octet)
        BY <1>1, AheadIsBytes
    <2> HIDE DEF a, z
    <2>5. Cat(Body(t), a) = Cat(Body(t), z)
        BY <1>4, <1>6, <2>2, <2>3
    <2> QED BY <1>4, <1>5, <2>4, <2>5, CatCut
<1>8. Len(a) = Len(raw) - p
    BY <1>1, AheadIsBytes
<1>9. Remaining = 1
    <2> HIDE DEF a, z
    <2> QED BY <1>5, <1>7, <1>8 DEF Remaining
<1>10. Ahead(p) = Cat(z, e) /\ e \in Seq(Octet)
    BY <1>5, <1>7, CatEmpty, EmptySeq
<1>11. Take(p, 1) # Error /\ Take(p, 1).value[1] = t.lock_time
    <2> HIDE DEF e
    <2> QED BY <1>1, <1>5, <1>10, ByteFollows
<1>12. LockTime = Take(p, 1)
    BY <1>9 DEF LockTime
<1>13. tx' = [tx EXCEPT !.lock_time = t.lock_time] /\ at' = "parsed"
    BY <1>11, <1>12 DEF ReadLockTime, Reading
<1>14. tx' = t
    BY <1>1, <1>2, <1>13 DEF Transaction
<1>15. Begins(t.inputs, t.inputs) /\ Begins(t.outputs, t.outputs)
    BY <1>1, <1>2 DEF Follows
<1> QED BY <1>13, <1>14, <1>15 DEF Follows, Early, Late

\* The witness is complete.
LEMMA WitnessFollows ==
    ASSUME NEW t, Retracing(t), at \in {"items", "item"}, NEW w,
           w = NextOf(tx.witnesses, t.witnesses), PushWitness(w)
    PROVE  Follows(at, tx, left, stack, t)'
<1> DEFINE q == tx.witnesses  s == t.witnesses  all == Append(q, w)
<1>1. /\ tx \in Transaction /\ t \in Transaction
      /\ Follows(at, tx, left, stack, t) /\ Filled(at, tx, left, stack)
      /\ (s # Absent => /\ Len(s) = Len(t.inputs)
                        /\ \E k \in DOMAIN s : s[k] # <<>>)
    BY RetracingIs
<1>2. /\ q # Absent /\ s # Absent /\ Begins(q, s) /\ Len(q) < Len(tx.inputs)
      /\ tx.inputs = t.inputs
    BY <1>1 DEF Follows, Filled, Early
<1>3. q \in Seq(Stack) /\ s \in Seq(Stack) /\ Len(q) < Len(s)
    BY <1>1, <1>2, Parts
<1>4. /\ all \in Seq(Stack) /\ Len(all) = Len(q) + 1 /\ Begins(all, s)
      /\ (Len(q) + 1 = Len(s) => all = s)
    BY <1>3, <1>2, BeginsGrows
<1>5. Len(q) \in Nat /\ Len(s) \in Nat
    BY <1>3, LenProperties
<1> DEFINE next == IF Len(all) < Len(tx.inputs) THEN "items"
                   ELSE IF \A k \in DOMAIN all : all[k] = <<>> THEN "rejected"
                   ELSE "lock_time"
<1>6. tx' = [tx EXCEPT !.witnesses = all] /\ at' = next
    BY DEF PushWitness
<1> HIDE DEF all
<1>7. /\ tx'.version = tx.version /\ tx'.inputs = tx.inputs /\ tx'.outputs = tx.outputs
      /\ tx'.witnesses = all /\ all # Absent
    <2>1. all # Absent
        BY <1>4, OptionAssumption
    <2> QED BY <1>1, <1>6, <2>1 DEF Transaction
<1>8. CASE Len(all) < Len(tx.inputs)
    <2>1. at' = "items"
        BY <1>6, <1>8
    <2> QED BY <1>1, <1>2, <1>4, <1>7, <2>1 DEF Follows, Early, Late
<1>9. CASE ~(Len(all) < Len(tx.inputs))
    <2>1. all = s
        BY <1>1, <1>2, <1>3, <1>4, <1>5, <1>9
    <2>2. ~(\A k \in DOMAIN all : all[k] = <<>>)
        BY <1>1, <1>2, <2>1
    <2>3. at' = "lock_time"
        BY <1>6, <1>9, <2>2
    <2> QED BY <1>1, <1>2, <1>7, <2>1, <2>3 DEF Follows, Early, Late
<1> QED BY <1>8, <1>9

\* Where the parser stands among the witnesses
LEMMA AmongWitnesses ==
    ASSUME NEW t, Retracing(t), at \in {"items", "item"}
    PROVE  /\ tx.witnesses \in Seq(Stack) /\ t.witnesses \in Seq(Stack)
           /\ tx.witnesses # Absent /\ t.witnesses # Absent
           /\ Begins(tx.witnesses, t.witnesses) /\ Len(tx.witnesses) < Len(t.witnesses)
           /\ NextOf(tx.witnesses, t.witnesses) \in Stack
           /\ Len(NextOf(tx.witnesses, t.witnesses)) \in 0..MaxWitnessItems
           /\ Len(NextOf(tx.witnesses, t.witnesses)) \in Countable
           /\ Body(tx) = Cat(Outs(t), WitnessesOf(tx.witnesses))
<1> DEFINE q == tx.witnesses  s == t.witnesses  w == NextOf(q, s)
<1>1. /\ tx \in Transaction /\ t \in Transaction
      /\ Follows(at, tx, left, stack, t) /\ Filled(at, tx, left, stack)
      /\ (s # Absent => /\ Len(s) = Len(t.inputs)
                        /\ \A k \in DOMAIN s : Len(s[k]) <= MaxWitnessItems)
    BY RetracingIs
<1>2. /\ q # Absent /\ s # Absent /\ Begins(q, s) /\ Len(q) < Len(tx.inputs)
      /\ tx.version = t.version /\ tx.inputs = t.inputs /\ tx.outputs = t.outputs
    BY <1>1 DEF Follows, Filled, Early
<1>3. q \in Seq(Stack) /\ s \in Seq(Stack) /\ Len(q) < Len(s)
    BY <1>1, <1>2, Parts
<1>4. w \in Stack
    BY <1>2, <1>3, BeginsGrows
<1>5. Len(w) \in Nat
    BY <1>4, LenProperties DEF Stack
<1>6. Len(w) <= MaxWitnessItems
    <2> DEFINE k == Len(q) + 1
    <2>1. k \in DOMAIN s
        BY <1>3, LenProperties
    <2> HIDE DEF k
    <2>2. Len(s[k]) <= MaxWitnessItems
        BY <1>1, <1>2, <2>1
    <2> QED BY <2>2 DEF NextOf, k
<1>7. Len(w) \in 0..MaxWitnessItems /\ Len(w) \in Countable
    <2> DEFINE C == ByteBase * ByteBase * ByteBase
    <2>1. C \in Nat /\ MaxWitnessItems \in 0..(C - 1) /\ Countable = 0..(C - 1)
        BY Forms, LimitsAssumption DEF Countable
    <2> HIDE DEF C, w
    <2> QED BY <1>5, <1>6, <2>1
<1>8. Outs(tx) = Outs(t)
    <2>1. Opening(tx) = Opening(t)
        BY <1>2, SameOpening
    <2> QED BY <1>2, <2>1 DEF Outs, WriteInputs, WriteOutputs
<1>9. Body(tx) = Cat(Outs(t), WitnessesOf(q))
    BY <1>2, <1>8 DEF Body, Cat
<1> QED BY <1>2, <1>3, <1>4, <1>7, <1>9

\* The items counted are as many as the next stack of t has,
LEMMA CountItemsFollows ==
    ASSUME NEW t, Retracing(t), CountItems PROVE Follows(at, tx, left, stack, t)'
<1> DEFINE w == NextOf(tx.witnesses, t.witnesses)  n == Len(w)  b == WriteVarint(n)
<1>1. /\ raw \in Seq(Octet) /\ p \in 0..Len(raw)
      /\ tx \in Transaction /\ t \in Transaction /\ raw = WireSerialize(t)
      /\ Follows(at, tx, left, stack, t) /\ Filled(at, tx, left, stack) /\ at = "items"
      /\ Span(0, p) = Written(at, tx, left, stack)
    BY RetracingIs DEF CountItems
<1>2. /\ tx.witnesses \in Seq(Stack) /\ t.witnesses # Absent
      /\ Begins(tx.witnesses, t.witnesses) /\ Len(tx.witnesses) < Len(t.witnesses)
      /\ w \in Stack /\ n \in 0..MaxWitnessItems /\ n \in Countable
      /\ Body(tx) = Cat(Outs(t), WitnessesOf(tx.witnesses))
    BY <1>1, AmongWitnesses
<1>3. <<>> \in Stack /\ Begins(<<>>, w) /\ n \in Nat
    <2>1. n \in Nat
        BY <1>2, LenProperties DEF Stack
    <2>2. Begins(<<>>, w)
        <3> HIDE DEF w
        <3> QED BY <2>1 DEF Begins
    <2> QED BY <2>1, <2>2, NoneIsAbsent, EmptySeq DEF Stack
<1>4. b \in Seq(Octet) /\ Then(raw, Span(0, p), b)
    <2>1. Span(0, p) = Cat(Outs(t), WitnessesOf(tx.witnesses))
        BY <1>1, <1>2, Rows
    <2>2. Then(WireSerialize(t), Cat(Outs(t), WitnessesOf(tx.witnesses)), b)
        BY <1>1, <1>2, <1>3, WitnessesPlaced
    <2> QED BY <1>1, <1>3, <2>1, <2>2, VarintIsBytes
<1>5. PICK r \in Seq(Octet) : Ahead(p) = Cat(b, r)
    <2> HIDE DEF b
    <2> QED BY <1>1, <1>4, Present
<1> DEFINE c == Count(p, 0..MaxWitnessItems)
<1>6. c # Error /\ c.value = n
    <2> HIDE DEF n
    <2> QED BY <1>1, <1>2, <1>5, CountFollows
<1> HIDE DEF c
<1>7. /\ left' = n
      /\ \/ n = 0 /\ PushWitness(<<>>)
         \/ n > 0 /\ at' = "item" /\ UNCHANGED <<tx, stack>>
    <2>1. Reading(c, /\ left' = c.value
                     /\ \/ c.value = 0 /\ PushWitness(<<>>)
                        \/ c.value > 0 /\ at' = "item" /\ UNCHANGED <<tx, stack>>)
        BY DEF CountItems, c
    <2> HIDE DEF n
    <2> QED BY <1>6, <2>1 DEF Reading
<1>8. CASE n = 0 /\ PushWitness(<<>>)
    <2>1. w = <<>>
        <3> HIDE DEF w
        <3> QED BY <1>2, <1>8, EmptySeq DEF Stack
    <2> QED BY <1>1, <1>8, <2>1, WitnessFollows
<1>9. CASE n > 0 /\ at' = "item" /\ UNCHANGED <<tx, stack>>
    <2>1. stack = <<>>
        BY <1>1 DEF Filled
    <2>2. Len(<<>>) + n = n
        BY <1>3
    <2>3. Begins(stack', NextOf(tx'.witnesses, t.witnesses))
        BY <1>3, <1>9, <2>1
    <2>4. Len(stack') + left' = Len(NextOf(tx'.witnesses, t.witnesses))
        <3> HIDE DEF n
        <3>1. Len(stack') + left' = n
            BY <1>7, <1>9, <2>1, <2>2
        <3> QED BY <1>9, <3>1 DEF n
    <2>5. tx' = tx /\ at' = "item"
        BY <1>9
    <2> HIDE DEF w, n
    <2> QED BY <1>1, <2>3, <2>4, <2>5 DEF Follows, Early, Late
<1> QED BY <1>7, <1>8, <1>9

\* and each item read is the next of that stack.
LEMMA ItemFollows ==
    ASSUME NEW t, Retracing(t), ReadItem PROVE Follows(at, tx, left, stack, t)'
<1> DEFINE w == NextOf(tx.witnesses, t.witnesses)  n == Len(w)  x == NextOf(stack, w)
           b == WriteBytes(x)  S == Seq(Octet)  all == Append(stack, x)
<1>1. /\ raw \in Seq(Octet) /\ p \in 0..Len(raw) /\ Len(raw) <= MaxTxBytes
      /\ tx \in Transaction /\ t \in Transaction /\ raw = WireSerialize(t)
      /\ Follows(at, tx, left, stack, t) /\ Filled(at, tx, left, stack) /\ at = "item"
      /\ Span(0, p) = Written(at, tx, left, stack) /\ left \in Nat /\ stack \in Stack
    BY RetracingIs DEF ReadItem
<1>2. /\ tx.witnesses \in Seq(Stack) /\ t.witnesses # Absent
      /\ Begins(tx.witnesses, t.witnesses) /\ Len(tx.witnesses) < Len(t.witnesses)
      /\ w \in Stack
      /\ Body(tx) = Cat(Outs(t), WitnessesOf(tx.witnesses))
    BY <1>1, AmongWitnesses
<1>3. Begins(stack, w) /\ Len(stack) + left = n
    BY <1>1 DEF Follows
<1>4. left >= 1
    BY <1>1 DEF Retracing, IInv
<1>5. stack \in Seq(S) /\ w \in Seq(S) /\ Len(stack) \in Nat /\ n \in Nat /\ Len(stack) < n
    <2>1. stack \in Seq(S) /\ w \in Seq(S)
        BY <1>1, <1>2 DEF Stack
    <2> HIDE DEF S, w
    <2>2. Len(stack) \in Nat /\ n \in Nat
        BY <2>1, LenProperties
    <2> QED BY <1>1, <1>3, <1>4, <2>1, <2>2
<1>6. /\ x \in S /\ Len(all) = Len(stack) + 1 /\ Begins(all, w)
      /\ (Len(stack) + 1 = n => all = w)
    <2> HIDE DEF S, w
    <2> QED BY <1>3, <1>5, BeginsGrows
<1>7. b \in Seq(Octet) /\ Then(raw, Span(0, p), b)
    <2> DEFINE a == Cat(Cat(Outs(t), WitnessesOf(tx.witnesses)),
                        Cat(WriteVarint(n), ItemsOf(stack)))
    <2>1. Span(0, p) = a
        <3>1. Written("item", tx, left, stack)
                  = Body(tx) \o (WriteVarint(Len(stack) + left) \o ItemsOf(stack))
            BY Rows
        <3> HIDE DEF w, n
        <3> QED BY <1>1, <1>2, <1>3, <3>1 DEF Cat
    <2>2. Then(WireSerialize(t), a, b)
        BY <1>1, <1>2, <1>3, <1>5, WitnessesPlaced
    <2> HIDE DEF a
    <2> QED BY <1>1, <1>6, <2>1, <2>2, BytesAreWritten
<1>8. PICK r \in Seq(Octet) : Ahead(p) = Cat(b, r)
    <2> HIDE DEF b
    <2> QED BY <1>1, <1>7, Present
<1> DEFINE item == VarBytes(p)
<1>9. item # Error /\ item.value = x
    <2> HIDE DEF x
    <2> QED BY <1>1, <1>6, <1>8, VarBytesFollows
<1>10. /\ left' = left - 1
       /\ \/ left = 1 /\ PushWitness(all)
          \/ left > 1 /\ stack' = all /\ UNCHANGED <<at, tx>>
    <2>1. Reading(item, /\ left' = left - 1
                        /\ \/ left = 1 /\ PushWitness(Append(stack, item.value))
                           \/ /\ left > 1 /\ stack' = Append(stack, item.value)
                              /\ UNCHANGED <<at, tx>>)
        BY DEF ReadItem
    <2> HIDE DEF item, x
    <2> QED BY <1>9, <2>1 DEF Reading
<1> HIDE DEF item, x
<1>11. CASE left = 1 /\ PushWitness(all)
    <2> HIDE DEF all
    <2>1. all = w
        BY <1>3, <1>6, <1>11
    <2> QED BY <1>1, <1>11, <2>1, WitnessFollows
<1>12. CASE left > 1 /\ stack' = all /\ UNCHANGED <<at, tx>>
    <2> HIDE DEF all
    <2>1. Begins(stack', NextOf(tx'.witnesses, t.witnesses))
        BY <1>6, <1>12
    <2>2. Len(stack') + left' = Len(NextOf(tx'.witnesses, t.witnesses))
        <3> HIDE DEF n, w
        <3>1. Len(stack') + left' = n
            <4>1. Len(stack') = Len(stack) + 1 /\ left' = left - 1
                BY <1>6, <1>10, <1>12
            <4>2. Len(stack) + left = n
                BY <1>3 DEF n
            <4>3. left \in Nat /\ Len(stack) \in Nat
                BY <1>1, <1>5
            <4> QED BY ONLY <4>1, <4>2, <4>3
        <3>2. NextOf(tx'.witnesses, t.witnesses) = w
            BY <1>12 DEF w
        <3> QED BY <3>1, <3>2 DEF n
    <2>3. tx' = tx /\ at' = "item"
        BY <1>1, <1>12
    <2> HIDE DEF w, n
    <2> QED BY <1>1, <2>1, <2>2, <2>3 DEF Follows, Early, Late
<1> QED BY <1>10, <1>11, <1>12

\* Nothing is read yet.
LEMMA NothingFollows ==
    ASSUME NEW t \in Transaction, Init PROVE Follows(at, tx, left, stack, t)
<1>1. at = "version" /\ tx.inputs = <<>> /\ tx.outputs = <<>>
    BY DEF Init
<1>2. Begins(<<>>, t.inputs) /\ Begins(<<>>, t.outputs)
    <2>1. Len(t.inputs) \in Nat /\ Len(t.outputs) \in Nat
        BY Parts, LenProperties
    <2> QED BY <2>1 DEF Begins
<1> QED BY <1>1, <1>2 DEF Follows, Early, Late

\* What the parser is given of a genuine transaction, it reads as it is:
Traced == \A t \in Genuine : raw = WireSerialize(t) => Follows(at, tx, left, stack, t)

\* Every step retraces the transaction whose bytes are parsed.
LEMMA NextTraced == ASSUME IInv, Traced, [Next]_vars PROVE Traced'
<1> SUFFICES ASSUME NEW t \in Genuine, raw' = WireSerialize(t)
             PROVE  Follows(at, tx, left, stack, t)'
    BY DEF Traced
<1>1. raw' = raw
    BY DEF Next, ReadVersion, ReadMarker, CountInputs, ReadInput, CountOutputs, ReadOutput,
           CountItems, ReadItem, ReadLockTime, VerifyTxidInternal, Reading, Reject, vars
<1>2. Retracing(t)
    BY <1>1, GenuineAssumption DEF Retracing, Traced
<1>3. CASE Next
    BY <1>2, <1>3, VersionFollows, MarkerFollows, CountInputsFollows, InputTraced,
       CountOutputsFollows, OutputTraced, CountItemsFollows, ItemFollows, LockTimeFollows,
       VerdictFollows DEF Next
<1>4. CASE UNCHANGED vars
    <2>1. at' = at /\ tx' = tx /\ left' = left /\ stack' = stack
        BY <1>4 DEF vars
    <2>2. Follows(at, tx, left, stack, t)
        BY <1>2 DEF Retracing
    <2> QED BY <2>1, <2>2 DEF Follows
<1> QED BY <1>3, <1>4

\* so that none is refused, under its own txid.
THEOREM GenuineAreRead == Spec => []GenuineRead
<1>1. Init => Traced
    <2> SUFFICES ASSUME Init, NEW t \in Genuine PROVE Follows(at, tx, left, stack, t)
        BY DEF Traced
    <2>1. t \in Transaction
        BY GenuineAssumption DEF Valid
    <2> QED BY <2>1, NothingFollows
<1>2. IInv /\ IInv' /\ Traced /\ [Next]_vars => Traced'
    BY NextTraced
<1>3. IInv /\ Traced => GenuineRead
    <2> SUFFICES ASSUME IInv, Traced, at \in {"rejected", "mismatch"}, NEW t \in Genuine,
                        raw = WireSerialize(t), Txid(t) = claimed
                 PROVE  FALSE
        BY DEF GenuineRead, Encoded
    <2>1. Follows(at, tx, left, stack, t)
        BY DEF Traced
    <2>2. at = "mismatch" /\ tx = t
        BY <2>1 DEF Follows
    <2>3. Txid(tx) # claimed
        BY <2>2 DEF IInv, Judged
    <2> QED BY <2>2, <2>3
<1> QED BY <1>1, <1>2, <1>3, ReadAsWritten, PTL DEF Spec

-----------------------------------------------------------------------------
(* Numbers and their digits *)

\* A recursion over the naturals,
Recurs(f, S, b, step) ==
    /\ f \in [Nat -> S] /\ f[0] = b
    /\ \A n \in Nat \ {0} : f[n] = step[n][f[n - 1]]

\* has a solution.
LEMMA RecursionExists ==
    ASSUME NEW S, NEW b \in S, NEW step, step \in [Nat -> [S -> S]]
    PROVE  \E f : Recurs(f, S, b, step)
<1> DEFINE UpTo(g, n) == /\ g \in [Nat -> S] /\ g[0] = b
                         /\ \A m \in 1..n : g[m] = step[m][g[m - 1]]
           part(n)    == CHOOSE g : UpTo(g, n)
           whole      == [n \in Nat |-> part(n)[n]]
<1>1. \A n \in Nat : \E g : UpTo(g, n)
    <2> DEFINE T == {n \in Nat : ~\E g : UpTo(g, n)}
    <2> SUFFICES ASSUME T # {} PROVE FALSE
        OBVIOUS
    <2>1. T \subseteq Nat
        OBVIOUS
    <2>2. PICK n \in T : \A m \in Nat : m < n => m \notin T
        BY <2>1, FirstFailure
    <2>3. n \in Nat /\ ~\E g : UpTo(g, n)
        OBVIOUS
    <2>4. CASE n = 0
        <3> DEFINE g == [m \in Nat |-> b]
        <3>1. UpTo(g, n)
            BY <2>4
        <3> QED BY <3>1, <2>3
    <2>5. CASE n # 0
        <3>1. n - 1 \in Nat /\ n - 1 < n
            BY <2>3, <2>5
        <3>2. PICK h : UpTo(h, n - 1)
            BY <3>1, <2>2
        <3> DEFINE e == step[n][h[n - 1]]  g == [m \in Nat |-> IF m = n THEN e ELSE h[m]]
        <3>3. h \in [Nat -> S] /\ e \in S
            <4>1. h \in [Nat -> S]
                BY <3>2
            <4>2. h[n - 1] \in S /\ step[n] \in [S -> S]
                BY <2>3, <3>1, <4>1
            <4> QED BY <4>1, <4>2
        <3> HIDE DEF e
        <3>4. g \in [Nat -> S] /\ g[0] = b
            BY <2>3, <2>5, <3>2, <3>3
        <3>5. ASSUME NEW m \in 1..n PROVE g[m] = step[m][g[m - 1]]
            <4>1. m \in Nat /\ m >= 1 /\ m <= n /\ m - 1 \in Nat /\ m - 1 # n
                BY <2>3
            <4>2. g[m - 1] = h[m - 1]
                BY <4>1
            <4>3. CASE m = n
                BY <4>1, <4>2, <4>3 DEF e
            <4>4. CASE m # n
                <5>1. m \in 1..(n - 1)
                    BY <4>1, <4>4, <2>3
                <5>2. h[m] = step[m][h[m - 1]]
                    BY <3>2, <5>1
                <5> QED BY <4>1, <4>2, <4>4, <5>2
            <4> QED BY <4>3, <4>4
        <3> HIDE DEF g
        <3>6. UpTo(g, n)
            BY <3>4, <3>5
        <3> QED BY <3>6, <2>3
    <2> QED BY <2>4, <2>5
<1>2. ASSUME NEW n \in Nat, NEW m \in Nat, NEW g, NEW h, UpTo(g, n), UpTo(h, m)
      PROVE  \A k \in Nat : k <= n /\ k <= m => g[k] = h[k]
    <2> DEFINE T == {k \in Nat : k <= n /\ k <= m /\ g[k] # h[k]}
    <2> SUFFICES ASSUME T # {} PROVE FALSE
        OBVIOUS
    <2>1. T \subseteq Nat
        OBVIOUS
    <2>2. PICK k \in T : \A j \in Nat : j < k => j \notin T
        BY <2>1, FirstFailure
    <2>3. k \in Nat /\ k <= n /\ k <= m /\ g[k] # h[k]
        OBVIOUS
    <2>4. k # 0
        BY <1>2, <2>3
    <2>5. k \in 1..n /\ k \in 1..m /\ k - 1 \in Nat /\ k - 1 < k /\ k - 1 <= n /\ k - 1 <= m
        BY <2>3, <2>4
    <2>6. g[k] = step[k][g[k - 1]] /\ h[k] = step[k][h[k - 1]]
        BY <1>2, <2>5
    <2>7. g[k - 1] = h[k - 1]
        BY <2>2, <2>5
    <2> QED BY <2>3, <2>6, <2>7
<1>3. \A n \in Nat : UpTo(part(n), n)
    BY <1>1
<1> HIDE DEF part
<1>4. whole \in [Nat -> S]
    <2>1. ASSUME NEW n \in Nat PROVE part(n)[n] \in S
        BY <1>3
    <2> QED BY <2>1
<1>5. whole[0] = b
    BY <1>3
<1>6. ASSUME NEW n \in Nat \ {0} PROVE whole[n] = step[n][whole[n - 1]]
    <2>1. n \in Nat /\ n - 1 \in Nat /\ n \in 1..n /\ n - 1 <= n /\ n - 1 <= n - 1
        OBVIOUS
    <2>2. part(n)[n] = step[n][part(n)[n - 1]]
        BY <1>3, <2>1
    <2>3. part(n)[n - 1] = part(n - 1)[n - 1]
        <3> DEFINE k == n - 1
        <3>1. k \in Nat /\ UpTo(part(n), n) /\ UpTo(part(k), k) /\ k <= n /\ k <= k
            BY <1>3, <2>1
        <3> HIDE DEF k, UpTo
        <3> QED BY <3>1, <1>2, <2>1 DEF k
    <2> QED BY <2>1, <2>2, <2>3
<1> HIDE DEF whole
<1>7. Recurs(whole, S, b, step)
    BY <1>4, <1>5, <1>6 DEF Recurs
<1> QED BY <1>7

\* The weights of the digits
LEMMA Weights ==
    /\ Weight \in [Nat -> Nat \ {0}] /\ Weight[0] = 1
    /\ \A n \in Nat \ {0} : Weight[n] = Base * Weight[n - 1]
<1> DEFINE S == Nat \ {0}  step == [n \in Nat |-> [x \in S |-> Base * x]]
<1>1. Base \in S
    BY WidthsAssumption
<1>2. step \in [Nat -> [S -> S]] /\ 1 \in S
    BY <1>1
<1>3. \A n \in Nat, x \in S : step[n][x] = Base * x
    OBVIOUS
<1> HIDE DEF step
<1>4. PICK f \in [Nat -> S] : f[0] = 1 /\ \A n \in Nat \ {0} : f[n] = step[n][f[n - 1]]
    <2> DEFINE one == 1  R == S
    <2>1. step \in [Nat -> [R -> R]] /\ one \in R
        BY <1>2
    <2> HIDE DEF one, R
    <2>2. \E f : Recurs(f, R, one, step)
        BY <2>1, RecursionExists
    <2> QED BY <2>2 DEF Recurs, one, R
<1>5. \A n \in Nat \ {0} : f[n] = Base * f[n - 1]
    <2>1. \A n \in Nat \ {0} : n - 1 \in Nat
        OBVIOUS
    <2> QED BY <1>3, <1>4, <2>1
<1> DEFINE Solves(g) == g = [n \in Nat |-> IF n = 0 THEN 1 ELSE Base * g[n - 1]]
<1>6. Solves(f)
    BY <1>4, <1>5
<1>7. Solves(Weight)
    BY <1>6 DEF Weight
<1>8. Weight[0] = 1 /\ \A n \in Nat \ {0} : Weight[n] = Base * Weight[n - 1]
    BY <1>7
<1>9. \A n \in Nat : Weight[n] \in S
    <2> DEFINE T == {n \in Nat : Weight[n] \notin S}
    <2> SUFFICES ASSUME T # {} PROVE FALSE
        OBVIOUS
    <2>1. T \subseteq Nat
        OBVIOUS
    <2>2. PICK n \in T : \A m \in Nat : m < n => m \notin T
        BY <2>1, FirstFailure
    <2>3. n \in Nat /\ n # 0 /\ Weight[n] \notin S
        BY <1>8
    <2>4. n - 1 \in Nat /\ n - 1 < n /\ Weight[n - 1] \in S
        BY <2>2, <2>3
    <2> QED BY <1>1, <1>8, <2>3, <2>4
<1>10. DOMAIN Weight = Nat /\ Weight = [n \in Nat |-> Weight[n]]
    BY <1>7
<1> QED BY <1>8, <1>9, <1>10

\* What a numeral denotes, its first digits first
Denoted(v, a, w) ==
    /\ v \in [0..w -> Nat] /\ v[0] = 0
    /\ \A k \in 1..w : v[k] = v[k - 1] * Base + a[k]

\* The number that digits are read back as is what they denote.
LEMMA NumeralDenotes ==
    ASSUME NEW w \in Nat, NEW a \in [1..w -> Digit]
    PROVE  \E v : Denoted(v, a, w) /\ FromBeBytes(a) = v[w]
<1> DEFINE digit(n) == IF n \in 1..w THEN a[n] ELSE 0
           step == [n \in Nat |-> [x \in Nat |-> x * Base + digit(n)]]
           Solves(g) == g = [d \in 0..Len(a) |->
                                IF d = 0 THEN 0 ELSE g[d - 1] * Base + a[d]]
           v == CHOOSE g : Solves(g)
<1>1. Base \in Nat /\ \A n \in 1..w : a[n] \in Nat
    BY WidthsAssumption DEF Digit
<1>1a. \A x, y \in Nat : x * Base + y \in Nat
    BY <1>1
<1>2. \A n \in Nat : digit(n) \in Nat
    BY <1>1
<1> HIDE DEF digit
<1>3. step \in [Nat -> [Nat -> Nat]]
    <2>1. \A n, x \in Nat : x * Base + digit(n) \in Nat
        BY <1>2, <1>1a
    <2> QED BY <2>1
<1>4. \A n, x \in Nat : step[n][x] = x * Base + digit(n)
    OBVIOUS
<1> HIDE DEF step
<1>5. PICK f \in [Nat -> Nat] : f[0] = 0 /\ \A n \in Nat \ {0} : f[n] = step[n][f[n - 1]]
    <2> DEFINE zero == 0  S == Nat
    <2>1. step \in [Nat -> [S -> S]] /\ zero \in S
        BY <1>3
    <2> HIDE DEF zero, S
    <2>2. \E f : Recurs(f, S, zero, step)
        BY <2>1, RecursionExists
    <2> QED BY <2>2 DEF Recurs, zero, S
<1>6. \A n \in 1..w : f[n] = f[n - 1] * Base + a[n]
    <2>1. \A n \in 1..w : n \in Nat \ {0} /\ n - 1 \in Nat /\ digit(n) = a[n]
        BY DEF digit
    <2> QED BY <1>4, <1>5, <2>1
<1>7. Len(a) = w
    BY LengthOf
<1> DEFINE g == [d \in 0..w |-> f[d]]
<1>8. /\ \A d \in 0..w : d \in Nat
      /\ \A d \in 0..w : d # 0 => d - 1 \in 0..w /\ d \in 1..w
    OBVIOUS
<1>9. Solves(g)
    <2>1. \A d \in 0..w : g[d] = IF d = 0 THEN 0 ELSE g[d - 1] * Base + a[d]
        BY <1>5, <1>6, <1>8
    <2>2. g = [d \in 0..w |-> g[d]]
        OBVIOUS
    <2> HIDE DEF g
    <2> QED BY <1>7, <2>1, <2>2
<1>10. Solves(v)
    BY <1>9
<1>11. FromBeBytes(a) = v[w]
    BY <1>7 DEF FromBeBytes
<1> HIDE DEF v
<1>12. v = [d \in 0..w |-> IF d = 0 THEN 0 ELSE v[d - 1] * Base + a[d]]
    BY <1>7, <1>10
<1>13. v[0] = 0 /\ \A k \in 1..w : v[k] = v[k - 1] * Base + a[k]
    <2>1. 0 \in 0..w /\ \A k \in 1..w : k \in 0..w /\ k # 0
        OBVIOUS
    <2> QED BY <1>12, <2>1
<1>14. \A k \in 0..w : v[k] \in Nat
    <2> DEFINE T == {n \in 0..w : v[n] \notin Nat}
    <2> SUFFICES ASSUME T # {} PROVE FALSE
        OBVIOUS
    <2>1. T \subseteq Nat
        OBVIOUS
    <2>2. PICK n \in T : \A m \in Nat : m < n => m \notin T
        BY <2>1, FirstFailure
    <2>3. n \in 0..w /\ n # 0 /\ v[n] \notin Nat
        BY <1>13
    <2>4. n - 1 \in Nat /\ n - 1 < n /\ n - 1 \in 0..w /\ n \in 1..w
        BY <2>3
    <2>5. v[n - 1] \in Nat /\ a[n] \in Nat /\ v[n] = v[n - 1] * Base + a[n]
        BY <1>1, <1>13, <2>2, <2>4
    <2> HIDE DEF T
    <2> QED BY <1>1a, <2>3, <2>5
<1>15. v \in [0..w -> Nat]
    BY <1>12, <1>14
<1> QED BY <1>11, <1>13, <1>15 DEF Denoted

\* A digit split off a number
LEMMA DigitSplit ==
    ASSUME NEW n \in Nat, NEW m \in Nat, m > 0
    PROVE  /\ n \div m \in Nat /\ (n \div m) % Base \in Digit
           /\ n \div m = (n \div (Base * m)) * Base + ((n \div m) % Base)
<1> DEFINE B == Base  q == n \div m  r == q \div B
<1>1. B \in Nat /\ B >= 4
    BY WidthsAssumption
<1>4. Digit = 0..(B - 1)
    BY DEF Digit
<1> HIDE DEF B
<1>2. q \in Nat /\ q * m <= n /\ n < q * m + m
    OBVIOUS
<1>3. r \in Nat /\ q % B \in 0..(B - 1) /\ q = r * B + (q % B)
    BY <1>1, <1>2
<1>5. n \div (B * m) = r
    BY <1>1
<1> QED BY <1>2, <1>3, <1>4, <1>5 DEF B


\* A number that a width can hold is what its digits denote.
LEMMA DigitsDenote ==
    ASSUME NEW w \in Nat, NEW n \in 0..(Weight[w] - 1)
    PROVE  ToBeBytes(n, w) \in [1..w -> Digit] /\ FromBeBytes(ToBeBytes(n, w)) = n
<1> DEFINE a == ToBeBytes(n, w)
<1>1. n \in Nat /\ n < Weight[w] /\ \A k \in Nat : Weight[k] \in Nat /\ Weight[k] > 0
    BY Weights
<1>2. \A d \in 1..w : w - d \in Nat
    OBVIOUS
<1>3. \A m \in Nat : n \div Weight[m] \in Nat /\ (n \div Weight[m]) % Base \in Digit
    BY <1>1, DigitSplit
<1>4. a \in [1..w -> Digit]
    BY <1>2, <1>3 DEF ToBeBytes
<1>5. \A d \in 1..w : a[d] = (n \div Weight[w - d]) % Base
    BY DEF ToBeBytes
<1> HIDE DEF a
<1>6. PICK v : Denoted(v, a, w) /\ FromBeBytes(a) = v[w]
    BY <1>4, NumeralDenotes
<1>7. v[0] = 0 /\ \A k \in 1..w : v[k] = v[k - 1] * Base + a[k]
    BY <1>6 DEF Denoted
<1>8. \A k \in 0..w : v[k] = n \div Weight[w - k]
    <2> DEFINE T == {k \in 0..w : v[k] # n \div Weight[w - k]}
    <2> SUFFICES ASSUME T # {} PROVE FALSE
        OBVIOUS
    <2>1. T \subseteq Nat
        OBVIOUS
    <2>2. PICK k \in T : \A m \in Nat : m < k => m \notin T
        BY <2>1, FirstFailure
    <2>3. k \in 0..w /\ v[k] # n \div Weight[w - k]
        OBVIOUS
    <2>4. k # 0
        <3>1. n \div Weight[w] = 0
            <4> DEFINE m == Weight[w]
            <4>1. m \in Nat /\ n < m
                BY <1>1
            <4> HIDE DEF m
            <4>2. n \div m = 0
                BY <1>1, <4>1
            <4> QED BY <4>2 DEF m
        <3>2. w - 0 = w
            OBVIOUS
        <3> QED BY <1>7, <2>3, <3>1, <3>2
    <2>5. /\ k - 1 \in 0..w /\ k - 1 \in Nat /\ k - 1 < k /\ k \in 1..w
          /\ w - k \in Nat /\ w - (k - 1) \in Nat \ {0} /\ (w - (k - 1)) - 1 = w - k
        BY <2>3, <2>4
    <2>6. v[k - 1] = n \div Weight[w - (k - 1)]
        BY <2>2, <2>5
    <2>7. Weight[w - (k - 1)] = Base * Weight[w - k]
        BY <2>5, Weights
    <2>8. v[k] = v[k - 1] * Base + a[k] /\ a[k] = (n \div Weight[w - k]) % Base
        BY <1>5, <1>7, <2>5
    <2> DEFINE m == Weight[w - k]
    <2>9. m \in Nat /\ m > 0
        BY <1>1, <2>5
    <2> HIDE DEF m, T
    <2>10. n \div m = (n \div (Base * m)) * Base + ((n \div m) % Base)
        BY <1>1, <2>9, DigitSplit
    <2>11. v[k - 1] = n \div (Base * m) /\ a[k] = (n \div m) % Base
        BY <2>6, <2>7, <2>8 DEF m
    <2>12. v[k] = n \div m
        BY <2>8, <2>10, <2>11
    <2> QED BY <2>3, <2>12 DEF m
<1>9. v[w] = n
    <2>1. w \in 0..w /\ w - w = 0 /\ n \div 1 = n
        BY <1>1
    <2> QED BY <1>8, <2>1, Weights
<1> QED BY <1>4, <1>6, <1>9 DEF a

\* Alike up to some place, or the first greater at the first place at which
\* they differ
Alike(a, b, k) == \A e \in 1..k : a[e] = b[e]
Greater(a, b, k) == \E d \in 1..k : a[d] > b[d] /\ \A e \in 1..k : e < d => a[e] = b[e]

\* Digits alike denote the same; the first difference decides, whatever follows it.
LEMMA GreaterDenotesMore ==
    ASSUME NEW w \in Nat, NEW a \in [1..w -> Digit], NEW b \in [1..w -> Digit],
           NEW u, Denoted(u, a, w), NEW v, Denoted(v, b, w)
    PROVE  /\ Alike(a, b, w) => u[w] = v[w]
           /\ Greater(a, b, w) => u[w] > v[w]
<1>1. /\ u \in [0..w -> Nat] /\ u[0] = 0 /\ v \in [0..w -> Nat] /\ v[0] = 0
      /\ \A k \in 1..w : u[k] = u[k - 1] * Base + a[k] /\ v[k] = v[k - 1] * Base + b[k]
    BY DEF Denoted
<1>2. /\ Base \in Nat
      /\ \A k \in 1..w : a[k] \in 0..(Base - 1) /\ b[k] \in 0..(Base - 1)
    BY WidthsAssumption DEF Digit
<1>3. \A k \in 0..w : Alike(a, b, k) => u[k] = v[k]
    <2> DEFINE T == {k \in 0..w : Alike(a, b, k) /\ u[k] # v[k]}
    <2> SUFFICES ASSUME T # {} PROVE FALSE
        OBVIOUS
    <2>1. T \subseteq Nat
        OBVIOUS
    <2>2. PICK k \in T : \A m \in Nat : m < k => m \notin T
        BY <2>1, FirstFailure
    <2>3. k \in 0..w /\ Alike(a, b, k) /\ u[k] # v[k]
        OBVIOUS
    <2>4. k # 0
        BY <1>1, <2>3
    <2>5. k - 1 \in 0..w /\ k - 1 \in Nat /\ k - 1 < k /\ k \in 1..w /\ k \in 1..k
        BY <2>3, <2>4
    <2>6. Alike(a, b, k - 1) /\ a[k] = b[k]
        <3>1. \A e \in 1..(k - 1) : e \in 1..k
            BY <2>3
        <3> QED BY <2>3, <2>5, <3>1 DEF Alike
    <2>7. u[k - 1] = v[k - 1]
        BY <2>2, <2>5, <2>6
    <2> QED BY <1>1, <2>3, <2>5, <2>6, <2>7
<1>4. \A x, y \in Nat : x > y => x * Base >= y * Base + Base
    <2>1. ASSUME NEW x \in Nat, NEW y \in Nat, x > y
          PROVE  x * Base >= y * Base + Base
        <3> DEFINE z == x - y - 1
        <3>1. z \in Nat /\ x = y + 1 + z
            BY <2>1
        <3> HIDE DEF z
        <3>2. x * Base = y * Base + Base + z * Base
            BY <1>2, <3>1
        <3>3. z * Base \in Nat /\ y * Base \in Nat
            BY <1>2, <3>1
        <3>4. \A i, j \in Nat : j + Base + i >= j + Base
            BY <1>2
        <3> QED BY <3>2, <3>3, <3>4
    <2> QED BY <2>1
<1>4a. /\ \A i, j, x, y \in Nat : i >= j + Base /\ y < Base => i + x > j + y
       /\ \A i, x, y \in Nat : x > y => i + x > i + y
    BY <1>2
<1>5. \A k \in 0..w : Greater(a, b, k) => u[k] > v[k]
    <2> DEFINE T == {k \in 0..w : Greater(a, b, k) /\ ~(u[k] > v[k])}
    <2> SUFFICES ASSUME T # {} PROVE FALSE
        OBVIOUS
    <2>1. T \subseteq Nat
        OBVIOUS
    <2>2. PICK k \in T : \A m \in Nat : m < k => m \notin T
        BY <2>1, FirstFailure
    <2>3. k \in 0..w /\ Greater(a, b, k) /\ ~(u[k] > v[k])
        OBVIOUS
    <2>4. PICK d \in 1..k : a[d] > b[d] /\ \A e \in 1..k : e < d => a[e] = b[e]
        BY <2>3 DEF Greater
    <2>5. k \in 1..w /\ k - 1 \in 0..w /\ k - 1 \in Nat /\ k - 1 < k
        BY <2>3, <2>4
    <2>6. /\ u[k - 1] \in Nat /\ v[k - 1] \in Nat
          /\ a[k] \in Nat /\ b[k] \in Nat /\ b[k] < Base
          /\ u[k] = u[k - 1] * Base + a[k] /\ v[k] = v[k - 1] * Base + b[k]
          /\ u[k - 1] * Base \in Nat /\ v[k - 1] * Base \in Nat
        <3>1. u[k - 1] \in Nat /\ v[k - 1] \in Nat
            BY <1>1, <2>5
        <3>2. u[k - 1] * Base \in Nat /\ v[k - 1] * Base \in Nat
            BY <1>2, <3>1
        <3> QED BY <1>1, <1>2, <2>5, <3>1, <3>2
    <2>7. CASE d = k
        <3>1. Alike(a, b, k - 1)
            <4>1. \A e \in 1..(k - 1) : e \in 1..k /\ e < d
                BY <2>5, <2>7
            <4> QED BY <2>4, <4>1 DEF Alike
        <3>2. u[k - 1] = v[k - 1]
            BY <1>3, <2>5, <3>1
        <3>3. u[k - 1] * Base = v[k - 1] * Base
            BY <3>2
        <3>4. a[k] > b[k]
            BY <2>4, <2>7
        <3> QED BY <1>4a, <2>3, <2>6, <3>3, <3>4
    <2>8. CASE d # k
        <3>1. Greater(a, b, k - 1)
            <4>1. d \in 1..(k - 1) /\ \A e \in 1..(k - 1) : e \in 1..k
                BY <2>5, <2>8
            <4> QED BY <2>4, <4>1 DEF Greater
        <3>2. u[k - 1] > v[k - 1]
            BY <2>2, <2>5, <3>1
        <3>3. u[k - 1] * Base >= v[k - 1] * Base + Base
            BY <1>4, <2>6, <3>2
        <3> QED BY <1>4a, <2>3, <2>6, <3>3
    <2> QED BY <2>7, <2>8
<1> QED BY <1>3, <1>5

\* The comparison of arrays compares the numbers they denote.
LEMMA ExceedsIsMore ==
    ASSUME NEW w \in Nat, NEW a \in [1..w -> Digit], NEW b \in [1..w -> Digit]
    PROVE  /\ FromBeBytes(a) \in Nat /\ FromBeBytes(b) \in Nat
           /\ Exceeds(a, b) <=> FromBeBytes(a) > FromBeBytes(b)
<1>1. PICK u : Denoted(u, a, w) /\ FromBeBytes(a) = u[w]
    BY NumeralDenotes
<1>2. PICK v : Denoted(v, b, w) /\ FromBeBytes(b) = v[w]
    BY NumeralDenotes
<1>3. u[w] \in Nat /\ v[w] \in Nat
    <2>1. w \in 0..w
        OBVIOUS
    <2> QED BY <1>1, <1>2, <2>1 DEF Denoted
<1>4. Exceeds(a, b) <=> Greater(a, b, w)
    <2>1. DOMAIN a = 1..w
        OBVIOUS
    <2> QED BY <2>1 DEF Exceeds, Greater
<1>5. CASE Greater(a, b, w)
    <2>1. u[w] > v[w]
        BY <1>1, <1>2, <1>5, GreaterDenotesMore
    <2> QED BY <1>1, <1>2, <1>3, <1>4, <1>5, <2>1
<1>6. CASE Alike(a, b, w)
    <2>1. u[w] = v[w]
        BY <1>1, <1>2, <1>6, GreaterDenotesMore
    <2>2. ~Greater(a, b, w)
        <3>1. \A d \in 1..w : a[d] = b[d] /\ a[d] \in Int
            BY <1>6, WidthsAssumption DEF Alike, Digit
        <3>2. \A d \in 1..w : ~(a[d] > b[d])
            BY <3>1
        <3> QED BY <3>2 DEF Greater
    <2> QED BY <1>1, <1>2, <1>3, <1>4, <2>1, <2>2
<1>7. CASE ~Alike(a, b, w) /\ ~Greater(a, b, w)
    <2> DEFINE T == {d \in 1..w : a[d] # b[d]}
    <2>1. T \subseteq Nat /\ T # {}
        BY <1>7 DEF Alike
    <2>2. PICK d \in T : \A e \in Nat : e < d => e \notin T
        BY <2>1, FirstFailure
    <2>3. d \in 1..w /\ a[d] # b[d] /\ \A e \in 1..w : e < d => a[e] = b[e]
        BY <2>2
    <2>4. a[d] \in Int /\ b[d] \in Int
        BY <2>3, WidthsAssumption DEF Digit
    <2>5. b[d] > a[d]
        BY <1>7, <2>3, <2>4 DEF Greater
    <2>6. Greater(b, a, w)
        BY <2>3, <2>5 DEF Greater
    <2>7. v[w] > u[w]
        BY <1>1, <1>2, <2>6, GreaterDenotesMore
    <2> QED BY <1>1, <1>2, <1>3, <1>4, <1>7, <2>7
<1> QED BY <1>5, <1>6, <1>7

-----------------------------------------------------------------------------
(* Preimages *)

\* The declaration, field by field
Types == {"B256", "U256", "Address", "BtcNetwork", "u32", "u64"}

\* There are fifteen fields, of these types (order.rs, OrderPreimage).
LEMMA Declared ==
    /\ Len(OrderPreimage) = 15 /\ DOMAIN OrderPreimage = 1..15
    /\ \A n \in 1..15 : OrderPreimage[n].type \in Types
    /\ OrderPreimage[7] = Field("destination_amount", "U256")
    /\ OrderPreimage[13] = Field("max_destination_amount_cap", "U256")
<1>1. /\ Len(OrderPreimage) = 15 /\ DOMAIN OrderPreimage = 1..15
      /\ OrderPreimage[7] = Field("destination_amount", "U256")
      /\ OrderPreimage[13] = Field("max_destination_amount_cap", "U256")
    BY DEF OrderPreimage
<1>2. \A n \in 1..15 : OrderPreimage[n].type \in Types
    BY DEF OrderPreimage, Field, Types
<1> QED BY <1>1, <1>2

\* Every type has a width.
LEMMA WidthIsNat == \A type \in Types : Width(type) \in Nat
BY WidthsAssumption DEF Width, Types

\* The fields lie behind one another.
LEMMA Offsets ==
    /\ Offset[1] = 0
    /\ \A n \in 1..16 : Offset[n] \in Nat
    /\ \A n \in 1..15 : Offset[n + 1] = Offset[n] + Width(OrderPreimage[n].type)
<1> DEFINE wide(n) == IF n \in 1..15 THEN Width(OrderPreimage[n].type) ELSE 0
           step == [n \in Nat |-> [x \in Nat |-> x + wide(n)]]
           Solves(g) == g = [n \in 1..16 |->
                                IF n = 1 THEN 0 ELSE g[n - 1] + Width(OrderPreimage[n - 1].type)]
<1>1. \A n \in Nat : wide(n) \in Nat
    BY Declared, WidthIsNat
<1>2. \A n \in 1..15 : wide(n) = Width(OrderPreimage[n].type)
    OBVIOUS
<1> HIDE DEF wide
<1>3. step \in [Nat -> [Nat -> Nat]] /\ \A n, x \in Nat : step[n][x] = x + wide(n)
    <2>1. \A n, x \in Nat : x + wide(n) \in Nat
        BY <1>1
    <2> QED BY <2>1
<1> HIDE DEF step
<1>4. PICK f \in [Nat -> Nat] : f[0] = 0 /\ \A n \in Nat \ {0} : f[n] = step[n][f[n - 1]]
    <2> DEFINE zero == 0  S == Nat
    <2>1. step \in [Nat -> [S -> S]] /\ zero \in S
        BY <1>3
    <2> HIDE DEF zero, S
    <2>2. \E f : Recurs(f, S, zero, step)
        BY <2>1, RecursionExists
    <2> QED BY <2>2 DEF Recurs, zero, S
<1>5. \A n \in 1..15 : f[n] = f[n - 1] + Width(OrderPreimage[n].type)
    <2>1. \A n \in 1..15 : n \in Nat \ {0} /\ n - 1 \in Nat
        OBVIOUS
    <2> QED BY <1>2, <1>3, <1>4, <2>1
<1> DEFINE g == [n \in 1..16 |-> f[n - 1]]
<1>6. Solves(g)
    <2>1. \A n \in 1..16 : n - 1 \in Nat /\ (n # 1 => n - 1 \in 1..15 /\ n - 1 \in 1..16)
        OBVIOUS
    <2>2. ASSUME NEW n \in 1..16
          PROVE  g[n] = IF n = 1 THEN 0 ELSE g[n - 1] + Width(OrderPreimage[n - 1].type)
        <3>1. CASE n = 1
            BY <1>4, <3>1
        <3>2. CASE n # 1
            <4>1. n - 1 \in 1..15 /\ n - 1 \in 1..16
                BY <2>1, <3>2
            <4>2. g[n] = f[n - 1] /\ g[n - 1] = f[(n - 1) - 1]
                BY <4>1
            <4> HIDE DEF g
            <4> QED BY <1>5, <3>2, <4>1, <4>2
        <3> QED BY <3>1, <3>2
    <2>3. g = [n \in 1..16 |-> g[n]]
        OBVIOUS
    <2> HIDE DEF g
    <2> QED BY <2>2, <2>3
<1>7. Len(OrderPreimage) + 1 = 16
    BY Declared
<1>8. Offset = CHOOSE h : Solves(h)
    BY <1>7 DEF Offset
<1>9. Solves(Offset)
    BY <1>6, <1>8
<1>10. /\ Offset[1] = 0
       /\ \A n \in 2..16 : Offset[n] = Offset[n - 1] + Width(OrderPreimage[n - 1].type)
    <2>1. 1 \in 1..16 /\ \A n \in 2..16 : n \in 1..16 /\ n # 1
        OBVIOUS
    <2> QED BY <1>9, <2>1
<1>11. \A n \in 1..15 : Offset[n + 1] = Offset[n] + Width(OrderPreimage[n].type)
    <2>1. \A n \in 1..15 : n + 1 \in 2..16 /\ (n + 1) - 1 = n
        OBVIOUS
    <2> QED BY <1>10, <2>1
<1>12. \A n \in 1..16 : Offset[n] \in Nat
    <2> DEFINE T == {n \in 1..16 : Offset[n] \notin Nat}
    <2> SUFFICES ASSUME T # {} PROVE FALSE
        OBVIOUS
    <2>1. T \subseteq Nat
        OBVIOUS
    <2>2. PICK n \in T : \A m \in Nat : m < n => m \notin T
        BY <2>1, FirstFailure
    <2>3. n \in 1..16 /\ Offset[n] \notin Nat /\ n # 1
        BY <1>10
    <2>4. n \in 2..16 /\ n - 1 \in 1..15 /\ n - 1 \in 1..16 /\ n - 1 \in Nat /\ n - 1 < n
        BY <2>3
    <2>5. Offset[n - 1] \in Nat /\ Width(OrderPreimage[n - 1].type) \in Nat
        BY <2>2, <2>4, Declared, WidthIsNat
    <2>6. Offset[n] \in Nat
        BY <1>10, <2>4, <2>5
    <2> QED BY <2>3, <2>6
<1> QED BY <1>10, <1>11, <1>12

\* A network has one tag.
LEMMA TagReads ==
    \A v \in {"mainnet", "testnet", "signet", "regtest"} :
        Tag(v) \in 0..3 /\ Networks[Tag(v) + 1] = v
<1> SUFFICES ASSUME NEW v \in {"mainnet", "testnet", "signet", "regtest"}
             PROVE  Tag(v) \in 0..3 /\ Networks[Tag(v) + 1] = v
    OBVIOUS
<1>1. \E n \in 0..3 : Networks[n + 1] = v
    <2>1. Networks[0 + 1] = "mainnet" /\ Networks[1 + 1] = "testnet"
          /\ Networks[2 + 1] = "signet" /\ Networks[3 + 1] = "regtest"
        BY DEF Networks
    <2>2. 0 \in 0..3 /\ 1 \in 0..3 /\ 2 \in 0..3 /\ 3 \in 0..3
        OBVIOUS
    <2> QED BY <2>1, <2>2
<1> QED BY <1>1 DEF Tag

\* A single digit denotes itself.
LEMMA DigitReads == \A d \in Digit : FromBeBytes(<<d>>) = d
<1> SUFFICES ASSUME NEW d \in Digit PROVE FromBeBytes(<<d>>) = d
    OBVIOUS
<1> DEFINE a == <<d>>  one == 1
<1>1. a \in [1..one -> Digit] /\ one \in Nat /\ a[1] = d
    OBVIOUS
<1>2. d \in Nat /\ Base \in Nat
    BY WidthsAssumption DEF Digit
<1> HIDE DEF a, one
<1>3. PICK v : Denoted(v, a, one) /\ FromBeBytes(a) = v[one]
    BY <1>1, NumeralDenotes
<1>4. v[0] = 0 /\ v[1] = v[0] * Base + d
    <2>1. 1 \in 1..one /\ 1 - 1 = 0
        BY DEF one
    <2> QED BY <1>1, <1>3, <2>1 DEF Denoted
<1>5. FromBeBytes(a) = d
    BY <1>2, <1>3, <1>4 DEF one
<1> QED BY <1>5 DEF a

\* What canonical_encode writes of a field is as wide as its type says and is
\* read back as its value.
LEMMA FieldReads ==
    ASSUME NEW n \in 1..15, IsPreimage(pre)
    PROVE  LET field == OrderPreimage[n] IN
           /\ FieldBytes(field) \in Seq(Digit)
           /\ Len(FieldBytes(field)) = Width(field.type)
           /\ FieldValue(field, FieldBytes(field)) = pre[field.name]
<1> DEFINE f == OrderPreimage[n]  w == Width(f.type)  v == pre[f.name]
<1>1. f.type \in Types /\ v \in Values(f.type) /\ w \in Nat
    BY Declared, WidthIsNat DEF IsPreimage
<1> HIDE DEF f, w, v
<1>2. SUFFICES /\ FieldBytes(f) \in [1..w -> Digit]
               /\ FieldValue(f, FieldBytes(f)) = v
    <2>1. FieldBytes(f) \in Seq(Digit) /\ Len(FieldBytes(f)) = w
        BY <1>1, <1>2, LengthOf
    <2> QED BY <1>2, <2>1 DEF f, w, v
<1>3. CASE f.type \in {"B256", "U256", "Address"}
    <2>1. v \in [1..w -> Digit] /\ FieldBytes(f) = v /\ FieldValue(f, v) = v
        BY <1>1, <1>3 DEF Values, FieldBytes, FieldValue, v, w
    <2> QED BY <2>1
<1>4. CASE f.type = "BtcNetwork"
    <2> DEFINE t == Tag(v)
    <2>1. t \in 0..3 /\ Networks[t + 1] = v
        BY <1>1, <1>4, TagReads DEF Values
    <2>2. w = 1 /\ t \in Digit
        BY <1>4, <2>1, WidthsAssumption DEF w, Width, Digit
    <2>3. FieldBytes(f) = <<t>> /\ FieldValue(f, <<t>>) = Networks[FromBeBytes(<<t>>) + 1]
        BY <1>4 DEF FieldBytes, FieldValue, v
    <2> HIDE DEF t
    <2>4. <<t>> \in [1..w -> Digit] /\ FromBeBytes(<<t>>) = t
        BY <2>2, DigitReads
    <2> QED BY <2>1, <2>3, <2>4
<1>5. CASE f.type \in {"u32", "u64"}
    <2>1. v \in 0..(Weight[w] - 1)
        BY <1>1, <1>5 DEF Values, w
    <2>2. FieldBytes(f) = ToBeBytes(v, w)
          /\ FieldValue(f, ToBeBytes(v, w)) = FromBeBytes(ToBeBytes(v, w))
        BY <1>5 DEF FieldBytes, FieldValue, v, w
    <2>3. ToBeBytes(v, w) \in [1..w -> Digit] /\ FromBeBytes(ToBeBytes(v, w)) = v
        BY <1>1, <2>1, DigitsDenote
    <2> QED BY <2>2, <2>3
<1> QED BY <1>1, <1>3, <1>4, <1>5 DEF Types

\* The ends of what is written
LEMMA Behind ==
    ASSUME NEW s \in Seq(Digit), NEW b \in Seq(Digit)
    PROVE  /\ SubSeq(s \o b, Len(s) + 1, Len(s) + Len(b)) = b
           /\ \A i, w \in Nat : i + w <= Len(s) =>
                SubSeq(s \o b, i + 1, i + w) = SubSeq(s, i + 1, i + w)
<1> DEFINE c == s \o b
<1>1. /\ c \in Seq(Digit) /\ Len(c) = Len(s) + Len(b)
      /\ \A k \in 1..(Len(s) + Len(b)) : c[k] = IF k <= Len(s) THEN s[k] ELSE b[k - Len(s)]
    BY ConcatProperties
<1>2. Len(s) \in Nat /\ Len(b) \in Nat /\ DOMAIN b = 1..Len(b) /\ DOMAIN s = 1..Len(s)
    OBVIOUS
<1>3. \A k \in 1..Len(s) : c[k] = s[k] /\ c[k] \in Digit /\ s[k] \in Digit
    BY <1>1, <1>2
<1>4. \A k \in 1..Len(b) : c[Len(s) + k] = b[k] /\ b[k] \in Digit
    BY <1>1, <1>2
<1> HIDE DEF c
<1>5. SubSeq(c, Len(s) + 1, Len(s) + Len(b)) = b
    <2> DEFINE i == Len(s) + 1  j == Len(s) + Len(b)  t == SubSeq(c, i, j)
    <2>1. i \in Int /\ j \in Int /\ (j - i) + 1 = Len(b) /\ (i > j => Len(b) = 0)
        BY <1>2
    <2>2. \A k \in i..j : c[k] \in Digit
        <3>1. \A k \in i..j : k - Len(s) \in 1..Len(b) /\ k = Len(s) + (k - Len(s))
            BY <1>2
        <3> QED BY <3>1, <1>4
    <2>3. \A k \in 1..Len(b) : (i + k) - 1 = Len(s) + k
        BY <1>2
    <2> HIDE DEF i, j
    <2>4. t \in Seq(Digit) /\ Len(t) = Len(b) /\ \A k \in 1..Len(b) : t[k] = c[(i + k) - 1]
        BY <2>1, <2>2, SubSeqProperties
    <2>5. \A k \in 1..Len(b) : t[k] = b[k]
        BY <1>4, <2>3, <2>4
    <2> HIDE DEF t
    <2>6. t = b
        BY <2>4, <2>5
    <2> QED BY <2>6 DEF t, i, j
<1>6. ASSUME NEW e \in Nat, NEW w \in Nat, e + w <= Len(s)
      PROVE  SubSeq(c, e + 1, e + w) = SubSeq(s, e + 1, e + w)
    <2> DEFINE i == e + 1  j == e + w  t == SubSeq(c, i, j)  r == SubSeq(s, i, j)
    <2>1. i \in Int /\ j \in Int /\ (j - i) + 1 = w /\ (i > j => w = 0)
        OBVIOUS
    <2>2. \A k \in i..j : k \in 1..Len(s)
        BY <1>2, <1>6
    <2>3. \A k \in 1..w : (i + k) - 1 \in i..j
        OBVIOUS
    <2> HIDE DEF i, j
    <2>4. t \in Seq(Digit) /\ Len(t) = w /\ \A k \in 1..w : t[k] = c[(i + k) - 1]
        BY <1>3, <2>1, <2>2, SubSeqProperties
    <2>5. r \in Seq(Digit) /\ Len(r) = w /\ \A k \in 1..w : r[k] = s[(i + k) - 1]
        BY <1>3, <2>1, <2>2, SubSeqProperties
    <2>6. \A k \in 1..w : t[k] = r[k]
        BY <1>3, <2>2, <2>3, <2>4, <2>5
    <2> HIDE DEF t, r
    <2>7. t = r
        BY <2>4, <2>5, <2>6
    <2> QED BY <2>7 DEF t, r, i, j
<1> QED BY <1>5, <1>6 DEF c

\* The n-th field stands where the declaration puts it.
Placed(n) ==
    /\ Offset[n + 1] <= Len(o)
    /\ SubSeq(o, Offset[n] + 1, Offset[n] + Width(OrderPreimage[n].type))
           = FieldBytes(OrderPreimage[n])

\* What every step of order_id and of validate preserves
OrderIInv ==
    /\ orderAt \in {"validate", "encode", "done"}
    /\ pre \in Preimages
    /\ fields \in 0..15
    /\ o \in Seq(Digit) /\ Len(o) = Offset[fields + 1]
    /\ \A n \in 1..fields : Placed(n)
    /\ error \in {"none", "Timeline", "DestinationAmountCapExceeded", "ok"}
    /\ error = "ok" => ~Exceeds(pre.destination_amount, pre.max_destination_amount_cap)
    /\ error = "DestinationAmountCapExceeded" =>
           Exceeds(pre.destination_amount, pre.max_destination_amount_cap)

\* It holds of the preimage called on,
LEMMA CallPlaces == Call => OrderIInv
<1> SUFFICES ASSUME Call PROVE OrderIInv
    OBVIOUS
<1>1. orderAt \in {"validate", "encode"} /\ pre \in Preimages /\ error = "none"
      /\ o = <<>> /\ fields = 0
    BY DEF Call
<1>2. o \in Seq(Digit) /\ Len(o) = 0 /\ fields + 1 = 1 /\ fields \in 0..15
    BY <1>1
<1>3. \A n \in 1..fields : Placed(n)
    BY <1>1
<1> QED BY <1>1, <1>2, <1>3, Offsets DEF OrderIInv

\* A field is written behind those before it, which stay where they are.
LEMMA ExtendPlaces == ASSUME OrderIInv, Extend PROVE OrderIInv'
<1> DEFINE m == fields + 1  f == OrderPreimage[m]  b == FieldBytes(f)
<1>1. /\ m \in 1..15 /\ fields' = m /\ o' = o \o b /\ o \in Seq(Digit)
      /\ pre' = pre /\ error' = error /\ orderAt' = orderAt /\ Len(o) = Offset[m]
    BY Declared DEF OrderIInv, Extend
<1>1a. /\ m \in 0..15 /\ m \in 1..16 /\ m + 1 \in 1..16
       /\ \A n \in 1..m : n # m =>
            n \in 1..fields /\ n \in 1..15 /\ n \in 1..16 /\ n + 1 \in 1..16
    <2>1. fields \in Int /\ m = fields + 1
        BY DEF OrderIInv
    <2> QED BY <1>1, <2>1
<1>2. IsPreimage(pre)
    BY PreimagesAssumption DEF OrderIInv
<1>3. b \in Seq(Digit) /\ Len(b) = Width(f.type)
    BY <1>1, <1>2, FieldReads
<1>4. /\ Offset[m + 1] = Offset[m] + Width(f.type)
      /\ \A n \in 1..16 : Offset[n] \in Nat
    BY <1>1, Offsets
<1>5. \A n \in 1..15 : FieldBytes(OrderPreimage[n])' = FieldBytes(OrderPreimage[n])
    BY <1>1 DEF FieldBytes
<1> HIDE DEF b, f, m
<1>6. o' \in Seq(Digit) /\ Len(o') = Offset[m + 1]
    <2>1. o \o b \in Seq(Digit) /\ Len(o \o b) = Len(o) + Len(b)
        BY <1>1, <1>3, ConcatProperties
    <2> QED BY <1>1, <1>3, <1>4, <2>1
<1>7. Len(o') >= Len(o)
    <2>1. Width(f.type) \in Nat
        BY <1>1, Declared, WidthIsNat DEF f
    <2>2. Offset[m] \in Nat
        BY <1>1a, <1>4
    <2> DEFINE w == Width(f.type)
    <2> HIDE DEF w
    <2>3. w \in Nat /\ Len(o') = Len(o) + w /\ Len(o) \in Nat
        BY <1>1, <1>4, <1>6, <2>1, <2>2 DEF w
    <2> QED BY <2>3
<1>8. ASSUME NEW n \in 1..m PROVE Placed(n)'
    <2>1. CASE n = m
        <3>1. SubSeq(o', Len(o) + 1, Len(o) + Len(b)) = b
            BY <1>1, <1>3, Behind
        <3>2. SubSeq(o', Offset[m] + 1, Offset[m] + Width(f.type)) = b
            BY <1>1, <1>3, <3>1
        <3>3. Offset[m + 1] <= Len(o')
            BY <1>1a, <1>4, <1>6
        <3> QED BY <1>1, <1>5, <2>1, <3>2, <3>3 DEF Placed, b, f
    <2>2. CASE n # m
        <3> DEFINE i == Offset[n]  w == Width(OrderPreimage[n].type)
        <3>1. n \in 1..fields /\ n \in 1..15 /\ n \in 1..16 /\ n + 1 \in 1..16
            BY <1>1a, <2>2
        <3>2. Placed(n)
            BY <3>1 DEF OrderIInv
        <3>3. i \in Nat /\ w \in Nat /\ Offset[n + 1] = i + w
            BY <3>1, Offsets, Declared, WidthIsNat
        <3> HIDE DEF i, w
        <3>4. i + w <= Len(o)
            BY <3>2, <3>3 DEF Placed
        <3>5. SubSeq(o', i + 1, i + w) = SubSeq(o, i + 1, i + w)
            BY <1>1, <1>3, <3>3, <3>4, Behind
        <3>6. Offset[n + 1] <= Len(o')
            <4>1. Len(o) \in Nat /\ Len(o') \in Nat
                BY <1>1, <1>6
            <4> QED BY <1>7, <3>3, <3>4, <4>1
        <3> QED BY <1>5, <3>1, <3>2, <3>5, <3>6 DEF Placed, i, w
    <2> QED BY <2>1, <2>2
<1> QED BY <1>1, <1>1a, <1>6, <1>8 DEF OrderIInv

\* neither the end of the encoding
LEMMA OrderIdPlaces == ASSUME OrderIInv, OrderId PROVE OrderIInv'
<1>1. pre' = pre /\ o' = o /\ fields' = fields /\ error' = error /\ orderAt' = "done"
    BY DEF OrderId
<1>2. \A n \in 1..fields : Placed(n)' = Placed(n)
    BY <1>1 DEF Placed, FieldBytes
<1> QED BY <1>1, <1>2 DEF OrderIInv

\* nor validate, which writes nothing, moves a field,
LEMMA ValidatePlaces == ASSUME OrderIInv, Validate PROVE OrderIInv'
<1> DEFINE over == Exceeds(pre.destination_amount, pre.max_destination_amount_cap)
<1>1. pre' = pre /\ o' = o /\ fields' = fields /\ orderAt' = "done"
    BY DEF Validate
<1>2. \/ error' = "Timeline"
      \/ error' = "DestinationAmountCapExceeded" /\ over
      \/ error' = "ok" /\ ~over
    BY DEF Validate
<1>3. \A n \in 1..fields : Placed(n)' = Placed(n)
    BY <1>1 DEF Placed, FieldBytes
<1>4. over' = over
    BY <1>1 DEF Exceeds
<1> HIDE DEF over
<1> QED BY <1>1, <1>2, <1>3, <1>4 DEF OrderIInv, over

\* and so every field written stays in its place.
LEMMA WrittenInPlace == OrderSpec => []OrderIInv
<1>1. ASSUME OrderIInv, [OrderNext]_orderVars PROVE OrderIInv'
    <2>1. CASE Extend
        BY <1>1, <2>1, ExtendPlaces
    <2>2. CASE OrderId
        BY <1>1, <2>2, OrderIdPlaces
    <2>3. CASE Validate
        BY <1>1, <2>3, ValidatePlaces
    <2>4. CASE UNCHANGED orderVars
        <3>1. pre' = pre /\ o' = o /\ fields' = fields /\ error' = error /\ orderAt' = orderAt
            BY <2>4 DEF orderVars
        <3>2. \A n \in 1..fields : Placed(n)' = Placed(n)
            BY <3>1 DEF Placed, FieldBytes
        <3> QED BY <1>1, <3>1, <3>2 DEF OrderIInv
    <2> QED BY <1>1, <2>1, <2>2, <2>3, <2>4 DEF OrderNext
<1> QED BY <1>1, CallPlaces, PTL DEF OrderSpec

\* The encoding is made of digits, as long as the fields written are wide
\* (order.rs:73-91).
THEOREM WrittenInFull == OrderSpec => []OrderTypeOK
<1>1. OrderIInv => OrderTypeOK
    <2>1. ASSUME OrderIInv PROVE \A n \in DOMAIN o : o[n] \in Digit
        BY <2>1 DEF OrderIInv
    <2> QED BY <2>1 DEF OrderIInv, OrderTypeOK
<1> QED BY <1>1, WrittenInPlace, PTL

\* Whoever knows the declaration reads every field of the preimage back from
\* its encoding (order.rs:70-72).
THEOREM OrderIsReadBack == OrderSpec => []Unambiguous
<1>1. OrderIInv => Unambiguous
    <2> SUFFICES ASSUME OrderIInv, NEW n \in 1..fields
                 PROVE  Offset[n + 1] <= Len(o) /\ ReadBack(n) = pre[OrderPreimage[n].name]
        BY DEF Unambiguous
    <2>1. Placed(n) /\ n \in 1..15
        BY DEF OrderIInv
    <2>2. IsPreimage(pre)
        BY PreimagesAssumption DEF OrderIInv
    <2>3. FieldValue(OrderPreimage[n], FieldBytes(OrderPreimage[n])) = pre[OrderPreimage[n].name]
        BY <2>1, <2>2, FieldReads
    <2> QED BY <2>1, <2>3 DEF Placed, ReadBack
<1> QED BY <1>1, WrittenInPlace, PTL

\* validate compares the amounts as numbers (order.rs:104).
THEOREM AmountsAreCompared == OrderSpec => []ComparedAsNumbers
<1>1. OrderIInv => ComparedAsNumbers
    <2> DEFINE a == pre.destination_amount  b == pre.max_destination_amount_cap  w == ArrayWidth
    <2> SUFFICES ASSUME OrderIInv PROVE ComparedAsNumbers
        OBVIOUS
    <2>1. a \in [1..w -> Digit] /\ b \in [1..w -> Digit]
        <3>1. IsPreimage(pre)
            BY PreimagesAssumption DEF OrderIInv
        <3>2. 7 \in DOMAIN OrderPreimage /\ 13 \in DOMAIN OrderPreimage
            BY Declared
        <3>3. a \in Values("U256") /\ b \in Values("U256")
            BY <3>1, <3>2, Declared DEF IsPreimage, Field
        <3> QED BY <3>3 DEF Values, Width
    <2>2. w \in Nat
        BY WidthsAssumption
    <2>3. /\ error = "ok" => ~Exceeds(a, b)
          /\ error = "DestinationAmountCapExceeded" => Exceeds(a, b)
        BY DEF OrderIInv
    <2> HIDE DEF a, b, w
    <2>4. /\ FromBeBytes(a) \in Nat /\ FromBeBytes(b) \in Nat
          /\ Exceeds(a, b) <=> FromBeBytes(a) > FromBeBytes(b)
        BY <2>1, <2>2, ExceedsIsMore
    <2>5. error \in {"ok", "DestinationAmountCapExceeded"} =>
              ( error = "ok" <=> FromBeBytes(a) <= FromBeBytes(b) )
        BY <2>3, <2>4
    <2> QED BY <2>5 DEF ComparedAsNumbers, a, b
<1> QED BY <1>1, WrittenInPlace, PTL

-----------------------------------------------------------------------------
(* Compact targets *)

\* The weights of the digits of a word
LEMMA ThreeDigits ==
    /\ Weight[1] = Base /\ Weight[2] = Base * Weight[1] /\ Weight[3] = Base * Weight[2]
    /\ Base \in Nat /\ Base >= 4 /\ Weight[2] \in Nat \ {0} /\ Weight[3] \in Nat \ {0}
<1>1. /\ 1 \in Nat \ {0} /\ 2 \in Nat \ {0} /\ 3 \in Nat \ {0}
      /\ 1 - 1 = 0 /\ 2 - 1 = 1 /\ 3 - 1 = 2
    OBVIOUS
<1>2. Base \in Nat /\ Base >= 4
    BY WidthsAssumption
<1>3. /\ Weight[1] = Base * Weight[0] /\ Weight[2] = Base * Weight[1]
      /\ Weight[3] = Base * Weight[2]
    BY <1>1, Weights
<1>4. Weight[2] \in Nat \ {0} /\ Weight[3] \in Nat \ {0}
    BY <1>1, Weights
<1> QED BY <1>2, <1>3, <1>4, Weights

\* Bytes are digits.
LEMMA BytesAreDigits == \A n, m \in Nat : Byte(n, m) \in Digit /\ Byte(n, m) \in Nat
<1>1. \A m \in Nat : Weight[m] \in Nat /\ Weight[m] > 0
    BY Weights
<1>2. \A n, m \in Nat : (n \div Weight[m]) % Base \in Digit
    BY <1>1, DigitSplit
<1>3. Base \in Nat /\ \A d \in Digit : d \in Nat
    BY ThreeDigits DEF Digit
<1> QED BY <1>2, <1>3 DEF Byte

\* What digits denote is less than the next digit would count for.
LEMMA NumeralBelow ==
    ASSUME NEW w \in Nat, NEW a \in [1..w -> Digit]
    PROVE  FromBeBytes(a) \in Nat /\ FromBeBytes(a) < Weight[w]
<1>1. PICK v : Denoted(v, a, w) /\ FromBeBytes(a) = v[w]
    BY NumeralDenotes
<1>2. /\ v \in [0..w -> Nat] /\ v[0] = 0
      /\ \A k \in 1..w : v[k] = v[k - 1] * Base + a[k]
    BY <1>1 DEF Denoted
<1>3. Base \in Nat /\ \A k \in 1..w : a[k] \in Nat /\ a[k] < Base
    BY WidthsAssumption DEF Digit
<1>4. \A x, y, d \in Nat : x < y /\ d < Base => x * Base + d < Base * y
    <2>1. ASSUME NEW x \in Nat, NEW y \in Nat, NEW d \in Nat, x < y, d < Base
          PROVE  x * Base + d < Base * y
        <3> DEFINE z == y - x - 1
        <3>1. z \in Nat /\ y = x + 1 + z
            BY <2>1
        <3> HIDE DEF z
        <3>2. Base * y = x * Base + Base + z * Base
            BY <1>3, <3>1
        <3>3. x * Base \in Nat /\ z * Base \in Nat
            BY <1>3, <3>1
        <3>4. \A i, j \in Nat : i + d < i + Base + j
            BY <1>3, <2>1
        <3> QED BY <3>2, <3>3, <3>4
    <2> QED BY <2>1
<1>5. \A k \in 0..w : v[k] < Weight[k]
    <2> DEFINE T == {k \in 0..w : ~(v[k] < Weight[k])}
    <2> SUFFICES ASSUME T # {} PROVE FALSE
        OBVIOUS
    <2>1. T \subseteq Nat
        OBVIOUS
    <2>2. PICK k \in T : \A j \in Nat : j < k => j \notin T
        BY <2>1, FirstFailure
    <2>3. k \in 0..w /\ ~(v[k] < Weight[k])
        OBVIOUS
    <2>4. k # 0
        BY <1>2, <2>3, Weights
    <2>5. k \in 1..w /\ k \in Nat \ {0} /\ k - 1 \in 0..w /\ k - 1 \in Nat /\ k - 1 < k
        BY <2>3, <2>4
    <2>6. v[k - 1] \in Nat /\ Weight[k - 1] \in Nat /\ v[k - 1] < Weight[k - 1]
        BY <1>2, <2>2, <2>5, Weights
    <2>7. v[k] = v[k - 1] * Base + a[k] /\ Weight[k] = Base * Weight[k - 1]
        BY <1>2, <2>5, Weights
    <2> HIDE DEF T
    <2>8. v[k - 1] * Base + a[k] < Base * Weight[k - 1]
        BY <1>3, <1>4, <2>5, <2>6
    <2> QED BY <2>3, <2>7, <2>8
<1>6. w \in 0..w
    OBVIOUS
<1> QED BY <1>1, <1>2, <1>5, <1>6

\* A number of three digits, written with i zeros in front of it and j behind
\* it, denotes what it counts for there.
LEMMA ThreeDigitsDenote ==
    ASSUME NEW i \in Nat, NEW j \in Nat, NEW n \in Nat, n < Weight[3],
           NEW a, a = [k \in 1..(i + 3 + j) |-> a[k]],
           \A k \in 1..(i + 3 + j) :
               a[k] = IF k \in (i + 1)..(i + 3) THEN Byte(n, i + 3 - k) ELSE 0
    PROVE  a \in [1..(i + 3 + j) -> Digit] /\ FromBeBytes(a) = n * Weight[j]
<1> DEFINE w == i + 3 + j
<1>1. w \in Nat /\ i + 3 <= w
    OBVIOUS
<1>2. Base \in Nat /\ Base >= 4
    BY ThreeDigits
<1>3. \A m \in Nat : Byte(n, m) \in Digit /\ Byte(n, m) \in Nat
    BY BytesAreDigits
<1>4. a \in [1..w -> Digit]
    <2>1. 0 \in Digit
        BY <1>2 DEF Digit
    <2>2. \A k \in (i + 1)..(i + 3) : i + 3 - k \in Nat
        OBVIOUS
    <2> QED BY <1>3, <2>1, <2>2
<1>5. /\ a[i + 1] = Byte(n, 2) /\ a[i + 2] = Byte(n, 1) /\ a[i + 3] = Byte(n, 0)
      /\ \A k \in 1..w : k \notin (i + 1)..(i + 3) => a[k] = 0
    <2>1. /\ i + 1 \in (i + 1)..(i + 3) /\ i + 2 \in (i + 1)..(i + 3)
          /\ i + 3 \in (i + 1)..(i + 3)
          /\ i + 1 \in 1..w /\ i + 2 \in 1..w /\ i + 3 \in 1..w
          /\ i + 3 - (i + 1) = 2 /\ i + 3 - (i + 2) = 1 /\ i + 3 - (i + 3) = 0
        OBVIOUS
    <2> QED BY <2>1
<1> HIDE DEF w
<1>6. PICK v : Denoted(v, a, w) /\ FromBeBytes(a) = v[w]
    BY <1>1, <1>4, NumeralDenotes
<1>7. /\ v \in [0..w -> Nat] /\ v[0] = 0
      /\ \A k \in 1..w : v[k] = v[k - 1] * Base + a[k]
    BY <1>6 DEF Denoted
<1>8. \A k \in 0..i : v[k] = 0
    <2> DEFINE T == {k \in 0..i : v[k] # 0}
    <2> SUFFICES ASSUME T # {} PROVE FALSE
        OBVIOUS
    <2>1. T \subseteq Nat
        OBVIOUS
    <2>2. PICK k \in T : \A m \in Nat : m < k => m \notin T
        BY <2>1, FirstFailure
    <2>3. k \in 0..i /\ v[k] # 0
        OBVIOUS
    <2>4. k \in 1..w /\ k - 1 \in 0..i /\ k - 1 \in Nat /\ k - 1 < k /\ k \notin (i + 1)..(i + 3)
        BY <1>1, <1>7, <2>3
    <2>5. v[k - 1] = 0 /\ v[k] = v[k - 1] * Base + a[k] /\ a[k] = 0
        BY <1>5, <1>7, <2>2, <2>4
    <2> QED BY <1>2, <2>3, <2>5
<1> DEFINE c == Weight[1]  d == Weight[2]
<1>9. n = (n \div c) * Base + Byte(n, 0)
    <2>1. n \div 1 = n /\ Base * 1 = Base /\ 1 \in Nat /\ 1 > 0
        BY <1>2
    <2>2. n \div 1 = (n \div (Base * 1)) * Base + ((n \div 1) % Base)
        BY <2>1, DigitSplit
    <2> QED BY <2>1, <2>2, ThreeDigits, Weights DEF Byte
<1>10. n \div c = (n \div d) * Base + Byte(n, 1)
    <2>1. c \in Nat /\ c > 0 /\ d = Base * c
        BY ThreeDigits
    <2> HIDE DEF c, d
    <2>2. n \div c = (n \div (Base * c)) * Base + ((n \div c) % Base)
        BY <2>1, DigitSplit
    <2> QED BY <2>1, <2>2 DEF Byte, c
<1>11. n \div d = Byte(n, 2)
    <2>1. d \in Nat /\ d > 0 /\ Weight[3] = Base * d /\ Weight[3] \in Nat
        BY ThreeDigits
    <2> DEFINE e == Weight[3]
    <2>2. e = Base * d /\ e \in Nat /\ n < e
        BY <2>1
    <2> HIDE DEF d, e
    <2>3. n \div e = 0
        BY <2>2
    <2>4. n \div d = (n \div (Base * d)) * Base + ((n \div d) % Base)
        BY <2>1, DigitSplit
    <2>5. (n \div d) % Base \in Nat
        BY <1>2, <2>1, DigitSplit DEF Digit
    <2> QED BY <1>2, <2>2, <2>3, <2>4, <2>5 DEF Byte, d
<1> HIDE DEF c, d
<1>12. v[i + 3] = n
    <2>1. /\ i \in 0..i /\ i + 1 \in 1..w /\ i + 2 \in 1..w /\ i + 3 \in 1..w
          /\ (i + 1) - 1 = i /\ (i + 2) - 1 = i + 1 /\ (i + 3) - 1 = i + 2
        BY <1>1
    <2>2. v[i] = 0
        BY <1>8, <2>1
    <2>3. v[i + 1] = 0 * Base + Byte(n, 2)
        BY <1>5, <1>7, <2>1, <2>2
    <2>4. v[i + 1] = n \div d
        <3>1. 2 \in Nat /\ Byte(n, 2) \in Nat
            BY <1>3
        <3> QED BY <1>2, <1>11, <2>3, <3>1
    <2>5. v[i + 2] = n \div c
        <3>1. v[i + 2] = v[i + 1] * Base + a[i + 2]
            BY <1>7, <2>1
        <3> QED BY <1>5, <1>10, <2>4, <3>1
    <2>6. v[i + 3] = v[i + 2] * Base + a[i + 3]
        BY <1>7, <2>1
    <2> QED BY <1>5, <1>9, <2>5, <2>6
<1>13. \A k \in 0..j : v[i + 3 + k] = n * Weight[k]
    <2> DEFINE T == {k \in 0..j : v[i + 3 + k] # n * Weight[k]}
    <2> SUFFICES ASSUME T # {} PROVE FALSE
        OBVIOUS
    <2>1. T \subseteq Nat
        OBVIOUS
    <2>2. PICK k \in T : \A m \in Nat : m < k => m \notin T
        BY <2>1, FirstFailure
    <2>3. k \in 0..j /\ v[i + 3 + k] # n * Weight[k]
        OBVIOUS
    <2>4. k # 0
        <3>1. i + 3 + 0 = i + 3 /\ n * 1 = n
            OBVIOUS
        <3> QED BY <1>12, <2>3, <3>1, Weights
    <2>5. /\ k \in Nat \ {0} /\ k - 1 \in 0..j /\ k - 1 \in Nat /\ k - 1 < k
          /\ i + 3 + k \in 1..w /\ (i + 3 + k) - 1 = i + 3 + (k - 1)
          /\ i + 3 + k \notin (i + 1)..(i + 3)
        <3>1. i \in Nat /\ j \in Nat /\ k \in Nat /\ k >= 1 /\ k <= j /\ w = i + 3 + j
            BY <2>3, <2>4 DEF w
        <3> QED BY ONLY <3>1
    <2>6. v[i + 3 + (k - 1)] = n * Weight[k - 1]
        BY <2>2, <2>5
    <2>7. v[i + 3 + k] = v[i + 3 + (k - 1)] * Base + 0
        BY <1>5, <1>7, <2>5
    <2> DEFINE e == Weight[k - 1]
    <2>8. e \in Nat /\ Weight[k] = Base * e
        BY <2>5, Weights
    <2> HIDE DEF e, T
    <2>9. (n * e) * Base + 0 = n * (Base * e)
        BY <1>2, <2>8
    <2> QED BY <2>3, <2>6, <2>7, <2>8, <2>9 DEF e
<1>14. i + 3 + j = w /\ j \in 0..j
    BY DEF w
<1> QED BY <1>4, <1>6, <1>13, <1>14

\* target_from_nbits writes the number that nBits denotes (pow.rs:53-85).
LEMMA TargetDenotes ==
    ASSUME NEW word \in Nat, IsCompactTarget(word)
    PROVE  /\ TargetFromNbits(word) \in [1..TargetLen -> Digit]
           /\ FromBeBytes(TargetFromNbits(word)) = Denotes(word)
<1> DEFINE e == Exponent(word)  m == Word(word)  L == TargetLen  t == TargetFromNbits(word)
<1>1. L \in Nat /\ L >= 3
    BY PowAssumption
<1>2. e \in Nat /\ m \in Nat /\ m < Weight[3]
    <2> DEFINE c == Weight[3]
    <2>1. c \in Nat /\ c > 0
        BY ThreeDigits
    <2> HIDE DEF c
    <2>2. word \div c \in Nat /\ word % c \in Nat /\ word % c < c
        BY <2>1
    <2> QED BY <2>2 DEF c, Exponent, Word
<1>3. Mantissa(word) = m /\ e <= L
    BY DEF IsCompactTarget, Mantissa
<1>4. Denotes(word) = IF e >= 3 THEN m * Weight[e - 3] ELSE m \div Weight[3 - e]
    BY DEF Denotes
<1>5. t = LET short == e <= 3
              n       == IF short THEN m \div Weight[3 - e] ELSE m
              q       == IF short THEN L - 3 ELSE L - e
          IN  [k \in 1..L |-> IF k \in (q + 1)..(q + 3) THEN Byte(n, q + 3 - k) ELSE 0]
    BY <1>3 DEF TargetFromNbits
<1> HIDE DEF e, m, L, t
<1>6. CASE e <= 3
    <2> DEFINE c == Weight[3 - e]  n == m \div c  i == L - 3  j == 0
    <2>1. c \in Nat /\ c > 0
        BY <1>2, <1>6, Weights
    <2>2. n \in Nat /\ n <= m
        <3> HIDE DEF c
        <3> QED BY <1>2, <2>1
    <2>3. n < Weight[3]
        BY <1>2, <2>2, ThreeDigits
    <2>4. i \in Nat /\ j \in Nat /\ i + 3 + j = L
        BY <1>1
    <2>5. t = [k \in 1..L |-> IF k \in (i + 1)..(i + 3) THEN Byte(n, i + 3 - k) ELSE 0]
        BY <1>5, <1>6
    <2>6. Denotes(word) = n
        <3>1. CASE e = 3
            <4>1. e - 3 = 0 /\ 3 - e = 0 /\ e >= 3
                BY <3>1
            <4>2. m * 1 = m /\ m \div 1 = m
                BY <1>2
            <4> QED BY <1>4, <4>1, <4>2, Weights
        <3>2. CASE e # 3
            BY <1>2, <1>4, <1>6, <3>2
        <3> QED BY <3>1, <3>2
    <2>7. n * Weight[j] = n
        BY <2>2, Weights
    <2> HIDE DEF i, j, n
    <2>8. /\ t = [k \in 1..(i + 3 + j) |-> t[k]]
          /\ \A k \in 1..(i + 3 + j) :
                t[k] = IF k \in (i + 1)..(i + 3) THEN Byte(n, i + 3 - k) ELSE 0
        BY <2>4, <2>5
    <2>9. t \in [1..(i + 3 + j) -> Digit] /\ FromBeBytes(t) = n * Weight[j]
        BY ONLY <2>2, <2>3, <2>4, <2>8, ThreeDigitsDenote
    <2> QED BY <2>4, <2>6, <2>7, <2>9 DEF t, L
<1>7. CASE e > 3
    <2> DEFINE i == L - e  j == e - 3  n == m
    <2>1. i \in Nat /\ j \in Nat /\ i + 3 + j = L
        BY <1>1, <1>2, <1>3, <1>7
    <2>2. t = [k \in 1..L |-> IF k \in (i + 1)..(i + 3) THEN Byte(m, i + 3 - k) ELSE 0]
        <3>1. ~(e <= 3)
            BY <1>2, <1>7
        <3> QED BY <1>5, <3>1
    <2>3. Denotes(word) = m * Weight[j]
        BY <1>2, <1>4, <1>7
    <2>1a. n \in Nat /\ n < Weight[3]
        BY <1>2
    <2> HIDE DEF i, j, n
    <2>4. /\ t = [k \in 1..(i + 3 + j) |-> t[k]]
          /\ \A k \in 1..(i + 3 + j) :
                t[k] = IF k \in (i + 1)..(i + 3) THEN Byte(n, i + 3 - k) ELSE 0
        BY <2>1, <2>2 DEF n
    <2>5. t \in [1..(i + 3 + j) -> Digit] /\ FromBeBytes(t) = n * Weight[j]
        BY ONLY <2>1, <2>1a, <2>4, ThreeDigitsDenote
    <2> QED BY <2>1, <2>3, <2>5 DEF t, L, n
<1> QED BY <1>2, <1>6, <1>7

\* Its bytes are bytes, whatever it is asked for.
LEMMA TargetIsBytes ==
    ASSUME NEW word \in Nat
    PROVE  \A k \in 1..TargetLen : TargetFromNbits(word)[k] \in Digit
<1> DEFINE e == Exponent(word)  m == Mantissa(word)  c == Weight[3]
<1>1. TargetLen \in Nat /\ c \in Nat /\ c > 0
    BY PowAssumption, ThreeDigits
<1>2. e \in Nat /\ m \in Nat
    <2> HIDE DEF c
    <2>1. word \div c \in Nat /\ word % c \in Nat
        BY <1>1
    <2>2. 2 * (word % c) >= c => (word % c) - (c \div 2) \in Nat
        BY <1>1, <2>1
    <2> QED BY <2>1, <2>2 DEF c, Exponent, Mantissa, Word, IsNegative
<1>3. \A n, i \in Nat : Byte(n, i) \in Digit
    BY BytesAreDigits
<1>4. 0 \in Digit
    BY ThreeDigits DEF Digit
<1>5. e <= 3 => m \div Weight[3 - e] \in Nat
    <2>1. ASSUME e <= 3 PROVE m \div Weight[3 - e] \in Nat
        <3> DEFINE d == Weight[3 - e]
        <3>1. d \in Nat /\ d > 0
            BY <1>2, <2>1, Weights
        <3> HIDE DEF d, e, m
        <3>2. m \div d \in Nat
            BY <1>2, <3>1
        <3> QED BY <3>2 DEF d
    <2> QED BY <2>1
<1> SUFFICES ASSUME NEW k \in 1..TargetLen PROVE TargetFromNbits(word)[k] \in Digit
    OBVIOUS
<1> HIDE DEF e, m
<1> DEFINE n == IF e <= 3 THEN m \div Weight[3 - e] ELSE m
           q == IF e <= 3 THEN TargetLen - 3 ELSE TargetLen - e
<1>6. TargetFromNbits(word)[k] = IF k \in (q + 1)..(q + 3) THEN Byte(n, q + 3 - k) ELSE 0
    BY DEF TargetFromNbits, e, m
<1>7. n \in Nat /\ q \in Int
    BY <1>1, <1>2, <1>5
<1> HIDE DEF n, q
<1>8. k \in (q + 1)..(q + 3) => q + 3 - k \in Nat
    BY <1>7
<1> QED BY <1>3, <1>4, <1>6, <1>7, <1>8

\* The hash of a header, read from its last byte on, denotes its value
\* (pow.rs:98-101).
LEMMA HashDenotes ==
    ASSUME NEW word \in CompactWords, NEW n \in 0..MaxNonce, NEW x \in HashValues,
           NEW h, h = Sha256d([nbits |-> word, nonce |-> n, value |-> x])
    PROVE  /\ Reverse(HashBytes(h)) \in [1..TargetLen -> Digit]
           /\ FromBeBytes(Reverse(HashBytes(h))) = x
<1> DEFINE L == TargetLen  s == HashBytes(h)  r == Reverse(s)
<1>1. L \in Nat
    BY PowAssumption
<1>2. x \in 0..(Weight[L] - 1)
    BY MiningAssumption
<1>3. s = [k \in 1..L |-> Byte(x, k - 1)]
    <2>1. h.sha256d.value = x
        BY DEF Sha256d
    <2>2. s = MiningHashBytes(h)
        BY HashAssumption
    <2> QED BY <2>1, <2>2 DEF MiningHashBytes
<1> HIDE DEF L, s
<1>4. s = [k \in 1..L |-> s[k]] /\ \A k \in 1..L : s[k] = Byte(x, k - 1)
    BY <1>3
<1>5. Len(s) = L
    BY <1>1, <1>4, LengthOf
<1>6. r = [k \in 1..L |-> s[(L - k) + 1]]
    BY <1>5 DEF Reverse
<1>7. \A k \in 1..L : (L - k) + 1 \in 1..L /\ ((L - k) + 1) - 1 = L - k
    BY <1>1
<1>8. \A k \in 1..L : s[(L - k) + 1] = (x \div Weight[L - k]) % Base
    BY <1>4, <1>7 DEF Byte
<1>9. r = ToBeBytes(x, L)
    BY <1>6, <1>8 DEF ToBeBytes
<1> QED BY <1>1, <1>2, <1>9, DigitsDenote DEF s, L

\* greater_than compares arrays as validate does (pow.rs:107-114).
LEMMA GreaterExceeds ==
    ASSUME NEW a \in [1..TargetLen -> Digit], NEW b \in [1..TargetLen -> Digit]
    PROVE  GreaterThan(a, b) <=> FromBeBytes(a) > FromBeBytes(b)
<1> DEFINE L == TargetLen
<1>1. L \in Nat
    BY PowAssumption
<1>2. GreaterThan(a, b) <=> Greater(a, b, L)
    <2>1. ASSUME NEW k \in 1..L
          PROVE  (\A j \in 1..(k - 1) : a[j] = b[j]) <=> (\A j \in 1..L : j < k => a[j] = b[j])
        <3>1. \A j : j \in 1..(k - 1) <=> j \in 1..L /\ j < k
            BY <1>1
        <3> QED BY <3>1
    <2> QED BY <2>1 DEF GreaterThan, Greater
<1>3. Exceeds(a, b) <=> Greater(a, b, L)
    <2>1. DOMAIN a = 1..L
        OBVIOUS
    <2> QED BY <2>1 DEF Exceeds, Greater
<1>4. Exceeds(a, b) <=> FromBeBytes(a) > FromBeBytes(b)
    BY <1>1, ExceedsIsMore
<1> QED BY <1>2, <1>3, <1>4

\* What every turn of mine_header's loop preserves: no nonce before this one
\* would have done.
MiningIInv ==
    /\ nbits \in CompactWords /\ values \in [0..MaxNonce -> HashValues]
    /\ nonce \in 0..MaxNonce
    /\ outcome \in {"mining", "found", "failed"}
    /\ \A n \in 0..(nonce - 1) : CheckPow(Header(n), nbits) # "ok"
    /\ outcome = "found" => CheckPow(Header(nonce), nbits) = "ok"
    /\ outcome = "failed" => nonce = MaxNonce

\* A compact word is a number.
LEMMA WordsAreNumbers == \A word \in CompactWords : word \in Nat
<1> DEFINE c == Weight[3] * (MaxExponent + 1)
<1>1. c \in Nat
    <2> DEFINE d == Weight[3]  m == MaxExponent + 1
    <2>1. d \in Nat /\ m \in Nat
        BY ThreeDigits, MiningAssumption
    <2> HIDE DEF d, m
    <2>2. d * m \in Nat
        BY <2>1
    <2> QED BY <2>2 DEF d, m
<1>2. CompactWords = 0..(c - 1)
    BY DEF CompactWords
<1> HIDE DEF c
<1> QED BY <1>1, <1>2

\* A header passes exactly when its hash is a number not above the one that
\* nBits denotes.
LEMMA WorkIsNumber ==
    ASSUME MiningIInv, NEW n \in 0..MaxNonce
    PROVE  /\ values[n] \in Nat
           /\ IsCompactTarget(nbits) => Denotes(nbits) \in Nat
           /\ CheckPow(Header(n), nbits) = "ok" <=>
                  IsCompactTarget(nbits) /\ values[n] <= Denotes(nbits)
<1> DEFINE h == BlockHash(Header(n))  t == TargetFromNbits(nbits)  r == Reverse(HashBytes(h))
<1>1. nbits \in CompactWords /\ nbits \in Nat /\ values[n] \in HashValues
    BY WordsAreNumbers DEF MiningIInv
<1>2. values[n] \in Nat
    <2>1. values[n] \in 0..(Weight[TargetLen] - 1)
        BY <1>1, MiningAssumption
    <2>2. TargetLen \in Nat
        BY PowAssumption
    <2>3. Weight[TargetLen] \in Nat
        BY <2>2, Weights
    <2> QED BY <2>1, <2>3
<1>3. h = Sha256d([nbits |-> nbits, nonce |-> n, value |-> values[n]])
    BY DEF BlockHash, Header
<1>4. r \in [1..TargetLen -> Digit] /\ FromBeBytes(r) = values[n]
    <2> HIDE DEF h
    <2> QED BY <1>1, <1>3, HashDenotes
<1>5. IsCompactTarget(nbits) =>
          t \in [1..TargetLen -> Digit] /\ FromBeBytes(t) = Denotes(nbits)
    BY <1>1, TargetDenotes
<1>6. CheckPow(Header(n), nbits) = "ok" <=> IsCompactTarget(nbits) /\ ~GreaterThan(r, t)
    <2>1. Header(n).nbits = nbits
        BY DEF Header
    <2> QED BY <2>1 DEF CheckPow
<1> HIDE DEF h, t, r
<1>7. CASE IsCompactTarget(nbits)
    <2>1. t \in [1..TargetLen -> Digit] /\ FromBeBytes(t) = Denotes(nbits)
        BY <1>5, <1>7
    <2>2. TargetLen \in Nat
        BY PowAssumption
    <2>3. FromBeBytes(t) \in Nat
        BY <2>1, <2>2, NumeralBelow
    <2>4. GreaterThan(r, t) <=> FromBeBytes(r) > FromBeBytes(t)
        BY <1>4, <2>1, GreaterExceeds
    <2>5. GreaterThan(r, t) <=> values[n] > Denotes(nbits)
        BY <1>4, <2>1, <2>4
    <2>6. Denotes(nbits) \in Nat
        BY <2>1, <2>3
    <2>7. ~(values[n] > Denotes(nbits)) <=> values[n] <= Denotes(nbits)
        BY <1>2, <2>6
    <2> QED BY <1>2, <1>6, <1>7, <2>5, <2>6, <2>7
<1>8. CASE ~IsCompactTarget(nbits)
    BY <1>2, <1>6, <1>8
<1> QED BY <1>7, <1>8

\* A nonce is tried before the next one is.
LEMMA MiningKeeps == MiningSpec => []MiningIInv
<1>1. MiningInit => MiningIInv
    <2> SUFFICES ASSUME MiningInit PROVE MiningIInv
        OBVIOUS
    <2>1. /\ nbits \in CompactWords /\ values \in [0..MaxNonce -> HashValues]
          /\ nonce = 0 /\ outcome = "mining"
        BY DEF MiningInit
    <2>2. nonce \in 0..MaxNonce /\ \A n \in 0..(nonce - 1) : FALSE
        BY <2>1, MiningAssumption
    <2> QED BY <2>1, <2>2 DEF MiningIInv
<1>2. ASSUME MiningIInv, [MiningNext]_miningVars PROVE MiningIInv'
    <2> DEFINE passes(n) == CheckPow(Header(n), nbits) = "ok"
    <2>1. MaxNonce \in Nat /\ nonce \in 0..MaxNonce
        BY <1>2, MiningAssumption DEF MiningIInv
    <2>2. UNCHANGED <<nbits, values>> => \A n : passes(n)' = passes(n)
        BY DEF CheckPow, Header
    <2>3. /\ nbits \in CompactWords /\ values \in [0..MaxNonce -> HashValues]
          /\ outcome \in {"mining", "found", "failed"}
          /\ \A n \in 0..(nonce - 1) : ~passes(n)
          /\ outcome = "found" => passes(nonce)
          /\ outcome = "failed" => nonce = MaxNonce
        BY <1>2 DEF MiningIInv
    <2>4. CASE Found
        <3>1. /\ passes(nonce) /\ outcome' = "found" /\ nonce' = nonce
              /\ UNCHANGED <<nbits, values>>
            BY <2>4 DEF Found
        <3> HIDE DEF passes
        <3>2. (\A n \in 0..(nonce - 1) : ~passes(n))' /\ passes(nonce)'
            BY <2>2, <2>3, <3>1
        <3> QED BY <2>1, <2>3, <3>1, <3>2 DEF MiningIInv, passes
    <2>5. CASE Advance
        <3>1. /\ ~passes(nonce) /\ outcome' = outcome /\ outcome = "mining"
              /\ nonce' = nonce + 1 /\ nonce < MaxNonce /\ UNCHANGED <<nbits, values>>
            BY <2>5 DEF Advance
        <3> HIDE DEF passes
        <3>2. nonce' \in 0..MaxNonce
            BY <2>1, <3>1
        <3>3. \A n \in 0..((nonce + 1) - 1) : n = nonce \/ n \in 0..(nonce - 1)
            BY <2>1
        <3>4. \A n \in 0..((nonce + 1) - 1) : ~passes(n)
            BY <2>3, <3>1, <3>3
        <3>5. (\A n \in 0..(nonce - 1) : ~passes(n))'
            BY <2>2, <3>1, <3>4
        <3> QED BY <2>3, <3>1, <3>2, <3>5 DEF MiningIInv, passes
    <2>6. CASE GiveUp
        <3>1. /\ outcome' = "failed" /\ nonce' = nonce /\ nonce = MaxNonce
              /\ UNCHANGED <<nbits, values>>
            BY <2>6 DEF GiveUp
        <3> HIDE DEF passes
        <3>2. (\A n \in 0..(nonce - 1) : ~passes(n))'
            BY <2>2, <2>3, <3>1
        <3> QED BY <2>1, <2>3, <3>1, <3>2 DEF MiningIInv, passes
    <2>7. CASE Returned \/ UNCHANGED miningVars
        <3>1. outcome' = outcome /\ nonce' = nonce /\ UNCHANGED <<nbits, values>>
            BY <2>7 DEF Returned, miningVars
        <3> HIDE DEF passes
        <3>2. (\A n \in 0..(nonce - 1) : ~passes(n))' /\ (outcome = "found" => passes(nonce))'
            BY <2>2, <2>3, <3>1
        <3> QED BY <2>1, <2>3, <3>1, <3>2 DEF MiningIInv, passes
    <2> QED BY <1>2, <2>4, <2>5, <2>6, <2>7 DEF MiningNext
<1> QED BY <1>1, <1>2, PTL DEF MiningSpec

\* Whatever word is asked for, target_from_nbits writes bytes, and no more
\* nonces are tried than there are (pow.rs:53-85, main.rs:934).
THEOREM TargetsAreBytes == MiningSpec => []MiningTypeOK
<1>1. MiningIInv => MiningTypeOK
    BY WordsAreNumbers, TargetIsBytes DEF MiningIInv, MiningTypeOK
<1> QED BY <1>1, MiningKeeps, PTL

\* A word that is accepted expands to the number it denotes, and that number
\* fits the target (pow.rs:53-85).
THEOREM TargetsAreExact == MiningSpec => []TargetIsExact
<1>1. MiningIInv => TargetIsExact
    <2> SUFFICES ASSUME MiningIInv, IsCompactTarget(nbits)
                 PROVE  /\ FromBeBytes(TargetFromNbits(nbits)) = Denotes(nbits)
                        /\ Denotes(nbits) < Weight[TargetLen]
        BY DEF TargetIsExact
    <2>1. nbits \in Nat /\ TargetLen \in Nat
        BY WordsAreNumbers, PowAssumption DEF MiningIInv
    <2>2. /\ TargetFromNbits(nbits) \in [1..TargetLen -> Digit]
          /\ FromBeBytes(TargetFromNbits(nbits)) = Denotes(nbits)
        BY <2>1, TargetDenotes
    <2>3. FromBeBytes(TargetFromNbits(nbits)) < Weight[TargetLen]
        BY <2>1, <2>2, NumeralBelow
    <2> QED BY <2>2, <2>3
<1> QED BY <1>1, MiningKeeps, PTL

\* mine_header hands out work that is there, and fails only where none of the
\* nonces it tries has any (main.rs:934-941).
THEOREM WorkIsReal == MiningSpec => []MiningIsHonest
<1>1. MiningIInv => MiningIsHonest
    <2> SUFFICES ASSUME MiningIInv PROVE MiningIsHonest
        OBVIOUS
    <2>1. MaxNonce \in Nat /\ nonce \in 0..MaxNonce
        BY MiningAssumption DEF MiningIInv
    <2>2. MinedHasWork
        <3>1. ASSUME outcome = "found"
              PROVE  IsCompactTarget(nbits) /\ values[nonce] <= Denotes(nbits)
            BY <2>1, <3>1, WorkIsNumber DEF MiningIInv
        <3> QED BY <3>1 DEF MinedHasWork
    <2>3. FailureIsGenuine
        <3>1. ASSUME outcome = "failed", NEW n \in 0..(MaxNonce - 1), IsCompactTarget(nbits)
              PROVE  values[n] > Denotes(nbits)
            <4>1. n \in 0..MaxNonce
                BY <2>1
            <4>2. CheckPow(Header(n), nbits) # "ok"
                BY <3>1 DEF MiningIInv
            <4>3. /\ values[n] \in Nat /\ Denotes(nbits) \in Nat
                  /\ ~(values[n] <= Denotes(nbits))
                BY <3>1, <4>1, <4>2, WorkIsNumber
            <4> QED BY <4>3
        <3> QED BY <3>1 DEF FailureIsGenuine
    <2> QED BY <2>2, <2>3 DEF MiningIsHonest
<1> QED BY <1>1, MiningKeeps, PTL
=============================================================================
