--------------------------- MODULE VerifyApiProofs ---------------------------
(***************************************************************************)
(* The verification service keeps its contract, for any documents, however *)
(* their hex is spelled, and hands out a sample that settles.              *)
(***************************************************************************)
EXTENDS VerifyApi, WellFoundedInduction, SequenceTheorems, TLAPS

-----------------------------------------------------------------------------
(* Numbers *)

\* A set of numbers has a least one.
LEMMA LeastNumber ==
    ASSUME NEW T, T \subseteq Nat, T # {}
    PROVE  \E x \in T : \A y \in T : x <= y
<1> DEFINE R == OpToRel(<, Nat)
<1>1. IsWellFoundedOn(R, Nat)
    BY NatLessThanWellFounded
<1>2. \A x, y \in Nat : <<y, x>> \in R <=> y < x
    BY DEF OpToRel
<1> HIDE DEF R
<1>3. PICK x \in T : \A y \in T : ~(<<y, x>> \in R)
    BY <1>1, WFMin
<1>4. ASSUME NEW y \in T PROVE x <= y
    <2>1. x \in Nat /\ y \in Nat /\ ~(y < x)
        BY <1>2, <1>3
    <2> QED BY <2>1
<1> QED BY <1>4

\* So whatever fails for some number fails for a first one.
LEMMA FirstFailure ==
    ASSUME NEW T, T \subseteq Nat, T # {}
    PROVE  \E x \in T : \A y \in Nat : y < x => y \notin T
<1>1. PICK x \in T : \A y \in T : x <= y
    BY LeastNumber
<1>2. ASSUME NEW y \in Nat, y < x, y \in T PROVE FALSE
    BY <1>1, <1>2
<1> QED BY <1>1, <1>2

\* A sequence is as long as its index set.
LEMMA LengthOf ==
    ASSUME NEW w \in Nat, NEW s, s = [k \in 1..w |-> s[k]]
    PROVE  Len(s) = w
<1> DEFINE S == {s[k] : k \in 1..w}
<1>1. s \in [1..w -> S]
    OBVIOUS
<1>2. s \in Seq(S)
    BY <1>1, SeqDef
<1>3. DOMAIN s = 1..Len(s) /\ Len(s) \in Nat
    BY <1>2, LenProperties
<1>4. DOMAIN s = 1..w
    OBVIOUS
<1> QED BY <1>3, <1>4

-----------------------------------------------------------------------------
(* Vectors *)

\* A function on 1..n is a vector of length n.
LEMMA VectorOf ==
    ASSUME NEW n \in Nat, NEW s, s = [k \in 1..n |-> s[k]]
    PROVE  IsVector(s) /\ Len(s) = n /\ DOMAIN s = 1..n
BY LengthOf DEF IsVector

\* A vector is a sequence of its elements.
LEMMA VectorIsSeq ==
    ASSUME NEW s, IsVector(s), NEW S, Range(s) \subseteq S
    PROVE  s \in Seq(S) /\ Len(s) \in Nat /\ DOMAIN s = 1..Len(s)
<1>1. Len(s) \in Nat /\ DOMAIN s = 1..Len(s) /\ s = [k \in 1..Len(s) |-> s[k]]
    BY DEF IsVector
<1>2. \A k \in 1..Len(s) : s[k] \in S
    BY <1>1 DEF Range
<1>3. s \in [1..Len(s) -> S]
    BY <1>1, <1>2
<1> QED BY <1>1, <1>3, SeqDef

\* Two vectors joined hold what either holds.
LEMMA JoinedVectors ==
    ASSUME NEW s, NEW t, IsVector(s), IsVector(t)
    PROVE  IsVector(s \o t) /\ Range(s \o t) = Range(s) \cup Range(t)
<1> DEFINE S == Range(s) \cup Range(t)  m == Len(s)  n == Len(t)
<1>1. /\ s \in Seq(S) /\ m \in Nat /\ DOMAIN s = 1..m
      /\ t \in Seq(S) /\ n \in Nat /\ DOMAIN t = 1..n
    BY VectorIsSeq
<1>2. /\ s \o t \in Seq(S) /\ Len(s \o t) = m + n
      /\ \A k \in 1..(m + n) : (s \o t)[k] = IF k <= m THEN s[k] ELSE t[k - m]
    BY <1>1, ConcatProperties
<1>3. DOMAIN (s \o t) = 1..(m + n) /\ s \o t = [k \in 1..(m + n) |-> (s \o t)[k]]
    <2> DEFINE st == s \o t
    <2>1. st \in Seq(S) /\ Len(st) = m + n
        BY <1>2
    <2> HIDE DEF st, S, m, n
    <2>2. DOMAIN st = 1..(m + n) /\ st = [k \in DOMAIN st |-> st[k]]
        BY <2>1, LenProperties
    <2> QED BY <2>2 DEF st
<1> HIDE DEF S, m, n
<1>4. IsVector(s \o t)
    BY <1>1, <1>2, <1>3 DEF IsVector
<1>5. ASSUME NEW x \in Range(s) PROVE x \in Range(s \o t)
    <2>1. PICK k \in 1..m : x = s[k]
        BY <1>1 DEF Range
    <2>2. k \in 1..(m + n) /\ (s \o t)[k] = x
        BY <1>1, <1>2, <2>1
    <2> QED BY <1>3, <2>2 DEF Range
<1>6. ASSUME NEW x \in Range(t) PROVE x \in Range(s \o t)
    <2>1. PICK k \in 1..n : x = t[k]
        BY <1>1 DEF Range
    <2> DEFINE j == m + k
    <2>2. j \in 1..(m + n) /\ ~(j <= m) /\ j - m = k
        BY <1>1, <2>1
    <2> HIDE DEF j
    <2>3. (s \o t)[j] = t[j - m]
        BY <1>2, <2>2
    <2> QED BY <1>3, <2>1, <2>2, <2>3 DEF Range
<1>7. ASSUME NEW x \in Range(s \o t) PROVE x \in Range(s) \cup Range(t)
    <2>1. PICK k \in 1..(m + n) : x = (s \o t)[k]
        BY <1>3 DEF Range
    <2>2. CASE k <= m
        BY <1>1, <1>2, <2>1, <2>2 DEF Range
    <2>3. CASE ~(k <= m)
        <3>1. k - m \in 1..n
            BY <1>1, <2>1, <2>3
        <3> QED BY <1>1, <1>2, <2>1, <2>3, <3>1 DEF Range
    <2> QED BY <2>2, <2>3
<1> QED BY <1>4, <1>5, <1>6, <1>7

\* Joining the first n of many vectors, one after the other
Joined(g, ss, n) ==
    g = [k \in 1..n |-> IF k = 1 THEN ss[k] ELSE g[k - 1] \o ss[k]]

\* There is such a joining.
LEMMA JoinedExists ==
    ASSUME NEW ss, NEW n \in Nat PROVE \E g : Joined(g, ss, n)
<1> DEFINE T == {m \in Nat : ~\E g : Joined(g, ss, m)}
<1> SUFFICES ASSUME T # {} PROVE FALSE
    OBVIOUS
<1>1. PICK m \in T : \A j \in Nat : j < m => j \notin T
    BY FirstFailure
<1>2. m \in Nat /\ ~\E g : Joined(g, ss, m)
    OBVIOUS
<1>3. CASE m = 0
    <2> DEFINE g == [k \in 1..0 |-> k]
    <2>1. Joined(g, ss, m)
        BY <1>3 DEF Joined
    <2> QED BY <1>2, <2>1
<1>4. CASE m # 0
    <2>1. m - 1 \in Nat /\ m - 1 < m
        BY <1>2, <1>4
    <2>2. PICK h : Joined(h, ss, m - 1)
        BY <1>1, <2>1
    <2> DEFINE turn(g, k) == IF k = 1 THEN ss[k] ELSE g[k - 1] \o ss[k]
               g == [k \in 1..m |-> IF k = m THEN turn(h, m) ELSE h[k]]
    <2>3. ASSUME NEW k \in 1..m PROVE g[k] = turn(g, k)
        <3>1. k \in Nat /\ k >= 1 /\ k <= m
            BY <1>2
        <3>2. turn(g, k) = turn(h, k)
            <4>1. CASE k = 1
                BY <4>1
            <4>2. CASE k # 1
                <5>1. k - 1 \in 1..m /\ k - 1 # m
                    BY <3>1, <4>2, <1>2
                <5> QED BY <5>1, <4>2
            <4> QED BY <4>1, <4>2
        <3>3. CASE k = m
            BY <3>2, <3>3
        <3>4. CASE k # m
            <4>1. k \in 1..(m - 1)
                BY <3>1, <3>4, <1>2
            <4>2. h[k] = turn(h, k)
                BY <2>2, <4>1 DEF Joined
            <4> QED BY <3>2, <3>4, <4>2
        <3> QED BY <3>3, <3>4
    <2>4. g = [k \in 1..m |-> g[k]]
        OBVIOUS
    <2> HIDE DEF g
    <2>5. Joined(g, ss, m)
        BY <2>3, <2>4 DEF Joined
    <2> QED BY <1>2, <2>5
<1> QED BY <1>3, <1>4

\* Many vectors joined are a vector that holds what any of them holds.
LEMMA FlattenedVectors ==
    ASSUME NEW ss, IsVector(ss), \A k \in 1..Len(ss) : IsVector(ss[k])
    PROVE  /\ IsVector(FlattenSeq(ss))
           /\ Range(FlattenSeq(ss)) = UNION {Range(ss[k]) : k \in 1..Len(ss)}
<1> DEFINE n == Len(ss)
<1>1. n \in Nat /\ ss = [k \in 1..n |-> ss[k]]
    BY DEF IsVector
<1>2. CASE n = 0
    <2>1. FlattenSeq(ss) = ss
        BY <1>2 DEF FlattenSeq
    <2>2. Range(ss) = {}
        BY <1>1, <1>2 DEF Range
    <2> QED BY <1>2, <2>1, <2>2
<1>3. CASE n # 0
    <2> DEFINE flat == CHOOSE g : Joined(g, ss, n)
    <2>1. FlattenSeq(ss) = flat[n]
        BY <1>3 DEF FlattenSeq, Joined
    <2>2. Joined(flat, ss, n)
        BY <1>1, JoinedExists
    <2> HIDE DEF flat, n
    <2>3. \A k \in 1..n : flat[k] = IF k = 1 THEN ss[k] ELSE flat[k - 1] \o ss[k]
        BY <2>2 DEF Joined
    <2> DEFINE Holds(k) == /\ IsVector(flat[k])
                           /\ Range(flat[k]) = UNION {Range(ss[j]) : j \in 1..k}
               T == {k \in 1..n : ~Holds(k)}
    <2>4. T = {}
        <3> SUFFICES ASSUME T # {} PROVE FALSE
            OBVIOUS
        <3>1. T \subseteq Nat
            BY <1>1
        <3>2. PICK k \in T : \A j \in Nat : j < k => j \notin T
            BY <3>1, FirstFailure
        <3>3. k \in 1..n /\ ~Holds(k)
            OBVIOUS
        <3>4. IsVector(ss[k])
            BY <3>3 DEF n
        <3>5. CASE k = 1
            <4>1. flat[k] = ss[1] /\ 1..k = {1}
                BY <2>3, <3>3, <3>5
            <4> QED BY <3>3, <3>4, <3>5, <4>1
        <3>6. CASE k # 1
            <4>1. /\ k - 1 \in 1..n /\ k - 1 \in Nat /\ k - 1 < k
                  /\ 1..k = 1..(k - 1) \cup {k}
                BY <3>3, <3>6, <1>1
            <4>2. Holds(k - 1)
                BY <3>2, <4>1
            <4>3. flat[k] = flat[k - 1] \o ss[k]
                BY <2>3, <3>3, <3>6
            <4>4. /\ IsVector(flat[k])
                  /\ Range(flat[k]) = Range(flat[k - 1]) \cup Range(ss[k])
                BY <3>4, <4>2, <4>3, JoinedVectors
            <4>5. Range(flat[k]) = UNION {Range(ss[j]) : j \in 1..k}
                <5>1. Range(flat[k - 1]) = UNION {Range(ss[j]) : j \in 1..(k - 1)}
                    BY <4>2
                <5> QED BY <4>1, <4>4, <5>1
            <4> QED BY <3>3, <4>4, <4>5
        <3> QED BY <3>5, <3>6
    <2>5. n \in 1..n
        BY <1>1, <1>3
    <2>6. Holds(n)
        BY <2>4, <2>5
    <2> QED BY <2>1, <2>6 DEF n
<1> QED BY <1>2, <1>3

-----------------------------------------------------------------------------
(* try_into_runtime (main.rs:385-402) reads every text of a document.  In  *)
(* what order is for the error it reports.                                 *)

\* The reads are a vector, name their fields and are of these texts.
Reading(reads, texts) ==
    /\ IsVector(reads)
    /\ \A read \in Range(reads) : read.field # "ok"
    /\ texts = {Spelling(read.text, read.size) : read \in Range(reads)}

\* A read names its field and has the text it reads.
LEMMA ReadHas ==
    \A field, text, size :
        /\ Read(field, text, size).field = field
        /\ Spelling(Read(field, text, size).text, Read(field, text, size).size)
             = Spelling(text, size)
BY DEF Read

\* Two lists of reads one after the other
LEMMA JoinedReads ==
    ASSUME NEW r, NEW s, NEW A, NEW B, Reading(r, A), Reading(s, B)
    PROVE  Reading(r \o s, A \cup B)
<1>1. IsVector(r \o s) /\ Range(r \o s) = Range(r) \cup Range(s)
    BY JoinedVectors DEF Reading
<1> QED BY <1>1 DEF Reading

\* The fields of a struct, by name
LEMMA FieldsRead ==
    ASSUME NEW names, IsVector(names), "ok" \notin Range(names), NEW json, NEW sizes
    PROVE  Reading(ReadFields(names, json, sizes),
                   {Spelling(json[f], sizes[f]) : f \in Range(names)})
<1> DEFINE n     == Len(names)
           reads == ReadFields(names, json, sizes)
<1>1. n \in Nat /\ DOMAIN names = 1..n
    BY DEF IsVector
<1>2. reads = [k \in 1..n |-> Read(names[k], json[names[k]], sizes[names[k]])]
    BY <1>1 DEF ReadFields
<1>3. IsVector(reads) /\ DOMAIN reads = 1..n
    BY <1>1, <1>2, VectorOf
<1>4. Range(reads) = {Read(f, json[f], sizes[f]) : f \in Range(names)}
    BY <1>1, <1>2 DEF Range
<1> HIDE DEF reads
<1>5. \A read \in Range(reads) : read.field # "ok"
    BY <1>4, ReadHas
<1>6. {Spelling(read.text, read.size) : read \in Range(reads)}
        = {Spelling(json[f], sizes[f]) : f \in Range(names)}
    BY <1>4, ReadHas
<1> QED BY <1>3, <1>5, <1>6 DEF Reading, reads

\* the texts of a list,
LEMMA ListRead ==
    ASSUME NEW texts, IsVector(texts), NEW field, field # "ok", NEW size
    PROVE  Reading(ReadAll(field, texts, size), ListTexts(texts, size))
<1> DEFINE n     == Len(texts)
           reads == ReadAll(field, texts, size)
<1>1. n \in Nat /\ DOMAIN texts = 1..n
    BY DEF IsVector
<1>2. reads = [k \in 1..n |-> Read(field, texts[k], size)]
    BY <1>1 DEF ReadAll
<1>3. IsVector(reads) /\ DOMAIN reads = 1..n
    BY <1>1, <1>2, VectorOf
<1>4. Range(reads) = {Read(field, texts[k], size) : k \in 1..n}
    BY <1>1, <1>2 DEF Range
<1> HIDE DEF reads
<1>5. \A read \in Range(reads) : read.field # "ok"
    BY <1>4, ReadHas
<1>6. {Spelling(read.text, read.size) : read \in Range(reads)} = ListTexts(texts, size)
    BY <1>1, <1>4, ReadHas DEF ListTexts
<1> QED BY <1>3, <1>5, <1>6 DEF Reading, reads

\* one text,
LEMMA TextRead ==
    ASSUME NEW field, field # "ok", NEW text, NEW size
    PROVE  Reading(<<Read(field, text, size)>>, {Spelling(text, size)})
<1> DEFINE reads == <<Read(field, text, size)>>
<1>1. reads = [k \in 1..1 |-> reads[k]]
    OBVIOUS
<1>2. IsVector(reads) /\ DOMAIN reads = 1..1 /\ reads[1] = Read(field, text, size)
    BY <1>1, VectorOf
<1>3. Range(reads) = {Read(field, text, size)}
    BY <1>2 DEF Range
<1> QED BY <1>2, <1>3, ReadHas DEF Reading

\* and the entries of a registry.
LEMMA EntriesRead ==
    ASSUME NEW json, IsVector(json), NEW id, id # "ok", NEW sizes,
           NEW names, IsVector(names), "ok" \notin Range(names), Range(names) = DOMAIN sizes
    PROVE  Reading(FlattenSeq([k \in DOMAIN json |-> ReadEntry(id, names, json[k], sizes)]),
                   EntryTexts(json, sizes))
<1> DEFINE n        == Len(json)
           texts(k) == {Spelling(json[k].id, HashSize)} \cup FieldTexts(json[k].value, sizes)
           reads    == [k \in DOMAIN json |-> ReadEntry(id, names, json[k], sizes)]
<1>1. n \in Nat /\ DOMAIN json = 1..n
    BY DEF IsVector
<1>2. ASSUME NEW k \in 1..n PROVE Reading(reads[k], texts(k))
    <2>1. Reading(<<Read(id, json[k].id, HashSize)>>, {Spelling(json[k].id, HashSize)})
        BY TextRead
    <2>2. Reading(ReadFields(names, json[k].value, sizes), FieldTexts(json[k].value, sizes))
        BY FieldsRead DEF FieldTexts
    <2> QED BY <1>1, <2>1, <2>2, JoinedReads DEF ReadEntry
<1>3. IsVector(reads) /\ Len(reads) = n /\ \A k \in 1..n : IsVector(reads[k])
    BY <1>1, <1>2, VectorOf DEF Reading
<1>4. EntryTexts(json, sizes) = UNION {texts(k) : k \in 1..n}
    BY <1>1 DEF EntryTexts
<1> HIDE DEF reads, texts
<1>5. /\ IsVector(FlattenSeq(reads))
      /\ Range(FlattenSeq(reads)) = UNION {Range(reads[k]) : k \in 1..n}
    BY <1>3, FlattenedVectors
<1>6. \A read \in Range(FlattenSeq(reads)) : read.field # "ok"
    BY <1>2, <1>5 DEF Reading
<1>7. UNION {texts(k) : k \in 1..n}
        = {Spelling(read.text, read.size) : read \in Range(FlattenSeq(reads))}
    BY <1>2, <1>5 DEF Reading
<1> QED BY <1>4, <1>5, <1>6, <1>7 DEF Reading, reads

\* The names of a struct's fields
LEMMA NamesAre ==
    /\ \A a : IsVector(<<a>>) /\ Range(<<a>>) = {a}
    /\ \A a, b : IsVector(<<a, b>>) /\ Range(<<a, b>>) = {a, b}
    /\ \A a, b, c, d, e, f, g, h : /\ IsVector(<<a, b, c, d, e, f, g, h>>)
                                  /\ Range(<<a, b, c, d, e, f, g, h>>)
                                        = {a, b, c, d, e, f, g, h}
<1>1. ASSUME NEW a PROVE IsVector(<<a>>) /\ Range(<<a>>) = {a}
    <2> DEFINE s == <<a>>
    <2>1. s = [k \in 1..1 |-> s[k]] /\ s[1] = a
        OBVIOUS
    <2>2. IsVector(s) /\ DOMAIN s = {1}
        <3> HIDE DEF s
        <3>1. IsVector(s) /\ DOMAIN s = 1..1
            BY <2>1, VectorOf
        <3> QED BY <3>1
    <2> QED BY <2>1, <2>2 DEF Range
<1>2. ASSUME NEW a, NEW b PROVE IsVector(<<a, b>>) /\ Range(<<a, b>>) = {a, b}
    <2> DEFINE s == <<a, b>>
    <2>1. s = [k \in 1..2 |-> s[k]] /\ s[1] = a /\ s[2] = b
        OBVIOUS
    <2>2. IsVector(s) /\ DOMAIN s = {1, 2}
        <3> HIDE DEF s
        <3>1. IsVector(s) /\ DOMAIN s = 1..2
            BY <2>1, VectorOf
        <3> QED BY <3>1
    <2> QED BY <2>1, <2>2 DEF Range
<1>3. ASSUME NEW a, NEW b, NEW c, NEW d, NEW e, NEW f, NEW g, NEW h
      PROVE  /\ IsVector(<<a, b, c, d, e, f, g, h>>)
             /\ Range(<<a, b, c, d, e, f, g, h>>) = {a, b, c, d, e, f, g, h}
    <2> DEFINE s == <<a, b, c, d, e, f, g, h>>
    <2>1. /\ s = [k \in 1..8 |-> s[k]]
          /\ s[1] = a /\ s[2] = b /\ s[3] = c /\ s[4] = d
          /\ s[5] = e /\ s[6] = f /\ s[7] = g /\ s[8] = h
        OBVIOUS
    <2>2. IsVector(s) /\ DOMAIN s = {1, 2, 3, 4, 5, 6, 7, 8}
        <3> HIDE DEF s
        <3>1. IsVector(s) /\ DOMAIN s = 1..8
            BY <2>1, VectorOf
        <3> QED BY <3>1
    <2> HIDE DEF s
    <2>3. Range(s) = {s[1], s[2], s[3], s[4], s[5], s[6], s[7], s[8]}
        BY <2>2 DEF Range
    <2> QED BY <2>1, <2>2, <2>3 DEF s
<1> QED BY <1>1, <1>2, <1>3

\* Every text of a bundle is read (main.rs:528-547, 579-587, 618-648),
LEMMA BundleRead ==
    ASSUME NEW b, IsVector(b.merkle_proof.siblings), IsVector(b.confirmation_headers)
    PROVE  Reading(BundleReads(b), BundleTexts(b))
<1> DEFINE order      == b.order
           preimage   == b.order.preimage
           orderId    == ReadFields(<<"order_id">>, order, OrderSizes)
           commitment == ReadFields(<<"btc_script_pubkey_commitment">>, order, OrderSizes)
           tx         == ReadFields(<<"txid_internal", "raw_tx">>, b, BundleSizes)
           siblings   == ReadAll("siblings", b.merkle_proof.siblings, HashSize)
           checkpoint == ReadFields(<<"checkpoint_id", "checkpoint_hash">>, b, BundleSizes)
           headers    == ReadAll("confirmation_headers", b.confirmation_headers, HeaderSize)
           tip        == ReadFields(<<"claimed_tip_hash">>, b, BundleSizes)
           Of(json, sizes, names) == {Spelling(json[f], sizes[f]) : f \in names}
<1>1. Reading(orderId, Of(order, OrderSizes, {"order_id"}))
    BY FieldsRead, NamesAre
<1>2. Reading(PreimageReads(preimage), FieldTexts(preimage, PreimageSizes))
    <2> DEFINE names == <<"solver", "recipient", "solver_btc_key_id", "destination_token",
                          "destination_amount", "max_destination_amount_cap",
                          "replay_domain", "nonce">>
    <2>1. IsVector(names) /\ Range(names) = DOMAIN PreimageSizes
        BY NamesAre DEF PreimageSizes
    <2>2. "ok" \notin DOMAIN PreimageSizes
        BY DEF PreimageSizes
    <2>3. PreimageReads(preimage) = ReadFields(names, preimage, PreimageSizes)
        BY DEF PreimageReads
    <2> HIDE DEF names, preimage
    <2> QED BY <2>1, <2>2, <2>3, FieldsRead DEF FieldTexts
<1>3. Reading(commitment, Of(order, OrderSizes, {"btc_script_pubkey_commitment"}))
    BY FieldsRead, NamesAre
<1>4. Reading(tx, Of(b, BundleSizes, {"txid_internal", "raw_tx"}))
    BY FieldsRead, NamesAre
<1>5. Reading(siblings, ListTexts(b.merkle_proof.siblings, HashSize))
    BY ListRead
<1>6. Reading(checkpoint, Of(b, BundleSizes, {"checkpoint_id", "checkpoint_hash"}))
    BY FieldsRead, NamesAre
<1>7. Reading(headers, ListTexts(b.confirmation_headers, HeaderSize))
    BY ListRead
<1>8. Reading(tip, Of(b, BundleSizes, {"claimed_tip_hash"}))
    BY FieldsRead, NamesAre
<1> DEFINE all == (((((((Of(order, OrderSizes, {"order_id"})
                         \cup FieldTexts(preimage, PreimageSizes))
                        \cup Of(order, OrderSizes, {"btc_script_pubkey_commitment"}))
                       \cup Of(b, BundleSizes, {"txid_internal", "raw_tx"}))
                      \cup ListTexts(b.merkle_proof.siblings, HashSize))
                     \cup Of(b, BundleSizes, {"checkpoint_id", "checkpoint_hash"}))
                    \cup ListTexts(b.confirmation_headers, HeaderSize))
                   \cup Of(b, BundleSizes, {"claimed_tip_hash"}))
<1>9. BundleReads(b) = (((((((orderId \o PreimageReads(preimage)) \o commitment) \o tx)
                            \o siblings) \o checkpoint) \o headers) \o tip)
    BY DEF BundleReads
<1>10. BundleTexts(b) = all
    <2>1. DOMAIN OrderSizes = {"order_id", "btc_script_pubkey_commitment"}
        BY DEF OrderSizes
    <2>2. DOMAIN BundleSizes = {"txid_internal", "raw_tx"} \cup {"claimed_tip_hash"}
                                \cup {"checkpoint_id", "checkpoint_hash"}
        BY DEF BundleSizes
    <2>3. FieldTexts(order, OrderSizes) = Of(order, OrderSizes, {"order_id"})
                            \cup Of(order, OrderSizes, {"btc_script_pubkey_commitment"})
        BY <2>1 DEF FieldTexts
    <2>4. FieldTexts(b, BundleSizes) = Of(b, BundleSizes, {"txid_internal", "raw_tx"})
                            \cup Of(b, BundleSizes, {"claimed_tip_hash"})
                            \cup Of(b, BundleSizes, {"checkpoint_id", "checkpoint_hash"})
        BY <2>2 DEF FieldTexts
    <2> HIDE DEF Of
    <2> QED BY <2>3, <2>4 DEF BundleTexts
<1> HIDE DEF orderId, commitment, tx, siblings, checkpoint, headers, tip, Of
<1>11. Reading((orderId \o PreimageReads(preimage)) \o commitment,
               (Of(order, OrderSizes, {"order_id"}) \cup FieldTexts(preimage, PreimageSizes))
               \cup Of(order, OrderSizes, {"btc_script_pubkey_commitment"}))
    BY <1>1, <1>2, <1>3, JoinedReads
<1> DEFINE head == (orderId \o PreimageReads(preimage)) \o commitment
           headTexts ==
               (Of(order, OrderSizes, {"order_id"}) \cup FieldTexts(preimage, PreimageSizes))
               \cup Of(order, OrderSizes, {"btc_script_pubkey_commitment"})
<1> HIDE DEF head, headTexts
<1>12. Reading((head \o tx) \o siblings,
               (headTexts \cup Of(b, BundleSizes, {"txid_internal", "raw_tx"}))
               \cup ListTexts(b.merkle_proof.siblings, HashSize))
    BY <1>4, <1>5, <1>11, JoinedReads DEF head, headTexts
<1>13. Reading(((head \o tx) \o siblings) \o checkpoint,
               ((headTexts \cup Of(b, BundleSizes, {"txid_internal", "raw_tx"}))
                \cup ListTexts(b.merkle_proof.siblings, HashSize))
               \cup Of(b, BundleSizes, {"checkpoint_id", "checkpoint_hash"}))
    BY <1>6, <1>12, JoinedReads
<1> DEFINE body == ((head \o tx) \o siblings) \o checkpoint
           bodyTexts == ((headTexts \cup Of(b, BundleSizes, {"txid_internal", "raw_tx"}))
                         \cup ListTexts(b.merkle_proof.siblings, HashSize))
                        \cup Of(b, BundleSizes, {"checkpoint_id", "checkpoint_hash"})
<1>14. BundleReads(b) = (body \o headers) \o tip
    BY <1>9 DEF head
<1>15. BundleTexts(b) = (bodyTexts \cup ListTexts(b.confirmation_headers, HeaderSize))
                        \cup Of(b, BundleSizes, {"claimed_tip_hash"})
    BY <1>10 DEF headTexts
<1>16. Reading(body, bodyTexts)
    BY <1>13
<1> HIDE DEF body, bodyTexts
<1>17. Reading(body \o headers,
               bodyTexts \cup ListTexts(b.confirmation_headers, HeaderSize))
    BY <1>7, <1>16, JoinedReads
<1> QED BY <1>8, <1>14, <1>15, <1>17, JoinedReads

\* and so is every text of a document.
LEMMA DocumentRead ==
    ASSUME NEW json, IsDocument(json) PROVE Reading(Reads(json), Texts(json))
<1>1. /\ IsVector(json.keys) /\ IsVector(json.checkpoints)
      /\ IsVector(json.bundle.merkle_proof.siblings)
      /\ IsVector(json.bundle.confirmation_headers)
    BY DEF IsDocument
<1> DEFINE keys == FlattenSeq([k \in DOMAIN json.keys |->
                                ReadEntry("key_id", <<"public_key", "chain_code">>,
                                          json.keys[k], XpubSizes)])
           checkpoints == FlattenSeq([k \in DOMAIN json.checkpoints |->
                                ReadEntry("registry id", <<"hash">>, json.checkpoints[k],
                                          RecordSizes)])
<1>2. Reading(keys, EntryTexts(json.keys, XpubSizes))
    <2>1. DOMAIN XpubSizes = {"public_key", "chain_code"}
        BY DEF XpubSizes
    <2>2. LET names == <<"public_key", "chain_code">> IN
              IsVector(names) /\ Range(names) = DOMAIN XpubSizes /\ "ok" \notin Range(names)
        BY <2>1, NamesAre
    <2> QED BY <1>1, <2>2, EntriesRead
<1>3. Reading(checkpoints, EntryTexts(json.checkpoints, RecordSizes))
    <2>1. DOMAIN RecordSizes = {"hash"}
        BY DEF RecordSizes
    <2>2. LET names == <<"hash">> IN
              IsVector(names) /\ Range(names) = DOMAIN RecordSizes /\ "ok" \notin Range(names)
        BY <2>1, NamesAre
    <2> QED BY <1>1, <2>2, EntriesRead
<1>4. Reading(BundleReads(json.bundle), BundleTexts(json.bundle))
    BY <1>1, BundleRead
<1>5. Reads(json) = (keys \o checkpoints) \o BundleReads(json.bundle)
    BY DEF Reads
<1> HIDE DEF keys, checkpoints
<1>6. Reading(keys \o checkpoints, EntryTexts(json.keys, XpubSizes)
                                    \cup EntryTexts(json.checkpoints, RecordSizes))
    BY <1>2, <1>3, JoinedReads
<1> QED BY <1>4, <1>5, <1>6, JoinedReads DEF Texts

\* A text is asked for a number of bytes.
LEMMA TextSizes ==
    ASSUME NEW json PROVE \A text \in Texts(json) : text.size \in Nat
<1>1. \A text, size : Spelling(text, size).size = size
    BY DEF Spelling
<1>2. /\ HashSize \in Nat /\ HeaderSize \in Nat
      /\ \A f \in DOMAIN XpubSizes : XpubSizes[f] \in Nat
      /\ \A f \in DOMAIN RecordSizes : RecordSizes[f] \in Nat
      /\ \A f \in DOMAIN BundleSizes : BundleSizes[f] \in Nat
      /\ \A f \in DOMAIN OrderSizes : OrderSizes[f] \in Nat
      /\ \A f \in DOMAIN PreimageSizes : PreimageSizes[f] \in Nat
    BY DEF HashSize, HeaderSize, XpubSizes, RecordSizes, BundleSizes, OrderSizes,
           PreimageSizes, AnyLength
<1> QED BY <1>1, <1>2 DEF Texts, EntryTexts, BundleTexts, FieldTexts, ListTexts

\* decode_hex_array reads what the documentation calls hex of so many bytes
\* (main.rs:905-921).
LEMMA Legibility ==
    ASSUME NEW read, read.text.prefixes \in Nat, read.text.digits \in Nat, read.size \in Nat
    PROVE  IsLegible(read) <=> IsHex(Spelling(read.text, read.size))
<1> DEFINE t == read.text  z == read.size  d == t.digits
<1>1. IsLegible(read) <=> /\ t.prefixes \in {0, 1} /\ t.clean /\ d % 2 = 0
                          /\ z \in {AnyLength, d \div 2}
    BY DEF IsLegible, StripPrefix
<1>2. IsHex(Spelling(t, z)) <=> /\ t.prefixes \in {0, 1} /\ t.clean
                                /\ IF z = AnyLength THEN d % 2 = 0 ELSE d = 2 * z
    BY DEF IsHex, Spelling
<1>3. (d % 2 = 0 /\ z \in {AnyLength, d \div 2})
        <=> IF z = AnyLength THEN d % 2 = 0 ELSE d = 2 * z
    <2> HIDE DEF d, z
    <2>1. d \in Nat /\ z \in Nat
        BY DEF d, z
    <2> QED BY <2>1
<1> QED BY <1>1, <1>2, <1>3

\* A document is refused exactly if one of its texts is no hex or of another
\* length, wherever in it that is.
LEMMA Conversion ==
    ASSUME NEW json, IsDocument(json)
    PROVE  ConversionError(json) = "ok" <=> AllHex(json)
<1> DEFINE reads == Reads(json)
           bad   == {k \in 1..Len(reads) : ~IsLegible(reads[k])}
<1>1. Reading(reads, Texts(json))
    BY DocumentRead
<1> HIDE DEF reads
<1>2. Len(reads) \in Nat /\ DOMAIN reads = 1..Len(reads)
    BY <1>1 DEF Reading, IsVector
<1>3. ConversionError(json) = IF bad = {} THEN "ok" ELSE reads[Min(bad)].field
    <2>1. bad # {} => Min(bad) # 0
        <3> SUFFICES ASSUME bad # {} PROVE Min(bad) # 0
            OBVIOUS
        <3>1. bad \subseteq Nat
            BY <1>2
        <3>2. Min(bad) \in bad
            BY <3>1, LeastNumber DEF Min
        <3> QED BY <1>2, <3>2
    <2> QED BY <2>1 DEF ConversionError, SelectInSeq, reads
<1>4. bad # {} => reads[Min(bad)].field # "ok"
    <2> SUFFICES ASSUME bad # {} PROVE reads[Min(bad)].field # "ok"
        OBVIOUS
    <2>1. bad \subseteq Nat
        BY <1>2
    <2>2. Min(bad) \in bad
        BY <2>1, LeastNumber DEF Min
    <2>3. reads[Min(bad)] \in Range(reads)
        BY <1>2, <2>2 DEF Range
    <2> QED BY <1>1, <2>3 DEF Reading
<1>5. ASSUME NEW read \in Range(reads)
      PROVE  /\ Spelling(read.text, read.size) \in Texts(json)
             /\ IsLegible(read) <=> IsHex(Spelling(read.text, read.size))
    <2>1. Spelling(read.text, read.size) \in Texts(json)
        BY <1>1 DEF Reading
    <2>2. read.text.prefixes \in Nat /\ read.text.digits \in Nat
        BY <2>1 DEF IsDocument, Spelling
    <2>3. read.size \in Nat
        BY <2>1, TextSizes DEF Spelling
    <2> QED BY <2>1, <2>2, <2>3, Legibility
<1>6. bad = {} <=> \A read \in Range(reads) : IsLegible(read)
    BY <1>2 DEF Range
<1>7. (\A read \in Range(reads) : IsLegible(read)) <=> AllHex(json)
    BY <1>1, <1>5 DEF AllHex, Reading
<1> QED BY <1>3, <1>4, <1>6, <1>7

-----------------------------------------------------------------------------
(* What is read is what was written. *)

\* A struct
LEMMA StructDecoded ==
    ASSUME NEW json, NEW struct, NEW sizes, NEW apart, Says(json, struct, sizes, apart)
    PROVE  /\ DOMAIN Decode(json, sizes) = DOMAIN struct
           /\ DOMAIN struct = DOMAIN json /\ apart \subseteq DOMAIN struct
           /\ struct = [f \in DOMAIN struct |-> struct[f]]
           /\ \A f \in DOMAIN struct \ apart : Decode(json, sizes)[f] = struct[f]
           /\ apart = {} => Decode(json, sizes) = struct
<1>1. DOMAIN struct = DOMAIN json /\ struct = [f \in DOMAIN json |-> struct[f]]
    BY DEF Says
<1>2. \A f \in DOMAIN json \ apart :
            struct[f] = IF f \in DOMAIN sizes THEN json[f].value ELSE json[f]
    BY DEF Says
<1>3. apart = {} => Decode(json, sizes) = struct
    BY <1>1, <1>2 DEF Decode
<1> QED BY <1>1, <1>2, <1>3 DEF Decode, Says

\* and a registry.
LEMMA EntriesDecoded ==
    ASSUME NEW json, NEW entries, NEW sizes, SaysEntries(json, entries, sizes)
    PROVE  DecodeEntries(json, sizes) = entries
<1>1. \A k \in DOMAIN json : Decode(json[k].value, sizes) = entries[k].value
    BY StructDecoded DEF SaysEntries
<1> QED BY <1>1 DEF DecodeEntries, SaysEntries

\* A bundle, with the structs and lists inside it,
LEMMA BundleDecoded ==
    ASSUME NEW json, NEW b, SaysBundle(json, b) PROVE DecodeBundle(json) = b
<1> DEFINE d == Decode(json, BundleSizes)
           o == DecodeOrder(json.order)
           m == [json.merkle_proof EXCEPT !.siblings = DecodeAll(@)]
           h == DecodeAll(json.confirmation_headers)
<1>1. o = b.order
    <2> DEFINE e == Decode(json.order, OrderSizes)
    <2>1. /\ DOMAIN e = DOMAIN b.order /\ "preimage" \in DOMAIN b.order
          /\ b.order = [f \in DOMAIN b.order |-> b.order[f]]
          /\ \A f \in DOMAIN b.order \ {"preimage"} : e[f] = b.order[f]
        BY StructDecoded DEF SaysBundle
    <2>2. e.preimage = json.order.preimage
        <3>1. "preimage" \in DOMAIN json.order
            BY DEF SaysBundle, Says
        <3> QED BY <3>1 DEF Decode, OrderSizes
    <2>3. Decode(json.order.preimage, PreimageSizes) = b.order.preimage
        BY StructDecoded DEF SaysBundle
    <2> HIDE DEF e
    <2>4. [e EXCEPT !.preimage = Decode(@, PreimageSizes)] = b.order
        BY <2>1, <2>2, <2>3
    <2> QED BY <2>4 DEF e, DecodeOrder
<1>2. m = b.merkle_proof
    <2>1. Says(json.merkle_proof, b.merkle_proof, <<>>, {"siblings"})
        BY DEF SaysBundle
    <2>2. DecodeAll(json.merkle_proof.siblings) = b.merkle_proof.siblings
        BY DEF SaysBundle, SaysAll, DecodeAll
    <2> DEFINE p == json.merkle_proof  q == b.merkle_proof
    <2> HIDE DEF p, q
    <2>3. /\ q = [f \in DOMAIN p |-> q[f]] /\ "siblings" \in DOMAIN p
          /\ \A f \in DOMAIN p \ {"siblings"} : q[f] = p[f]
        BY <2>1 DEF Says, p, q
    <2>4. [p EXCEPT !.siblings = DecodeAll(@)] = q
        BY <2>2, <2>3 DEF p, q
    <2> QED BY <2>4 DEF p, q
<1>3. h = b.confirmation_headers
    BY DEF SaysBundle, SaysAll, DecodeAll
<1>4. /\ DOMAIN d = DOMAIN b
      /\ {"order", "merkle_proof", "confirmation_headers"} \subseteq DOMAIN b
      /\ b = [f \in DOMAIN b |-> b[f]]
      /\ \A f \in DOMAIN b \ {"order", "merkle_proof", "confirmation_headers"} : d[f] = b[f]
    BY StructDecoded DEF SaysBundle
<1>5. /\ d.order = json.order /\ d.merkle_proof = json.merkle_proof
      /\ d.confirmation_headers = json.confirmation_headers
    <2>1. {"order", "merkle_proof", "confirmation_headers"} \subseteq DOMAIN json
        BY DEF SaysBundle, Says
    <2> QED BY <2>1 DEF Decode, BundleSizes
<1> HIDE DEF d
<1>6. DecodeBundle(json) =
        [d EXCEPT !.order = o, !.merkle_proof = m, !.confirmation_headers = h]
    BY <1>4, <1>5 DEF DecodeBundle, d
<1> HIDE DEF o, m, h
<1>7. [d EXCEPT !.order = o, !.merkle_proof = m, !.confirmation_headers = h] = b
    BY <1>1, <1>2, <1>3, <1>4
<1> QED BY <1>6, <1>7

\* and so the whole request, field by field and entry by entry.
LEMMA RequestDecoded ==
    ASSUME NEW json, NEW r, SaysRequest(json, r) PROVE DecodeRequest(json) = r
BY BundleDecoded, EntriesDecoded DEF SaysRequest, DecodeRequest

-----------------------------------------------------------------------------
(* What the service writes of a request can be read again. *)

IsStruct(s, fields) == s = [f \in DOMAIN s |-> s[f]] /\ fields \subseteq DOMAIN s

AreEntries(entries, fields) ==
    /\ IsVector(entries)
    /\ \A k \in DOMAIN entries :
            /\ entries[k] = [id |-> entries[k].id, value |-> entries[k].value]
            /\ IsStruct(entries[k].value, fields)

\* The structs of a bundle and of a request
IsBundle(b) ==
    /\ IsStruct(b, DOMAIN BundleSizes
                   \cup {"order", "merkle_proof", "confirmation_headers"})
    /\ IsStruct(b.order, DOMAIN OrderSizes \cup {"preimage"})
    /\ IsStruct(b.order.preimage, DOMAIN PreimageSizes)
    /\ IsStruct(b.merkle_proof, {"siblings"})
    /\ IsVector(b.merkle_proof.siblings) /\ IsVector(b.confirmation_headers)

IsRequest(r) ==
    /\ r = [bundle |-> r.bundle, keys |-> r.keys, checkpoints |-> r.checkpoints,
            now_l2 |-> r.now_l2]
    /\ IsBundle(r.bundle)
    /\ AreEntries(r.keys, DOMAIN XpubSizes)
    /\ AreEntries(r.checkpoints, DOMAIN RecordSizes)

\* hex::encode writes two digits for a byte, and no 0x.
Plain(text) == text.prefixes = 0 /\ text.clean /\ text.digits = 2 * text.size

\* So does Hex, and it spells the bytes it was given.
LEMMA HexIsPlain ==
    \A bytes, size : /\ Plain(Spelling(Hex(bytes, size), size))
                     /\ Hex(bytes, size).value = bytes
BY DEF Plain, Spelling, Hex

\* A struct written
LEMMA StructEncoded ==
    ASSUME NEW s, NEW sizes, NEW apart, IsStruct(s, DOMAIN sizes \cup apart)
    PROVE  /\ Says(Encode(s, sizes), s, sizes, apart)
           /\ \A text \in FieldTexts(Encode(s, sizes), sizes) : Plain(text)
           /\ DOMAIN Encode(s, sizes) = DOMAIN s
           /\ \A f \in DOMAIN s \ DOMAIN sizes : Encode(s, sizes)[f] = s[f]
<1> DEFINE e == Encode(s, sizes)
<1>1. /\ DOMAIN e = DOMAIN s /\ DOMAIN sizes \subseteq DOMAIN s /\ apart \subseteq DOMAIN s
      /\ s = [f \in DOMAIN s |-> s[f]]
    BY DEF Encode, IsStruct
<1>2. \A f \in DOMAIN s :
            e[f] = IF f \in DOMAIN sizes THEN Hex(s[f], sizes[f]) ELSE s[f]
    BY DEF Encode
<1> HIDE DEF e
<1>3. Says(e, s, sizes, apart)
    BY <1>1, <1>2, HexIsPlain DEF Says
<1>4. \A text \in FieldTexts(e, sizes) : Plain(text)
    BY <1>1, <1>2, HexIsPlain DEF FieldTexts
<1> QED BY <1>1, <1>2, <1>3, <1>4 DEF e

\* or a list
LEMMA ListEncoded ==
    ASSUME NEW values, IsVector(values), NEW size
    PROVE  /\ IsVector(EncodeAll(values, size))
           /\ SaysAll(EncodeAll(values, size), values)
           /\ \A text \in ListTexts(EncodeAll(values, size), size) : Plain(text)
<1> DEFINE n == Len(values)  e == EncodeAll(values, size)
<1>1. n \in Nat /\ DOMAIN values = 1..n /\ values = [k \in 1..n |-> values[k]]
    BY DEF IsVector
<1>2. e = [k \in 1..n |-> Hex(values[k], size)]
    BY <1>1 DEF EncodeAll
<1>3. IsVector(e)
    BY <1>1, <1>2, VectorOf
<1>4. SaysAll(e, values)
    BY <1>1, <1>2, HexIsPlain DEF SaysAll
<1>5. \A text \in ListTexts(e, size) : Plain(text)
    BY <1>2, HexIsPlain DEF ListTexts
<1> QED BY <1>3, <1>4, <1>5

\* or a registry says what it was.
LEMMA EntriesEncoded ==
    ASSUME NEW entries, NEW sizes, AreEntries(entries, DOMAIN sizes)
    PROVE  LET json == [k \in DOMAIN entries |-> EncodeEntry(entries[k], sizes)] IN
           /\ IsVector(json)
           /\ SaysEntries(json, entries, sizes)
           /\ \A text \in EntryTexts(json, sizes) : Plain(text)
<1> DEFINE n == Len(entries)  json == [k \in DOMAIN entries |-> EncodeEntry(entries[k], sizes)]
<1>1. n \in Nat /\ DOMAIN entries = 1..n /\ entries = [k \in 1..n |-> entries[k]]
    BY DEF AreEntries, IsVector
<1>2. ASSUME NEW k \in 1..n
      PROVE  /\ json[k].id = Hex(entries[k].id, HashSize)
             /\ json[k].value = Encode(entries[k].value, sizes)
    BY <1>1 DEF EncodeEntry
<1>3. json = [k \in 1..n |-> json[k]] /\ DOMAIN json = 1..n
    BY <1>1
<1> HIDE DEF json
<1>4. IsVector(json)
    BY <1>1, <1>3, VectorOf
<1>5. ASSUME NEW k \in 1..n
      PROVE  /\ Says(json[k].value, entries[k].value, sizes, {})
             /\ \A text \in FieldTexts(json[k].value, sizes) : Plain(text)
    <2>1. IsStruct(entries[k].value, DOMAIN sizes \cup {})
        BY <1>1 DEF AreEntries
    <2> QED BY <1>2, <2>1, StructEncoded
<1>6. entries = [k \in 1..n |-> [id |-> json[k].id.value, value |-> entries[k].value]]
    BY <1>1, <1>2, HexIsPlain DEF AreEntries
<1>7. \A text \in EntryTexts(json, sizes) : Plain(text)
    BY <1>2, <1>3, <1>5, HexIsPlain DEF EntryTexts
<1> QED BY <1>3, <1>4, <1>5, <1>6, <1>7 DEF json, SaysEntries

\* A struct whose fields apart are written in some other way says the same but
\* for these.
LEMMA StructReplaced ==
    ASSUME NEW s, NEW sizes, NEW apart, NEW e, IsStruct(s, DOMAIN sizes \cup apart),
           apart \cap DOMAIN sizes = {}, DOMAIN e = DOMAIN s,
           \A f \in DOMAIN s \ apart : e[f] = Encode(s, sizes)[f]
    PROVE  /\ Says(e, s, sizes, apart)
           /\ \A text \in FieldTexts(e, sizes) : Plain(text)
<1>1. /\ Says(Encode(s, sizes), s, sizes, apart)
      /\ \A text \in FieldTexts(Encode(s, sizes), sizes) : Plain(text)
      /\ DOMAIN Encode(s, sizes) = DOMAIN s
    BY StructEncoded
<1>2. DOMAIN sizes \subseteq DOMAIN s \ apart
    BY DEF IsStruct
<1>3. FieldTexts(e, sizes) = FieldTexts(Encode(s, sizes), sizes)
    BY <1>2 DEF FieldTexts
<1> QED BY <1>1, <1>3 DEF Says

\* A bundle written says what the bundle holds, in plain hex.
LEMMA BundleEncoded ==
    ASSUME NEW b, IsBundle(b)
    PROVE  LET json == EncodeBundle(b) IN
           /\ SaysBundle(json, b)
           /\ IsVector(json.merkle_proof.siblings) /\ IsVector(json.confirmation_headers)
           /\ \A text \in BundleTexts(json) : Plain(text)
<1> DEFINE apart == {"order", "merkle_proof", "confirmation_headers"}
           d     == Encode(b, BundleSizes)
           json  == EncodeBundle(b)
           order == EncodeOrder(b.order)
           proof == [b.merkle_proof EXCEPT !.siblings = EncodeAll(@, HashSize)]
           list  == EncodeAll(b.confirmation_headers, HeaderSize)
<1>1. /\ IsStruct(b, DOMAIN BundleSizes \cup apart) /\ apart \subseteq DOMAIN b
      /\ apart \cap DOMAIN BundleSizes = {}
    BY DEF IsBundle, IsStruct, BundleSizes
<1>2. /\ DOMAIN d = DOMAIN b /\ d.order = b.order /\ d.merkle_proof = b.merkle_proof
      /\ d.confirmation_headers = b.confirmation_headers
    BY <1>1 DEF Encode
<1> HIDE DEF d
<1>3. json = [d EXCEPT !.order = order, !.merkle_proof = proof, !.confirmation_headers = list]
    BY <1>1, <1>2 DEF EncodeBundle, d
<1> HIDE DEF json, order, proof, list
<1>4. /\ DOMAIN json = DOMAIN b /\ \A f \in DOMAIN b \ apart : json[f] = d[f]
      /\ json.order = order /\ json.merkle_proof = proof /\ json.confirmation_headers = list
    BY <1>1, <1>2, <1>3
<1>5. /\ Says(json, b, BundleSizes, apart)
      /\ \A text \in FieldTexts(json, BundleSizes) : Plain(text)
    BY <1>1, <1>4, StructReplaced DEF d
<1>6. /\ Says(order, b.order, OrderSizes, {"preimage"})
      /\ \A text \in FieldTexts(order, OrderSizes) : Plain(text)
      /\ order.preimage = Encode(b.order.preimage, PreimageSizes)
    <2> DEFINE o == b.order  e == Encode(b.order, OrderSizes)
    <2>1. /\ IsStruct(o, DOMAIN OrderSizes \cup {"preimage"}) /\ "preimage" \in DOMAIN o
          /\ {"preimage"} \cap DOMAIN OrderSizes = {}
        BY DEF IsBundle, IsStruct, OrderSizes
    <2>2. DOMAIN e = DOMAIN o /\ e.preimage = o.preimage
        BY <2>1 DEF Encode
    <2>3. order = [e EXCEPT !.preimage = Encode(@, PreimageSizes)]
        BY DEF order, EncodeOrder
    <2> HIDE DEF e
    <2>4. /\ DOMAIN order = DOMAIN o /\ order.preimage = Encode(o.preimage, PreimageSizes)
          /\ \A f \in DOMAIN o \ {"preimage"} : order[f] = e[f]
        BY <2>1, <2>2, <2>3
    <2> QED BY <2>1, <2>4, StructReplaced DEF e
<1>7. /\ Says(order.preimage, b.order.preimage, PreimageSizes, {})
      /\ \A text \in FieldTexts(order.preimage, PreimageSizes) : Plain(text)
    <2>1. IsStruct(b.order.preimage, DOMAIN PreimageSizes \cup {})
        BY DEF IsBundle
    <2> QED BY <1>6, <2>1, StructEncoded
<1>8. /\ Says(proof, b.merkle_proof, <<>>, {"siblings"})
      /\ proof.siblings = EncodeAll(b.merkle_proof.siblings, HashSize)
    <2> DEFINE p == b.merkle_proof
    <2>1. p = [f \in DOMAIN p |-> p[f]] /\ "siblings" \in DOMAIN p
        BY DEF IsBundle, IsStruct
    <2> HIDE DEF p
    <2>2. proof = [p EXCEPT !.siblings = EncodeAll(@, HashSize)]
        BY DEF proof, p
    <2>3. /\ DOMAIN proof = DOMAIN p /\ proof.siblings = EncodeAll(p.siblings, HashSize)
          /\ \A f \in DOMAIN p \ {"siblings"} : proof[f] = p[f]
        BY <2>1, <2>2
    <2>4. DOMAIN <<>> = {}
        OBVIOUS
    <2> QED BY <2>1, <2>3, <2>4 DEF Says, p
<1>9. /\ IsVector(proof.siblings) /\ SaysAll(proof.siblings, b.merkle_proof.siblings)
      /\ \A text \in ListTexts(proof.siblings, HashSize) : Plain(text)
    BY <1>8, ListEncoded DEF IsBundle
<1>10. /\ IsVector(list) /\ SaysAll(list, b.confirmation_headers)
       /\ \A text \in ListTexts(list, HeaderSize) : Plain(text)
    BY ListEncoded DEF IsBundle, list
<1>11. SaysBundle(json, b)
    BY <1>4, <1>5, <1>6, <1>7, <1>8, <1>9, <1>10 DEF SaysBundle
<1>12. \A text \in BundleTexts(json) : Plain(text)
    BY <1>4, <1>5, <1>6, <1>7, <1>9, <1>10 DEF BundleTexts
<1> QED BY <1>4, <1>9, <1>10, <1>11, <1>12 DEF json

\* The request a document was written from is what the document says, and the
\* document can be read (main.rs:549-572, 838-921).
LEMMA RequestEncoded ==
    ASSUME NEW r, IsRequest(r)
    PROVE  LET json == EncodeRequest(r) IN
           IsDocument(json) /\ AllHex(json) /\ SaysRequest(json, r)
<1> DEFINE json == EncodeRequest(r)
<1>1. /\ json.bundle = EncodeBundle(r.bundle) /\ json.now_l2 = r.now_l2
      /\ json.keys = [k \in DOMAIN r.keys |-> EncodeEntry(r.keys[k], XpubSizes)]
      /\ json.checkpoints
            = [k \in DOMAIN r.checkpoints |-> EncodeEntry(r.checkpoints[k], RecordSizes)]
    BY DEF EncodeRequest
<1> HIDE DEF json
<1>2. /\ SaysBundle(json.bundle, r.bundle)
      /\ IsVector(json.bundle.merkle_proof.siblings)
      /\ IsVector(json.bundle.confirmation_headers)
      /\ \A text \in BundleTexts(json.bundle) : Plain(text)
    BY <1>1, BundleEncoded DEF IsRequest
<1>3. /\ IsVector(json.keys) /\ SaysEntries(json.keys, r.keys, XpubSizes)
      /\ \A text \in EntryTexts(json.keys, XpubSizes) : Plain(text)
    <2>1. AreEntries(r.keys, DOMAIN XpubSizes)
        BY DEF IsRequest
    <2> QED BY <1>1, <2>1, EntriesEncoded
<1>4. /\ IsVector(json.checkpoints) /\ SaysEntries(json.checkpoints, r.checkpoints, RecordSizes)
      /\ \A text \in EntryTexts(json.checkpoints, RecordSizes) : Plain(text)
    <2>1. AreEntries(r.checkpoints, DOMAIN RecordSizes)
        BY DEF IsRequest
    <2> QED BY <1>1, <2>1, EntriesEncoded
<1>5. SaysRequest(json, r)
    BY <1>1, <1>2, <1>3, <1>4 DEF SaysRequest, IsRequest
<1>6. ASSUME NEW text \in Texts(json)
      PROVE  IsHex(text) /\ text.prefixes \in Nat /\ text.digits \in Nat
    <2>1. Plain(text) /\ text.size \in Nat
        BY <1>2, <1>3, <1>4, TextSizes DEF Texts
    <2> DEFINE z == text.size
    <2>2. text.prefixes = 0 /\ text.clean /\ text.digits = 2 * z /\ z \in Nat
        BY <2>1 DEF Plain
    <2> HIDE DEF z
    <2>3. 2 * z \in Nat /\ (2 * z) % 2 = 0
        BY <2>2
    <2> QED BY <2>2, <2>3 DEF IsHex, z
<1> QED BY <1>2, <1>3, <1>4, <1>5, <1>6 DEF IsDocument, AllHex, json

-----------------------------------------------------------------------------
(* The documents *)

\* The two records of the sample's registry (main.rs:458-461, 484-503)
LEMMA SampleRecords ==
    /\ SampleCheckpoint = [f \in {"network", "height", "hash", "nbits"} |-> SampleCheckpoint[f]]
    /\ SampleTip = [f \in {"network", "height", "hash", "nbits"} |-> SampleTip[f]]
    /\ SampleCheckpoint.network = "regtest" /\ SampleTip.network = "regtest"
    /\ SampleCheckpoint.height = 100 /\ SampleTip.height = 101
    /\ SampleTip.hash = BlockHash(SampleHeader)
<1> DEFINE word == 32 * Weight[3] + 8388607
<1>1. SampleCheckpoint =
            [network |-> "regtest", height |-> 100, hash |-> "0909", nbits |-> word]
    BY DEF SampleCheckpoint
<1> HIDE DEF word
<1> DEFINE c == SampleCheckpoint
<1>2. /\ c = [f \in {"network", "height", "hash", "nbits"} |-> c[f]]
      /\ c.network = "regtest" /\ c.height = 100
    BY <1>1
<1> HIDE DEF c
<1>3. SampleTip = [c EXCEPT !.height = c.height + 1, !.hash = BlockHash(SampleHeader)]
    BY DEF SampleTip, c
<1>4. /\ SampleTip = [f \in {"network", "height", "hash", "nbits"} |-> SampleTip[f]]
      /\ SampleTip.network = "regtest" /\ SampleTip.height = 101
      /\ SampleTip.hash = BlockHash(SampleHeader)
    <2> DEFINE t == SampleTip
    <2>1. /\ DOMAIN t = DOMAIN c /\ t = [f \in DOMAIN t |-> t[f]]
          /\ t.network = c.network /\ t.height = c.height + 1
          /\ t.hash = BlockHash(SampleHeader)
        BY <1>2, <1>3
    <2> HIDE DEF t
    <2>2. DOMAIN c = {"network", "height", "hash", "nbits"} /\ c.height + 1 = 101
        BY <1>2
    <2>3. t = [f \in {"network", "height", "hash", "nbits"} |-> t[f]]
        BY <2>1, <2>2
    <2> QED BY <1>2, <2>1, <2>2, <2>3 DEF t
<1> QED BY <1>2, <1>4 DEF c

\* VerifyRequest::sample (main.rs:404-507) builds a request.
LEMMA SampleIsRequest == IsRequest(Sample)
<1>1. Sample = [bundle |-> Sample.bundle, keys |-> Sample.keys,
                checkpoints |-> Sample.checkpoints, now_l2 |-> Sample.now_l2]
    BY DEF Sample
<1>2. /\ Sample.bundle = SampleBundle /\ Sample.keys = SampleKeys
      /\ Sample.checkpoints = <<[id |-> "01", value |-> SampleCheckpoint],
                                [id |-> "02", value |-> SampleTip]>>
    BY DEF Sample
<1>3. AreEntries(SampleKeys, DOMAIN XpubSizes)
    <2> DEFINE s == SampleKeys
    <2>1. /\ s = [k \in 1..1 |-> s[k]]
          /\ s[1] = [id |-> s[1].id, value |-> s[1].value]
          /\ s[1].value = [public_key |-> "0279", chain_code |-> "0707"]
        BY DEF SampleKeys
    <2> HIDE DEF s
    <2>2. IsVector(s) /\ DOMAIN s = 1..1
        BY <2>1, VectorOf
    <2>3. IsStruct(s[1].value, DOMAIN XpubSizes)
        BY <2>1 DEF IsStruct, XpubSizes
    <2> QED BY <2>1, <2>2, <2>3 DEF AreEntries, s
<1>4. AreEntries(Sample.checkpoints, DOMAIN RecordSizes)
    <2> DEFINE s == Sample.checkpoints
    <2>1. /\ s = [k \in 1..2 |-> s[k]]
          /\ s[1] = [id |-> "01", value |-> SampleCheckpoint]
          /\ s[2] = [id |-> "02", value |-> SampleTip]
        BY <1>2
    <2> HIDE DEF s
    <2>2. IsVector(s) /\ DOMAIN s = 1..2
        BY <2>1, VectorOf
    <2>3. /\ IsStruct(SampleCheckpoint, DOMAIN RecordSizes)
          /\ IsStruct(SampleTip, DOMAIN RecordSizes)
        BY SampleRecords DEF IsStruct, RecordSizes
    <2> QED BY <2>1, <2>2, <2>3 DEF AreEntries, s
<1>5. IsBundle(SampleBundle)
    <2> DEFINE b == SampleBundle
    <2>1. IsStruct(b, DOMAIN BundleSizes
                      \cup {"order", "merkle_proof", "confirmation_headers"})
        BY DEF IsStruct, SampleBundle, BundleSizes
    <2>2. IsStruct(b.order, DOMAIN OrderSizes \cup {"preimage"})
        BY DEF IsStruct, SampleBundle, OrderSizes
    <2>3. IsStruct(b.order.preimage, DOMAIN PreimageSizes)
        <3>1. b.order.preimage = SamplePreimage
            BY DEF SampleBundle
        <3>2. IsStruct(SamplePreimage, DOMAIN PreimageSizes)
            BY DEF IsStruct, SamplePreimage, PreimageSizes
        <3> QED BY <3>1, <3>2
    <2>4. IsStruct(b.merkle_proof, {"siblings"})
        BY DEF IsStruct, SampleBundle
    <2>5. IsVector(b.merkle_proof.siblings)
        <3>1. b.merkle_proof.siblings = <<>>
            BY DEF SampleBundle
        <3> QED BY <3>1 DEF IsVector
    <2>6. IsVector(b.confirmation_headers)
        <3>1. b.confirmation_headers = <<SampleHeader>>
            BY DEF SampleBundle
        <3> QED BY <3>1, NamesAre
    <2> QED BY <2>1, <2>2, <2>3, <2>4, <2>5, <2>6 DEF IsBundle
<1> QED BY <1>1, <1>2, <1>3, <1>4, <1>5 DEF IsRequest

\* Its numbers are u32 and u64.
LEMMA SampleOk == Verifier!RequestOk(Sample)
<1>1. /\ Sample.bundle = SampleBundle /\ Sample.now_l2 = 15
      /\ SampleBundle.order.preimage = SamplePreimage
      /\ SampleBundle.confirmation_headers = <<SampleHeader>>
      /\ SampleBundle.raw_tx = SampleTx
    BY DEF Sample, SampleBundle
<1>2. /\ SampleBundle.checkpoint_height = 100 /\ SampleBundle.claimed_tip_height = 101
      /\ SampleBundle.tx_block_index = 0 /\ SampleBundle.vout = 0
      /\ SamplePreimage.max_btc_inclusion_height = 1000
      /\ SamplePreimage.min_confirmations = 1
      /\ SamplePreimage.quote_expires_at_l2 = 10 /\ SamplePreimage.claim_deadline_l2 = 20
      /\ SamplePreimage.reclaim_after_l2 = 30
    BY SampleRecords DEF SampleBundle, SamplePreimage
<1>3. {100, 101, 0, 1000, 1} \subseteq 0..MaxU32
    BY SampleAssumption, MaxU32Assumption
<1>4. \A x : Verifier!IsVector(<<x>>)
    BY NamesAre DEF IsVector, Verifier!IsVector
<1>5. Verifier!IsVector(SampleTx.outputs)
    BY <1>4 DEF SampleTx
<1> QED BY <1>1, <1>2, <1>3, <1>4, <1>5
        DEF Verifier!RequestOk, Verifier!Preimage, Verifier!Headers, Verifier!U32

\* A document is refused exactly if it is no request, and any other is taken for
\* what it was written for.
LEMMA DocumentsJudged ==
    ASSUME NEW name \in Documents
    PROVE  /\ name \in Illegible <=>
                Json(name) = NoRequest \/ ConversionError(Json(name)) # "ok"
           /\ name \notin Illegible => /\ DecodeRequest(Json(name)) = Intended(name)
                                      /\ Verifier!RequestOk(Intended(name))
<1>1. CASE name = sample
    <2>1. Json(name) = EncodeRequest(Sample) /\ Intended(name) = Sample
        BY <1>1 DEF Json, Intended
    <2>2. /\ IsDocument(Json(name)) /\ AllHex(Json(name))
          /\ SaysRequest(Json(name), Intended(name))
        BY <2>1, SampleIsRequest, RequestEncoded
    <2>3. ConversionError(Json(name)) = "ok"
        BY <2>2, Conversion
    <2>4. Json(name) # NoRequest /\ name \notin Illegible
        BY <1>1, <2>1, SampleAssumption
    <2> QED BY <2>1, <2>2, <2>3, <2>4, RequestDecoded, SampleOk
<1>2. CASE name # sample
    <2>1. Json(name) = Written(name) /\ Intended(name) = Meaning(name)
        BY <1>2 DEF Json, Intended
    <2>2. /\ Json(name) # NoRequest => IsDocument(Json(name))
          /\ name \in Illegible <=> Json(name) = NoRequest \/ ~AllHex(Json(name))
          /\ name \notin Illegible => /\ SaysRequest(Json(name), Intended(name))
                                     /\ Verifier!RequestOk(Intended(name))
        BY <1>2, <2>1, DocumentsAssumption
    <2>3. Json(name) # NoRequest =>
                (ConversionError(Json(name)) = "ok" <=> AllHex(Json(name)))
        BY <2>2, Conversion
    <2> QED BY <2>2, <2>3, RequestDecoded
<1> QED BY <1>1, <1>2

-----------------------------------------------------------------------------
(* What ClaimVerifierProofs proves of the evaluation holds of it here: the *)
(* requests are what the readable documents were written for.              *)

Readable == Documents \ Illegible

Judge ==
    INSTANCE ClaimVerifierProofs WITH
        Requests <- Readable,
        Contents <- [name \in Readable |-> Intended(name)],
        req      <- doc

\* The assumptions of ClaimVerifier hold of them.
LEMMA JudgeAssumption ==
    \A name \in Readable : Judge!RequestOk([n \in Readable |-> Intended(n)][name])
<1>1. \A r : Judge!RequestOk(r) <=> Verifier!RequestOk(r)
    BY DEF Judge!RequestOk, Verifier!RequestOk, Judge!Preimage, Verifier!Preimage,
           Judge!Headers, Verifier!Headers, Judge!U32, Verifier!U32,
           Judge!IsVector, Verifier!IsVector
<1> QED BY <1>1, DocumentsJudged DEF Readable

\* The service's evaluation, an instance of its own, is the same: its fields,
LEMMA SameFields ==
    ASSUME NEW r
    PROVE  /\ Verifier!Preimage(r) = Judge!Preimage(r)
           /\ Verifier!Headers(r) = Judge!Headers(r)
           /\ Verifier!Anchor(r) = Judge!Anchor(r)
           /\ \A entries, id : Verifier!Resolve(entries, id) = Judge!Resolve(entries, id)
<1>1. ASSUME NEW entries, NEW id
      PROVE  Verifier!Resolve(entries, id) = Judge!Resolve(entries, id)
    BY DEF Verifier!Resolve, Judge!Resolve, Verifier!SelectInSeq, Judge!SelectInSeq,
           Verifier!Min, Judge!Min
<1> QED BY <1>1 DEF Verifier!Preimage, Judge!Preimage, Verifier!Headers, Judge!Headers,
                    Verifier!Anchor, Judge!Anchor

\* its proof of work,
LEMMA SameWork ==
    ASSUME NEW h, NEW e
    PROVE  /\ Verifier!CheckPow(h, e) = Judge!CheckPow(h, e)
           /\ Verifier!BlockHash(h) = Judge!BlockHash(h)
<1>1. Verifier!BlockHash(h) = Judge!BlockHash(h)
    BY DEF Verifier!BlockHash, Judge!BlockHash, Verifier!Sha256d, Judge!Sha256d
<1>2. Verifier!CheckPow(h, e) = Judge!CheckPow(h, e)
    BY DEF Verifier!CheckPow, Judge!CheckPow, Verifier!IsCompactTarget,
           Judge!IsCompactTarget, Verifier!IsNegative, Judge!IsNegative, Verifier!Word,
           Judge!Word, Verifier!Exponent, Judge!Exponent, Verifier!Mantissa, Judge!Mantissa,
           Verifier!GreaterThan, Judge!GreaterThan, Verifier!Reverse, Judge!Reverse,
           Verifier!BlockHash, Judge!BlockHash, Verifier!Sha256d, Judge!Sha256d,
           Verifier!TargetFromNbits, Judge!TargetFromNbits, Verifier!Byte, Judge!Byte,
           Verifier!Weight, Judge!Weight
<1> QED BY <1>1, <1>2

\* its Merkle branches,
LEMMA SameInclusion ==
    ASSUME NEW txid, NEW proof, NEW root
    PROVE  Verifier!VerifyInclusion(txid, proof, root)
             = Judge!VerifyInclusion(txid, proof, root)
BY DEF Verifier!VerifyInclusion, Judge!VerifyInclusion, Verifier!CloseBranch,
       Judge!CloseBranch, Verifier!FoldLeft, Judge!FoldLeft, Verifier!MapThenFoldSet,
       Judge!MapThenFoldSet, Verifier!Max, Judge!Max, Verifier!OpenBranch, Judge!OpenBranch,
       Verifier!OpeningError, Judge!OpeningError, Verifier!TreeDepth, Judge!TreeDepth,
       Verifier!BranchStep, Judge!BranchStep, Verifier!SiblingError, Judge!SiblingError,
       Verifier!IsLastOdd, Judge!IsLastOdd, Verifier!HashPair, Judge!HashPair,
       Verifier!Sha256d, Judge!Sha256d

\* its scripts,
LEMMA SameScripts ==
    ASSUME NEW p, NEW keys
    PROVE  /\ Verifier!DeriveScript(p, keys) = Judge!DeriveScript(p, keys)
           /\ Verifier!OrderId(p) = Judge!OrderId(p)
           /\ \A script : Verifier!Commitment(script) = Judge!Commitment(script)
<1>1. \A x : Verifier!OrderId(x) = Judge!OrderId(x)
    BY DEF Verifier!OrderId, Judge!OrderId, Verifier!Keccak256, Judge!Keccak256
<1>2. \A x, id : Verifier!DeriveP2tr(x, Verifier!ChildIndices(id))
                    = Judge!DeriveP2tr(x, Judge!ChildIndices(id))
    BY DEF Verifier!DeriveP2tr, Judge!DeriveP2tr, Verifier!ChildIndices,
           Judge!ChildIndices, Verifier!Sha256, Judge!Sha256
<1>3. Verifier!DeriveScript(p, keys) = Judge!DeriveScript(p, keys)
    BY <1>1, <1>2, SameFields DEF Verifier!DeriveScript, Judge!DeriveScript
<1> QED BY <1>1, <1>3 DEF Verifier!Commitment, Judge!Commitment,
                          Verifier!Keccak256, Judge!Keccak256

\* and so the checks of its stages.
LEMMA SameChecks ==
    ASSUME NEW r
    PROVE  /\ Verifier!VerifyTxid(r.bundle) = Judge!VerifyTxid(r.bundle)
           /\ \A p, now : Verifier!CheckWindow(p, now) = Judge!CheckWindow(p, now)
           /\ Verifier!CheckAnchor(r) = Judge!CheckAnchor(r)
           /\ \A k, prev : Verifier!CheckHeader(r, k, prev) = Judge!CheckHeader(r, k, prev)
           /\ \A tip : Verifier!CheckClaimedTip(r, tip) = Judge!CheckClaimedTip(r, tip)
           /\ Verifier!CheckPosition(r) = Judge!CheckPosition(r)
           /\ Verifier!CheckInclusion(r) = Judge!CheckInclusion(r)
           /\ Verifier!CheckBinding(r) = Judge!CheckBinding(r)
           /\ Verifier!SettlementOf(r) = Judge!SettlementOf(r)
<1>1. Verifier!VerifyTxid(r.bundle) = Judge!VerifyTxid(r.bundle)
    BY DEF Verifier!VerifyTxid, Judge!VerifyTxid, Verifier!Txid, Judge!Txid,
           Verifier!Sha256d, Judge!Sha256d, Verifier!LegacySerialize, Judge!LegacySerialize
<1>2. \A p, now : Verifier!CheckWindow(p, now) = Judge!CheckWindow(p, now)
    BY DEF Verifier!CheckWindow, Judge!CheckWindow, Verifier!ValidatePreimage,
           Judge!ValidatePreimage
<1>3. Verifier!CheckAnchor(r) = Judge!CheckAnchor(r)
    BY SameFields DEF Verifier!CheckAnchor, Judge!CheckAnchor
<1>4. \A n : Verifier!Fits(n) = Judge!Fits(n)
    BY DEF Verifier!Fits, Judge!Fits
<1>5. \A k, prev : Verifier!CheckHeader(r, k, prev) = Judge!CheckHeader(r, k, prev)
    BY <1>4, SameFields, SameWork DEF Verifier!CheckHeader, Judge!CheckHeader
<1>6. \A tip : Verifier!CheckClaimedTip(r, tip) = Judge!CheckClaimedTip(r, tip)
    BY <1>4, SameFields DEF Verifier!CheckClaimedTip, Judge!CheckClaimedTip
<1>7. Verifier!CheckPosition(r) = Judge!CheckPosition(r)
    BY <1>4, SameFields
       DEF Verifier!CheckPosition, Judge!CheckPosition, Verifier!BlockHeight,
           Judge!BlockHeight, Verifier!Confirmations, Judge!Confirmations,
           Verifier!ContainsCheckpoint, Judge!ContainsCheckpoint
<1>8. Verifier!CheckInclusion(r) = Judge!CheckInclusion(r)
    BY SameFields, SameInclusion DEF Verifier!CheckInclusion, Judge!CheckInclusion
<1>9. Verifier!CheckBinding(r) = Judge!CheckBinding(r)
    BY SameFields, SameScripts DEF Verifier!CheckBinding, Judge!CheckBinding
<1>10. Verifier!SettlementOf(r) = Judge!SettlementOf(r)
    BY SameFields DEF Verifier!SettlementOf, Judge!SettlementOf, Verifier!BlockHeight,
                      Judge!BlockHeight, Verifier!Confirmations, Judge!Confirmations
<1> QED BY <1>1, <1>2, <1>3, <1>5, <1>6, <1>7, <1>8, <1>9, <1>10

\* What Convert hands to evaluate_claim_bundle is the request the document was
\* written for.
LEMMA SameRequest ==
    doc \in Readable => /\ Verifier!request = Intended(doc)
                        /\ Judge!request = Intended(doc)
BY DocumentsJudged DEF Readable, Verifier!request, Judge!request

\* The stages of the evaluation are therefore the ones proved about,
LEMMA SameStep ==
    /\ doc \in Readable /\ Verifier!Next => Judge!Next
    /\ doc \in Readable => (Verifier!Init <=> Judge!Init)
<1>1. Verifier!Pending = Judge!Pending
    BY DEF Verifier!Pending, Judge!Pending, Verifier!Oracle!Pending, Judge!Oracle!Pending
<1>2. \A here, reason, next : Verifier!Try(here, reason, next)
                                => Judge!Try(here, reason, next)
    BY DEF Verifier!Try, Judge!Try, Verifier!Oracle!Rejected, Judge!Oracle!Rejected
<1>3. ASSUME doc \in Readable, Verifier!Next
      PROVE  Judge!Next
    <2> DEFINE r == Intended(doc)
    <2>0. Verifier!request = r /\ Judge!request = r
        BY <1>3, SameRequest
    <2> HIDE DEF r
    <2>1. CASE Verifier!VerifyTx
        <3>1. Judge!VerifyTx
            BY <1>2, <2>0, <2>1, SameChecks DEF Verifier!VerifyTx, Judge!VerifyTx
        <3> QED BY <3>1 DEF Judge!Next
    <2>2. CASE Verifier!ValidateOrder
        <3>1. Judge!ValidateOrder
            BY <1>2, <2>0, <2>2, SameChecks, SameFields
               DEF Verifier!ValidateOrder, Judge!ValidateOrder
        <3> QED BY <3>1 DEF Judge!Next
    <2>3. CASE Verifier!ResolveAnchor
        <3>1. Judge!ResolveAnchor
            BY <1>2, <2>0, <2>3, SameChecks, SameFields
               DEF Verifier!ResolveAnchor, Judge!ResolveAnchor
        <3> QED BY <3>1 DEF Judge!Next
    <2>4. CASE Verifier!LinkHeader
        <3>1. Judge!LinkHeader
            BY <1>2, <2>0, <2>4, SameChecks, SameFields, SameWork
               DEF Verifier!LinkHeader, Judge!LinkHeader
        <3> QED BY <3>1 DEF Judge!Next
    <2>5. CASE Verifier!MatchTip
        <3>1. Judge!MatchTip
            BY <1>2, <2>0, <2>5, SameChecks, SameFields
               DEF Verifier!MatchTip, Judge!MatchTip
        <3> QED BY <3>1 DEF Judge!Next
    <2>6. CASE Verifier!LocateBlock
        <3>1. Judge!LocateBlock
            BY <1>2, <2>0, <2>6, SameChecks DEF Verifier!LocateBlock, Judge!LocateBlock
        <3> QED BY <3>1 DEF Judge!Next
    <2>7. CASE Verifier!ProveInclusion
        <3>1. Judge!ProveInclusion
            BY <1>2, <2>0, <2>7, SameChecks DEF Verifier!ProveInclusion, Judge!ProveInclusion
        <3> QED BY <3>1 DEF Judge!Next
    <2>8. CASE Verifier!BindOutput
        <3>1. Judge!BindOutput
            BY <2>0, <2>8, SameChecks
               DEF Verifier!BindOutput, Judge!BindOutput, Verifier!Oracle!Settled,
                   Judge!Oracle!Settled, Verifier!Oracle!Rejected, Judge!Oracle!Rejected
        <3> QED BY <3>1 DEF Judge!Next
    <2>9. CASE Verifier!Returned
        <3>1. Judge!Returned
            BY <2>9 DEF Verifier!Returned, Judge!Returned, Verifier!vars, Judge!vars
        <3> QED BY <3>1 DEF Judge!Next
    <2> QED BY <1>3, <2>1, <2>2, <2>3, <2>4, <2>5, <2>6, <2>7, <2>8, <2>9 DEF Verifier!Next
<1>4. doc \in Readable => (Verifier!Init <=> Judge!Init)
    BY <1>1 DEF Verifier!Init, Judge!Init, Readable
<1> QED BY <1>3, <1>4

-----------------------------------------------------------------------------
(* The contract finds the same wrong with a request as the oracle that the *)
(* evaluation was proved to implement.                                     *)

\* The anchor and what else is taken from a request
LEMMA ContractFields ==
    ASSUME NEW r
    PROVE  /\ Contract!Preimage(r) = Judge!Oracle!Preimage(r)
           /\ Contract!Headers(r) = Judge!Oracle!Headers(r)
           /\ Contract!Anchor(r) = Judge!Oracle!Anchor(r)
           /\ \A n : Contract!Fits(n) = Judge!Oracle!Fits(n)
<1>1. ASSUME NEW entries, NEW id
      PROVE  Contract!Resolve(entries, id) = Judge!Oracle!Resolve(entries, id)
    BY DEF Contract!Resolve, Judge!Oracle!Resolve, Contract!SelectInSeq,
           Judge!Oracle!SelectInSeq, Contract!Min, Judge!Oracle!Min
<1> QED BY <1>1
        DEF Contract!Preimage, Judge!Oracle!Preimage, Contract!Headers,
            Judge!Oracle!Headers, Contract!Anchor, Judge!Oracle!Anchor, Contract!Fits,
            Judge!Oracle!Fits

\* The work of a header
LEMMA ContractWork ==
    ASSUME NEW h, NEW e
    PROVE  /\ Contract!CheckPow(h, e) = Judge!Oracle!CheckPow(h, e)
           /\ Contract!BlockHash(h) = Judge!Oracle!BlockHash(h)
<1>1. Contract!BlockHash(h) = Judge!Oracle!BlockHash(h)
    BY DEF Contract!BlockHash, Judge!Oracle!BlockHash, Contract!Sha256d,
           Judge!Oracle!Sha256d
<1>2. Contract!CheckPow(h, e) = Judge!Oracle!CheckPow(h, e)
    BY DEF Contract!CheckPow, Judge!Oracle!CheckPow, Contract!IsCompactTarget,
           Judge!Oracle!IsCompactTarget, Contract!IsNegative, Judge!Oracle!IsNegative,
           Contract!Word, Judge!Oracle!Word, Contract!Exponent, Judge!Oracle!Exponent,
           Contract!Mantissa, Judge!Oracle!Mantissa, Contract!GreaterThan,
           Judge!Oracle!GreaterThan, Contract!Reverse, Judge!Oracle!Reverse,
           Contract!BlockHash, Judge!Oracle!BlockHash, Contract!Sha256d,
           Judge!Oracle!Sha256d, Contract!TargetFromNbits, Judge!Oracle!TargetFromNbits,
           Contract!Byte, Judge!Oracle!Byte, Contract!Weight, Judge!Oracle!Weight
<1> QED BY <1>1, <1>2

\* The place of a transaction in its block
LEMMA ContractInclusion ==
    ASSUME NEW txid, NEW proof, NEW root
    PROVE  Contract!VerifyInclusion(txid, proof, root)
             = Judge!Oracle!VerifyInclusion(txid, proof, root)
BY DEF Contract!VerifyInclusion, Judge!Oracle!VerifyInclusion, Contract!CloseBranch,
       Judge!Oracle!CloseBranch, Contract!FoldLeft, Judge!Oracle!FoldLeft,
       Contract!MapThenFoldSet, Judge!Oracle!MapThenFoldSet, Contract!Max,
       Judge!Oracle!Max, Contract!OpenBranch, Judge!Oracle!OpenBranch,
       Contract!OpeningError, Judge!Oracle!OpeningError, Contract!TreeDepth,
       Judge!Oracle!TreeDepth, Contract!BranchStep, Judge!Oracle!BranchStep,
       Contract!SiblingError, Judge!Oracle!SiblingError, Contract!IsLastOdd,
       Judge!Oracle!IsLastOdd, Contract!HashPair, Judge!Oracle!HashPair,
       Contract!Sha256d, Judge!Oracle!Sha256d

\* The script an order asks for
LEMMA ContractPays ==
    ASSUME NEW r PROVE Contract!PaysOrder(r) = Judge!Oracle!PaysOrder(r)
<1>1. \A p : Contract!OrderId(p) = Judge!Oracle!OrderId(p)
    BY DEF Contract!OrderId, Judge!Oracle!OrderId, Contract!Keccak256,
           Judge!Oracle!Keccak256
<1>2. \A x, id : Contract!DeriveP2tr(x, Contract!ChildIndices(id))
                    = Judge!Oracle!DeriveP2tr(x, Judge!Oracle!ChildIndices(id))
    BY DEF Contract!DeriveP2tr, Judge!Oracle!DeriveP2tr, Contract!ChildIndices,
           Judge!Oracle!ChildIndices, Contract!Sha256, Judge!Oracle!Sha256
<1>3. ASSUME NEW entries, NEW id
      PROVE  Contract!Resolve(entries, id) = Judge!Oracle!Resolve(entries, id)
    BY DEF Contract!Resolve, Judge!Oracle!Resolve, Contract!SelectInSeq,
           Judge!Oracle!SelectInSeq, Contract!Min, Judge!Oracle!Min
<1>4. \A p, keys : Contract!DeriveScript(p, keys) = Judge!Oracle!DeriveScript(p, keys)
    BY <1>1, <1>2, <1>3 DEF Contract!DeriveScript, Judge!Oracle!DeriveScript
<1>5. \A script : Contract!Commitment(script) = Judge!Oracle!Commitment(script)
    BY DEF Contract!Commitment, Judge!Oracle!Commitment, Contract!Keccak256,
           Judge!Oracle!Keccak256
<1> QED BY <1>1, <1>4, <1>5, ContractFields
        DEF Contract!PaysOrder, Judge!Oracle!PaysOrder

\* Stage by stage, and so in the verdicts it allows.
LEMMA ContractStages ==
    ASSUME NEW r
    PROVE  /\ \A s : Contract!StageDefects(s, r) = Judge!Oracle!StageDefects(s, r)
           /\ Contract!SettlementOf(r) = Judge!Oracle!SettlementOf(r)
<1>0. \A w, reason : Contract!If(w, reason) = Judge!Oracle!If(w, reason)
    BY DEF Contract!If, Judge!Oracle!If
<1>1. Contract!TxDefects(r) = Judge!Oracle!TxDefects(r)
    BY <1>0 DEF Contract!TxDefects, Judge!Oracle!TxDefects, Contract!Txid,
           Judge!Oracle!Txid, Contract!Sha256d, Judge!Oracle!Sha256d,
           Contract!LegacySerialize, Judge!Oracle!LegacySerialize, Contract!If, Judge!Oracle!If
<1>2. Contract!PreimageDefects(r) = Judge!Oracle!PreimageDefects(r)
    BY ContractFields DEF Contract!PreimageDefects, Judge!Oracle!PreimageDefects,
           Contract!If, Judge!Oracle!If
<1>3. Contract!WindowDefects(r) = Judge!Oracle!WindowDefects(r)
    BY ContractFields DEF Contract!WindowDefects, Judge!Oracle!WindowDefects,
           Contract!If, Judge!Oracle!If
<1>4. Contract!AnchorDefects(r) = Judge!Oracle!AnchorDefects(r)
    BY ContractFields DEF Contract!AnchorDefects, Judge!Oracle!AnchorDefects,
           Contract!If, Judge!Oracle!If
<1>5. Contract!ChainDefects(r) = Judge!Oracle!ChainDefects(r)
    <2>1. \A k : Contract!Predecessor(r, k) = Judge!Oracle!Predecessor(r, k)
        BY ContractFields, ContractWork DEF Contract!Predecessor, Judge!Oracle!Predecessor
    <2>2. \A s : Contract!Last(s) = Judge!Oracle!Last(s)
        BY DEF Contract!Last, Judge!Oracle!Last
    <2> QED BY <2>1, <2>2, ContractFields, ContractWork
            DEF Contract!ChainDefects, Judge!Oracle!ChainDefects, Contract!If,
                Judge!Oracle!If
<1>6. Contract!PositionDefects(r) = Judge!Oracle!PositionDefects(r)
    <2>1. /\ Contract!Headers(r) = Judge!Oracle!Headers(r)
          /\ Contract!Anchor(r) = Judge!Oracle!Anchor(r)
          /\ Contract!Preimage(r) = Judge!Oracle!Preimage(r)
        BY ContractFields
    <2> QED BY <2>1, Zenon
            DEF Contract!PositionDefects, Judge!Oracle!PositionDefects, Contract!If,
                Judge!Oracle!If, Contract!BlockHeight, Judge!Oracle!BlockHeight,
                Contract!Confirmations, Judge!Oracle!Confirmations
<1>7. Contract!TipDefects(r) = Judge!Oracle!TipDefects(r)
    BY ContractFields DEF Contract!TipDefects, Judge!Oracle!TipDefects,
           Contract!If, Judge!Oracle!If, Contract!ContainsCheckpoint,
           Judge!Oracle!ContainsCheckpoint
<1>8. Contract!InclusionDefects(r) = Judge!Oracle!InclusionDefects(r)
    BY ContractFields, ContractInclusion
       DEF Contract!InclusionDefects, Judge!Oracle!InclusionDefects, Contract!If,
           Judge!Oracle!If
<1>9. Contract!BindingDefects(r) = Judge!Oracle!BindingDefects(r)
    BY ContractFields, ContractPays
       DEF Contract!BindingDefects, Judge!Oracle!BindingDefects, Contract!If,
           Judge!Oracle!If
<1>10. Contract!SettlementOf(r) = Judge!Oracle!SettlementOf(r)
    BY ContractFields
       DEF Contract!SettlementOf, Judge!Oracle!SettlementOf, Contract!BlockHeight,
           Judge!Oracle!BlockHeight, Contract!Confirmations, Judge!Oracle!Confirmations
<1> QED BY <1>1, <1>2, <1>3, <1>4, <1>5, <1>6, <1>7, <1>8, <1>9, <1>10, Zenon
        DEF Contract!StageDefects, Judge!Oracle!StageDefects

-----------------------------------------------------------------------------
(* The inductive invariant: a document under evaluation is legible, what   *)
(* ClaimVerifierProofs proves of the evaluation holds of it, and a verdict *)
(* or a reply that has been given is one the contract allows.              *)

\* The verdicts the oracle allows on a request
Warranted(outcome, r) ==
    \/ /\ Judge!Oracle!Faultless(r)
       /\ outcome = Judge!Oracle!Settled(Judge!Oracle!SettlementOf(r))
    \/ \E s \in Judge!Oracle!Stages :
            /\ Judge!Oracle!FaultlessBefore(s, r)
            /\ \E reason \in Judge!Oracle!StageDefects(s, r) :
                    outcome = Judge!Oracle!Rejected(reason)

Judged == /\ doc \in Readable
          /\ Judge!IInv
          /\ verdict = Judge!Pending \/ Warranted(verdict, Intended(doc))

Replied == \/ doc \in Illegible /\ \E what : reply = BadRequest(what)
           \/ Judged /\ verdict # Judge!Pending /\ reply = ReplyTo(verdict)

IInv ==
    /\ at \in {"ask", "parse", "convert", "evaluate", "render", "answered"}
    /\ via \in {"POST", "verify"}
    /\ doc \in Documents
    /\ at \in {"ask", "parse", "convert"} => Verifier!Init
    /\ at = "convert" => Json(doc) # NoRequest
    /\ at = "evaluate" => Judged /\ pc # "done"
    /\ at = "render" => Judged /\ verdict # Judge!Pending
    /\ IF at = "answered" THEN Replied ELSE reply = NoReply

\* A step of the evaluation keeps it judged as the oracle allows.
LEMMA EvaluationStep ==
    ASSUME Judged, Judge!Next
    PROVE  Judged' /\ doc' = doc
<1>1. doc \in Readable /\ Judge!IInv /\ [Judge!Next]_(Judge!vars)
    BY DEF Judged
<1>2. Judge!IInv' /\ [Judge!Oracle!OracleNext]_(Judge!Oracle!oracleVars)
    BY <1>1, Judge!NextIInv, Judge!StepRefines, JudgeAssumption, PowAssumption,
       MaxU32Assumption
<1>3. doc' = doc
    BY <1>2 DEF Judge!Oracle!OracleNext, Judge!Oracle!oracleVars
<1>4. verdict' = verdict \/ Warranted(verdict', Intended(doc))
    BY <1>1, <1>2 DEF Judge!Oracle!OracleNext, Judge!Oracle!oracleVars, Judge!Oracle!Settle,
                      Judge!Oracle!Reject, Warranted
<1>5. Intended(doc)' = Intended(doc) /\ (doc \in Readable)'
    BY <1>1, <1>3 DEF Intended, Readable
<1>6. (verdict = Judge!Pending \/ Warranted(verdict, Intended(doc)))'
    BY <1>3, <1>4 DEF Judged, Warranted, Intended, Judge!Pending, Judge!Oracle!Pending
<1> QED BY <1>2, <1>3, <1>5, <1>6 DEF Judged

\* What does not touch the evaluation keeps it so.
LEMMA EvaluationKept ==
    ASSUME Judged, UNCHANGED <<doc, pc, i, prevHash, verdict>>
    PROVE  Judged'
<1>1. Judge!IInv /\ [Judge!Next]_(Judge!vars)
    BY DEF Judged, Judge!vars
<1>2. Judge!IInv'
    BY <1>1, Judge!NextIInv, JudgeAssumption, PowAssumption, MaxU32Assumption
<1>3. (doc \in Readable /\ (verdict = Judge!Pending \/ Warranted(verdict, Intended(doc))))'
    BY DEF Judged, Warranted, Intended, Readable, Judge!Pending, Judge!Oracle!Pending
<1> QED BY <1>2, <1>3 DEF Judged

\* A client starts with a document and no answer.
LEMMA InitIInv == Init => IInv
BY DEF Init, IInv, Verifier!Init

\* Every step keeps the inductive invariant.
LEMMA NextIInv == IInv /\ [Next]_vars => IInv'
<1> SUFFICES ASSUME IInv, [Next]_vars PROVE IInv'
    OBVIOUS
<1>1. CASE FetchSample
    <2>1. /\ at = "ask" /\ doc' = sample
          /\ UNCHANGED <<at, via, reply, pc, i, prevHash, verdict>>
        BY <1>1 DEF FetchSample, evaluation
    <2>2. sample \in Documents
        BY SampleAssumption
    <2>3. Verifier!Init'
        BY <2>1, <2>2 DEF IInv, Verifier!Init, Verifier!Pending, Verifier!Oracle!Pending
    <2> QED BY <2>1, <2>2, <2>3 DEF IInv
<1>2. CASE Submit
    <2>1. /\ at = "ask" /\ at' = "parse"
          /\ UNCHANGED <<via, doc, reply, pc, i, prevHash, verdict>>
        BY <1>2 DEF Submit, evaluation
    <2>2. Verifier!Init'
        BY <2>1 DEF IInv, Verifier!Init, Verifier!Pending, Verifier!Oracle!Pending
    <2> QED BY <2>1, <2>2 DEF IInv
<1>3. CASE Parse
    <2>1. /\ at = "parse" /\ UNCHANGED <<via, doc, pc, i, prevHash, verdict>>
        BY <1>3 DEF Parse, evaluation
    <2>2. CASE Json(doc) = NoRequest
        <3>1. at' = "answered" /\ reply' = BadRequest("JSON")
            BY <1>3, <2>2 DEF Parse
        <3>2. doc \in Illegible
            BY <2>2, DocumentsJudged DEF IInv
        <3>3. Replied'
            BY <2>1, <3>1, <3>2 DEF Replied, BadRequest
        <3> QED BY <2>1, <3>1, <3>3 DEF IInv
    <2>3. CASE Json(doc) # NoRequest
        <3>1. at' = "convert" /\ reply' = reply
            BY <1>3, <2>3 DEF Parse
        <3>2. Verifier!Init'
            BY <2>1 DEF IInv, Verifier!Init, Verifier!Pending, Verifier!Oracle!Pending
        <3>3. (Json(doc) # NoRequest)'
            BY <2>1, <2>3
        <3> QED BY <2>1, <3>1, <3>2, <3>3 DEF IInv
    <2> QED BY <2>2, <2>3
<1>4. CASE Convert
    <2>1. /\ at = "convert" /\ UNCHANGED <<via, doc, pc, i, prevHash, verdict>>
          /\ Json(doc) # NoRequest /\ doc \in Documents
        BY <1>4 DEF Convert, evaluation, IInv
    <2>2. CASE ConversionError(Json(doc)) = "ok"
        <3>1. at' = "evaluate" /\ reply' = reply
            BY <1>4, <2>2 DEF Convert
        <3>2. doc \in Readable
            BY <2>1, <2>2, DocumentsJudged DEF Readable
        <3>3. Judge!Init /\ verdict = Judge!Pending /\ pc # "done"
            <4>1. Judge!Init
                BY <2>1, <3>2, SameStep DEF IInv
            <4> QED BY <4>1 DEF Judge!Init
        <3>4. Judge!IInv
            BY <3>3, Judge!InitIInv, JudgeAssumption, PowAssumption, MaxU32Assumption
        <3>5. Judged
            BY <3>2, <3>3, <3>4 DEF Judged
        <3>6. Judged'
            BY <2>1, <3>5, EvaluationKept
        <3> QED BY <2>1, <3>1, <3>3, <3>6 DEF IInv
    <2>3. CASE ConversionError(Json(doc)) # "ok"
        <3>1. at' = "answered" /\ reply' = BadRequest(ConversionError(Json(doc)))
            BY <1>4, <2>3 DEF Convert
        <3>2. doc \in Illegible
            BY <2>1, <2>3, DocumentsJudged
        <3>3. Replied'
            BY <2>1, <3>1, <3>2 DEF Replied, BadRequest
        <3> QED BY <2>1, <3>1, <3>3 DEF IInv
    <2> QED BY <2>2, <2>3
<1>5. CASE Evaluate
    <2>1. /\ at = "evaluate" /\ pc # "done" /\ Verifier!Next /\ via' = via /\ reply' = reply
          /\ at' = IF pc' = "done" THEN "render" ELSE at
        BY <1>5 DEF Evaluate
    <2>2. Judged /\ doc \in Readable
        BY <2>1 DEF IInv, Judged
    <2>3. Judge!Next
        BY <2>1, <2>2, SameStep
    <2>4. Judged' /\ doc' = doc
        BY <2>2, <2>3, EvaluationStep
    <2>5. pc' = "done" => verdict' # Judge!Pending
        BY <2>1, <2>3, Judge!EndsWithVerdict, JudgeAssumption, PowAssumption,
           MaxU32Assumption
    <2>6. pc' = "done" => (verdict # Judge!Pending)'
        BY <2>5 DEF Judge!Pending, Judge!Oracle!Pending
    <2> QED BY <2>1, <2>4, <2>6 DEF IInv
<1>6. CASE Render
    <2>1. /\ at = "render" /\ at' = "answered" /\ reply' = ReplyTo(verdict)
          /\ UNCHANGED <<via, doc, pc, i, prevHash, verdict>>
        BY <1>6 DEF Render, evaluation
    <2>2. Judged /\ verdict # Judge!Pending
        BY <2>1 DEF IInv
    <2>3. Judged' /\ (verdict # Judge!Pending)' /\ (reply = ReplyTo(verdict))'
        BY <2>1, <2>2, EvaluationKept DEF ReplyTo, Judge!Pending, Judge!Oracle!Pending
    <2>4. Replied'
        BY <2>3 DEF Replied
    <2> QED BY <2>1, <2>4 DEF IInv
<1>7. CASE UNCHANGED vars
    <2>1. UNCHANGED <<at, via, doc, reply, pc, i, prevHash, verdict>>
        BY <1>7 DEF vars, evaluation
    <2>2. /\ Judged => Judged'
          /\ verdict # Judge!Pending => (verdict # Judge!Pending)'
          /\ Verifier!Init => Verifier!Init'
        BY <2>1, EvaluationKept DEF Judge!Pending, Judge!Oracle!Pending, Verifier!Init,
                                    Verifier!Pending, Verifier!Oracle!Pending
    <2>3. Replied => Replied'
        BY <2>1, <2>2 DEF Replied, BadRequest, ReplyTo
    <2> QED BY <2>1, <2>2, <2>3 DEF IInv
<1> QED BY <1>1, <1>2, <1>3, <1>4, <1>5, <1>6, <1>7 DEF Next, Answered

-----------------------------------------------------------------------------
(* Theorems *)

\* Whatever a client brings, in whatever order it asks, what is under evaluation
\* is judged as the oracle judges it, and what it gets is one of the answers the
\* contract allows (handle_http_client and the commands, main.rs).
THEOREM Invariance == Spec => []IInv
BY InitIInv, NextIInv, PTL DEF Spec

\* The codes of an answer.
LEMMA Codes ==
    ASSUME via \in {"POST", "verify"}
    PROVE  /\ \A what : BadRequest(what).code \in IF via = "POST" THEN {"400"} ELSE {"exit 1"}
           /\ \A outcome : ReplyTo(outcome).code
                 \in IF via = "POST" THEN {"200", "422"} ELSE {"exit 0", "exit 1"}
           /\ NoReply.code = "none"
BY DEF BadRequest, ReplyTo, NoReply

\* An answer has one of three codes over HTTP and one of two on the command line,
\* and there is none before the request is judged (main.rs).
THEOREM TypeCorrect == Spec => []TypeOK
<1>1. ASSUME IInv PROVE TypeOK
    <2>1. CASE at = "answered"
        <3>1. reply.code \in IF via = "POST" THEN {"200", "400", "422"}
                             ELSE {"exit 0", "exit 1"}
            BY <1>1, <2>1, Codes DEF IInv, Replied
        <3> QED BY <1>1, <2>1, <3>1 DEF IInv, TypeOK
    <2>2. CASE at # "answered"
        <3>1. reply.code = "none"
            BY <1>1, <2>2, Codes DEF IInv
        <3> QED BY <1>1, <2>2, <3>1 DEF IInv, TypeOK
    <2> QED BY <2>1, <2>2
<1> QED BY <1>1, Invariance, PTL

\* What evaluate_claim_bundle is called with is the request the document was
\* written for, for any document (try_into_runtime, main.rs:385-402, 528-648).
THEOREM JudgedIsWritten == Spec => []JudgedAsWritten
<1>1. IInv => JudgedAsWritten
    BY SameRequest DEF IInv, Judged, JudgedAsWritten
<1> QED BY <1>1, Invariance, PTL

\* SettlementJson::from_runtime loses nothing of the settlement.
LEMMA SettlementRead ==
    ASSUME NEW r
    PROVE  LET s == Judge!Oracle!SettlementOf(r) IN
           Decode(Encode(s, SettlementSizes), SettlementSizes) = s
<1>1. ASSUME NEW s, s = [f \in DOMAIN s |-> s[f]]
      PROVE  Decode(Encode(s, SettlementSizes), SettlementSizes) = s
    BY <1>1 DEF Decode, Encode, Hex
<1> DEFINE s == Judge!Oracle!SettlementOf(r)
<1>2. s = [f \in DOMAIN s |-> s[f]]
    BY DEF Judge!Oracle!SettlementOf
<1> QED BY <1>1, <1>2

\* What a client takes each answer for.
LEMMA AnswersUnderstood ==
    ASSUME via \in {"POST", "verify"}
    PROVE  /\ Understood(NoReply) = Contract!Pending
           /\ \A what : Understood(BadRequest(what)) = Contract!Refused
           /\ \A reason : reason # "BadRequest" =>
                    Understood(ReplyTo(Judge!Oracle!Rejected(reason)))
                        = Contract!Rejected(reason)
           /\ \A r : Understood(ReplyTo(Judge!Oracle!Settled(Judge!Oracle!SettlementOf(r))))
                        = Contract!Settled(Judge!Oracle!SettlementOf(r))
<1>1. Understood(NoReply) = Contract!Pending
    BY DEF Understood, NoReply, Contract!Pending, Verifier!Pending, Verifier!Oracle!Pending
<1>2. ASSUME NEW what
      PROVE  Understood(BadRequest(what)) = Contract!Refused
    BY DEF Understood, BadRequest, Contract!Refused
<1>3. ASSUME NEW reason, reason # "BadRequest"
      PROVE  Understood(ReplyTo(Judge!Oracle!Rejected(reason))) = Contract!Rejected(reason)
    BY <1>3 DEF Understood, ReplyTo, Judge!Oracle!Rejected, Contract!Rejected
<1>4. ASSUME NEW r
      PROVE  Understood(ReplyTo(Judge!Oracle!Settled(Judge!Oracle!SettlementOf(r))))
                = Contract!Settled(Judge!Oracle!SettlementOf(r))
    <2> DEFINE s == Judge!Oracle!SettlementOf(r)
               t == Encode(s, SettlementSizes)
               answer == ReplyTo(Judge!Oracle!Settled(s))
    <2>1. Decode(t, SettlementSizes) = s
        BY SettlementRead
    <2> HIDE DEF s
    <2>2. answer.code \in {"200", "exit 0"} /\ answer.settlement = t
        BY DEF ReplyTo, Judge!Oracle!Settled
    <2> HIDE DEF t, answer
    <2> QED BY <2>1, <2>2 DEF Understood, Contract!Settled, s, answer
<1> QED BY <1>1, <1>2, <1>3, <1>4

\* Every step of the service is a step of the contract, or nothing a client sees.
LEMMA StepHonours ==
    IInv /\ [Next]_vars => [Contract!Ask \/ Contract!Answer]_(Contract!oracleVars)
<1> SUFFICES ASSUME IInv, [Next]_vars
             PROVE  [Contract!Ask \/ Contract!Answer]_(Contract!oracleVars)
    OBVIOUS
<1> DEFINE Pause == doc' = doc /\ Told' = Told
<1>pause. Pause => [Contract!Ask \/ Contract!Answer]_(Contract!oracleVars)
    BY DEF Contract!oracleVars
<1>via. via \in {"POST", "verify"} /\ doc \in Documents
    BY DEF IInv
<1>told. at # "answered" => Told = Contract!Pending
    BY <1>via, AnswersUnderstood DEF IInv, Told
<1>1. CASE FetchSample
    <2>1. /\ at = "ask" /\ doc' = sample /\ reply' = reply /\ sample \in Documents
        BY <1>1, SampleAssumption DEF FetchSample
    <2>2. Told' = Told /\ Told = Contract!Pending
        BY <1>told, <2>1 DEF Told, Understood
    <2> QED BY <2>1, <2>2 DEF Contract!Ask
<1>2. CASE Submit
    <2>1. doc' = doc /\ reply' = reply
        BY <1>2 DEF Submit
    <2> QED BY <1>pause, <2>1 DEF Told, Understood
<1>3. CASE Parse
    <2>1. at = "parse" /\ doc' = doc
        BY <1>3 DEF Parse
    <2>2. CASE Json(doc) = NoRequest
        <3>1. doc \in Illegible /\ reply' = BadRequest("JSON")
            BY <1>3, <1>via, <2>2, DocumentsJudged DEF Parse
        <3>2. Told' = Contract!Refused
            BY <1>via, <3>1, AnswersUnderstood DEF Told
        <3> QED BY <1>told, <2>1, <3>1, <3>2 DEF Contract!Answer
    <2>3. CASE Json(doc) # NoRequest
        <3>1. reply' = reply
            BY <1>3, <2>3 DEF Parse
        <3> QED BY <1>pause, <2>1, <3>1 DEF Told, Understood
    <2> QED BY <2>2, <2>3
<1>4. CASE Convert
    <2>1. at = "convert" /\ doc' = doc
        BY <1>4 DEF Convert
    <2>2. CASE ConversionError(Json(doc)) = "ok"
        <3>1. reply' = reply
            BY <1>4, <2>2 DEF Convert
        <3> QED BY <1>pause, <2>1, <3>1 DEF Told, Understood
    <2>3. CASE ConversionError(Json(doc)) # "ok"
        <3>1. doc \in Illegible /\ reply' = BadRequest(ConversionError(Json(doc)))
            BY <1>4, <1>via, <2>3, DocumentsJudged DEF Convert
        <3>2. Told' = Contract!Refused
            BY <1>via, <3>1, AnswersUnderstood DEF Told
        <3> QED BY <1>told, <2>1, <3>1, <3>2 DEF Contract!Answer
    <2> QED BY <2>2, <2>3
<1>5. CASE Evaluate
    <2>1. Judged /\ Verifier!Next /\ reply' = reply
        BY <1>5 DEF Evaluate, IInv
    <2>2. doc' = doc
        BY <2>1, SameStep, EvaluationStep DEF Judged
    <2> QED BY <1>pause, <2>1, <2>2 DEF Told, Understood
<1>6. CASE Render
    <2> DEFINE r == Intended(doc)
    <2>1. /\ at = "render" /\ doc' = doc /\ Told' = Understood(ReplyTo(verdict))
          /\ Judged /\ verdict # Judge!Pending
        BY <1>6 DEF Render, IInv, Told
    <2>2. Told = Contract!Pending /\ doc \notin Illegible
        BY <1>told, <2>1 DEF Judged, Readable
    <2>3. Warranted(verdict, r) /\ Judge!TypeOK
        BY <2>1 DEF Judged, Judge!IInv
    <2>4. [name \in Documents |-> Intended(name)][doc] = r
        BY <1>via
    <2> HIDE DEF r
    <2>5. CASE /\ Judge!Oracle!Faultless(r)
               /\ verdict = Judge!Oracle!Settled(Judge!Oracle!SettlementOf(r))
        <3>1. Told' = Contract!Settled(Contract!SettlementOf(r))
            BY <1>via, <2>1, <2>5, AnswersUnderstood, ContractStages
        <3>2. Contract!Faultless(r)
            BY <2>5, ContractStages
               DEF Contract!Faultless, Judge!Oracle!Faultless, Contract!FaultlessBefore,
                   Judge!Oracle!FaultlessBefore
        <3>3. Contract!Settle
            BY <2>4, <3>1, <3>2 DEF Contract!Settle
        <3> QED BY <2>1, <2>2, <3>3 DEF Contract!Answer
    <2>6. CASE \E s \in Judge!Oracle!Stages :
                    /\ Judge!Oracle!FaultlessBefore(s, r)
                    /\ \E reason \in Judge!Oracle!StageDefects(s, r) :
                            verdict = Judge!Oracle!Rejected(reason)
        <3>1. PICK s \in Judge!Oracle!Stages :
                    /\ Judge!Oracle!FaultlessBefore(s, r)
                    /\ \E reason \in Judge!Oracle!StageDefects(s, r) :
                            verdict = Judge!Oracle!Rejected(reason)
            BY <2>6
        <3>2. PICK reason \in Judge!Oracle!StageDefects(s, r) :
                    verdict = Judge!Oracle!Rejected(reason)
            BY <3>1
        <3>3. reason # "BadRequest"
            BY <2>3, <3>2
               DEF Judge!TypeOK, Judge!Pending, Judge!Oracle!Pending,
                   Judge!Oracle!Rejected, Judge!Oracle!Settled, Judge!ChallengeReason
        <3>4. Told' = Contract!Rejected(reason)
            BY <1>via, <2>1, <3>2, <3>3, AnswersUnderstood
        <3>5. /\ s \in Contract!Stages /\ Contract!FaultlessBefore(s, r)
              /\ reason \in Contract!StageDefects(s, r)
            BY <3>1, <3>2, ContractStages
               DEF Contract!Stages, Judge!Oracle!Stages, Contract!FaultlessBefore,
                   Judge!Oracle!FaultlessBefore
        <3>6. Contract!Reject
            BY <2>4, <3>4, <3>5 DEF Contract!Reject
        <3> QED BY <2>1, <2>2, <3>6 DEF Contract!Answer
    <2> QED BY <2>3, <2>5, <2>6 DEF Warranted
<1>7. CASE UNCHANGED vars
    <2>1. doc' = doc /\ reply' = reply
        BY <1>7 DEF vars
    <2> QED BY <1>pause, <2>1 DEF Told, Understood
<1> QED BY <1>1, <1>2, <1>3, <1>4, <1>5, <1>6, <1>7 DEF Next, Answered

\* The service refuses exactly the documents that are no request and answers every
\* other with a verdict the oracle allows on what was written in it, for any
\* documents and any spelling of them (main.rs; docs/ and README.md on the API).
THEOREM Refinement == Spec => HonoursContract
<1>1. Init => Contract!OracleInit
    <2>1. ASSUME Init PROVE Told = Contract!Pending /\ doc \in Documents
        BY <2>1, AnswersUnderstood DEF Init, Told, Verifier!Init
    <2> QED BY <2>1 DEF Contract!OracleInit
<1>2. Spec => []IInv
    BY Invariance
<1> QED BY <1>1, <1>2, StepHonours, PTL DEF Spec, HonoursContract, Contract!ContractSpec

-----------------------------------------------------------------------------
(* The sample has none of the defects. *)

\* The contract hashes, resolves and derives as the sample was built.
LEMMA ContractIsPlain ==
    /\ \A entries, id : Contract!Resolve(entries, id) = Resolve(entries, id)
    /\ \A h : Contract!BlockHash(h) = BlockHash(h)
    /\ \A h, e : Contract!CheckPow(h, e) = CheckPow(h, e)
    /\ \A p : Contract!OrderId(p) = OrderId(p)
    /\ \A p, keys : Contract!DeriveScript(p, keys) = DeriveScript(p, keys)
    /\ \A script : Contract!Commitment(script) = Commitment(script)
    /\ \A txid, proof, root : Contract!VerifyInclusion(txid, proof, root)
                                 = VerifyInclusion(txid, proof, root)
<1>1. ASSUME NEW entries, NEW id
      PROVE  Contract!Resolve(entries, id) = Resolve(entries, id)
    BY DEF Contract!Resolve, Resolve, Contract!SelectInSeq, SelectInSeq, Contract!Min, Min
<1>2. \A h : Contract!BlockHash(h) = BlockHash(h)
    BY DEF Contract!BlockHash, BlockHash, Contract!Sha256d, Sha256d
<1>3. ASSUME NEW h, NEW e
      PROVE  Contract!CheckPow(h, e) = CheckPow(h, e)
    BY DEF Contract!CheckPow, CheckPow, Contract!IsCompactTarget, IsCompactTarget,
           Contract!IsNegative, IsNegative, Contract!Word, Word, Contract!Exponent, Exponent,
           Contract!Mantissa, Mantissa, Contract!GreaterThan, GreaterThan,
           Contract!Reverse, Reverse, Contract!BlockHash, BlockHash, Contract!Sha256d,
           Sha256d, Contract!TargetFromNbits, TargetFromNbits, Contract!Byte, Byte,
           Contract!Weight, Weight
<1>4. \A p : Contract!OrderId(p) = OrderId(p)
    BY DEF Contract!OrderId, OrderId, Contract!Keccak256, Keccak256
<1>5. \A x, id : Contract!DeriveP2tr(x, Contract!ChildIndices(id))
                    = DeriveP2tr(x, ChildIndices(id))
    BY DEF Contract!DeriveP2tr, DeriveP2tr, Contract!ChildIndices, ChildIndices,
           Contract!Sha256, Sha256
<1>6. \A p, keys : Contract!DeriveScript(p, keys) = DeriveScript(p, keys)
    BY <1>1, <1>4, <1>5 DEF Contract!DeriveScript, DeriveScript
<1>7. \A script : Contract!Commitment(script) = Commitment(script)
    BY DEF Contract!Commitment, Commitment, Contract!Keccak256, Keccak256
<1>8. ASSUME NEW txid, NEW proof, NEW root
      PROVE  Contract!VerifyInclusion(txid, proof, root) = VerifyInclusion(txid, proof, root)
    BY DEF Contract!VerifyInclusion, VerifyInclusion, Contract!CloseBranch, CloseBranch,
           Contract!FoldLeft, FoldLeft, Contract!MapThenFoldSet, MapThenFoldSet,
           Contract!Max, Max, Contract!OpenBranch, OpenBranch, Contract!OpeningError,
           OpeningError, Contract!TreeDepth, TreeDepth, Contract!BranchStep, BranchStep,
           Contract!SiblingError, SiblingError, Contract!IsLastOdd, IsLastOdd,
           Contract!HashPair, HashPair, Contract!Sha256d, Sha256d
<1> QED BY <1>1, <1>2, <1>3, <1>4, <1>6, <1>7, <1>8

\* tree_depth (merkle.rs:10-19) is defined for every transaction count.
LEMMA TreeDepthExists ==
    \E f : f = [n \in Nat |-> IF n <= 1 THEN 0 ELSE 1 + f[(n + 1) \div 2]]
<1> DEFINE Depth(g, n)  == IF n <= 1 THEN 0 ELSE 1 + g[(n + 1) \div 2]
           UpTo(g, n)   == g = [m \in Nat |-> g[m]] /\ \A m \in 0..n : g[m] = Depth(g, m)
           part(n)      == CHOOSE g : UpTo(g, n)
           whole        == [n \in Nat |-> part(n)[n]]
<1>1. \A n \in Nat : n > 1 => (n + 1) \div 2 \in Nat /\ (n + 1) \div 2 < n
    OBVIOUS
<1>2. \A n \in Nat : \E g : UpTo(g, n)
    <2> DEFINE T == {n \in Nat : ~\E g : UpTo(g, n)}
    <2> SUFFICES ASSUME T # {} PROVE FALSE
        OBVIOUS
    <2>1. T \subseteq Nat
        OBVIOUS
    <2>2. PICK n \in T : \A m \in Nat : m < n => m \notin T
        BY <2>1, FirstFailure
    <2>3. n \in Nat /\ ~\E g : UpTo(g, n)
        OBVIOUS
    <2>4. CASE n = 0
        <3> DEFINE g == [m \in Nat |-> 0]
        <3>1. UpTo(g, n)
            BY <2>4
        <3> QED BY <3>1, <2>3
    <2>5. CASE n # 0
        <3>1. n - 1 \in Nat /\ n - 1 < n
            BY <2>3, <2>5
        <3>2. PICK h : UpTo(h, n - 1)
            BY <3>1, <2>2
        <3> DEFINE g == [m \in Nat |-> IF m = n THEN Depth(h, n) ELSE h[m]]
        <3>3. g = [m \in Nat |-> g[m]]
            OBVIOUS
        <3>4. ASSUME NEW m \in 0..n PROVE g[m] = Depth(g, m)
            <4>1. m \in Nat /\ m <= n
                BY <2>3
            <4>2. Depth(g, m) = Depth(h, m)
                <5>1. CASE m <= 1
                    BY <5>1
                <5>2. CASE m > 1
                    <6>1. (m + 1) \div 2 \in Nat /\ (m + 1) \div 2 # n
                        BY <5>2, <4>1, <1>1, <2>3
                    <6>2. g[(m + 1) \div 2] = h[(m + 1) \div 2]
                        BY <6>1
                    <6> QED BY <6>2
                <5> QED BY <5>1, <5>2, <4>1
            <4>3. CASE m = n
                BY <4>1, <4>2, <4>3
            <4>4. CASE m # n
                <5>1. m \in 0..(n - 1)
                    BY <4>1, <4>4, <2>3
                <5> QED BY <5>1, <4>1, <4>2, <4>4, <3>2
            <4> QED BY <4>3, <4>4
        <3>5. UpTo(g, n)
            BY <3>3, <3>4
        <3> QED BY <3>5, <2>3
    <2> QED BY <2>4, <2>5
<1>3. ASSUME NEW n \in Nat, NEW m \in Nat, NEW g, NEW h, UpTo(g, n), UpTo(h, m)
      PROVE  \A k \in Nat : k <= n /\ k <= m => g[k] = h[k]
    <2> DEFINE T == {k \in Nat : k <= n /\ k <= m /\ g[k] # h[k]}
    <2> SUFFICES ASSUME T # {} PROVE FALSE
        OBVIOUS
    <2>1. T \subseteq Nat
        OBVIOUS
    <2>2. PICK k \in T : \A j \in Nat : j < k => j \notin T
        BY <2>1, FirstFailure
    <2>3. k \in Nat /\ k <= n /\ k <= m /\ g[k] # h[k]
        OBVIOUS
    <2>4. g[k] = Depth(g, k) /\ h[k] = Depth(h, k)
        <3>1. k \in 0..n /\ k \in 0..m
            BY <2>3
        <3> QED BY <3>1, <1>3
    <2>5. k > 1 /\ g[(k + 1) \div 2] # h[(k + 1) \div 2]
        BY <2>3, <2>4
    <2> DEFINE j == (k + 1) \div 2
    <2>6. j \in Nat /\ j < k
        BY <2>3, <2>5, <1>1
    <2> HIDE DEF j
    <2>7. j <= n /\ j <= m
        BY <2>3, <2>6
    <2>8. j \in T
        BY <2>5, <2>6, <2>7 DEF j
    <2> QED BY <2>2, <2>6, <2>8
<1>4. \A n \in Nat : UpTo(part(n), n)
    BY <1>2
<1> HIDE DEF part
<1>5. ASSUME NEW n \in Nat PROVE whole[n] = Depth(whole, n)
    <2>1. part(n)[n] = Depth(part(n), n)
        BY <1>4
    <2>2. CASE n <= 1
        BY <2>1, <2>2
    <2>3. CASE n > 1
        <3> DEFINE k == (n + 1) \div 2
        <3>1. k \in Nat /\ k < n
            BY <2>3, <1>1
        <3> HIDE DEF k
        <3>2. UpTo(part(n), n) /\ UpTo(part(k), k) /\ k <= n /\ k <= k
            BY <3>1, <1>4
        <3> HIDE DEF UpTo
        <3>3. part(n)[k] = part(k)[k]
            BY <3>1, <3>2, <1>3
        <3> QED BY <3>1, <3>3, <2>1, <2>3 DEF k
    <2> QED BY <2>2, <2>3
<1>6. whole = [n \in Nat |-> Depth(whole, n)]
    BY <1>5
<1> QED BY <1>6

\* A tree of one node has no level above it.
LEMMA SingleDepth == TreeDepth[1] = 0
<1>1. TreeDepth = [m \in Nat |-> IF m <= 1 THEN 0 ELSE 1 + TreeDepth[(m + 1) \div 2]]
    BY TreeDepthExists DEF TreeDepth
<1> QED BY <1>1

\* A branch without siblings leaves the loop of compute_merkle_root_from_branch
\* as it entered it.
LEMMA NoSiblings ==
    ASSUME NEW b
    PROVE  FoldLeft(BranchStep, b, <<>>) = b
<1> DEFINE Empty(g) == g = [s \in SUBSET {} |->
                                IF s = {} THEN b ELSE BranchStep(g[s \ {Max(s)}], <<>>[Max(s)])]
           fold == CHOOSE g : Empty(g)
<1>1. Empty([s \in SUBSET {} |-> b])
    <2>1. \A s \in SUBSET {} : s = {}
        OBVIOUS
    <2> QED BY <2>1
<1>2. Empty(fold)
    BY <1>1
<1>3. DOMAIN <<>> = {}
    OBVIOUS
<1>4. FoldLeft(BranchStep, b, <<>>) = fold[{}]
    BY <1>3 DEF FoldLeft, MapThenFoldSet
<1> HIDE DEF fold
<1> QED BY <1>2, <1>4

\* A block of one transaction needs no siblings: its txid is the root.
LEMMA SingleTransaction ==
    ASSUME NEW txid
    PROVE  VerifyInclusion(txid, [tx_index |-> 0, siblings |-> <<>>,
                                  total_transactions |-> 1], txid) = "ok"
<1> DEFINE open == OpenBranch(txid, 0, 0, 1)
<1>1. open.h = txid /\ open.error = "ok"
    BY SingleDepth DEF OpenBranch, OpeningError
<1>2. FoldLeft(BranchStep, open, <<>>) = open
    BY NoSiblings
<1> QED BY <1>1, <1>2 DEF VerifyInclusion, CloseBranch

\* A registry resolves an id to its first entry, if that one has the id
\* (bundle.rs).
LEMMA ResolvesFirst ==
    ASSUME NEW entries, NEW id, Len(entries) \in Nat, Len(entries) >= 1, entries[1].id = id
    PROVE  Resolve(entries, id) = entries[1].value
<1> DEFINE I == {k \in 1..Len(entries) : entries[k].id = id}
<1>1. 1 \in I /\ \A k \in I : k \in Nat /\ 1 <= k
    OBVIOUS
<1> HIDE DEF I
<1>2. Min(I) = 1
    BY <1>1 DEF Min
<1> QED BY <1>1, <1>2 DEF Resolve, SelectInSeq, I

\* The bundle and the order of the sample (main.rs:404-507)
LEMMA SampleFields ==
    /\ Sample.bundle = SampleBundle /\ Sample.keys = SampleKeys /\ Sample.now_l2 = 15
    /\ Sample.checkpoints = <<[id |-> "01", value |-> SampleCheckpoint],
                              [id |-> "02", value |-> SampleTip]>>
    /\ Contract!Preimage(Sample) = SamplePreimage
    /\ Contract!Headers(Sample) = <<SampleHeader>>
BY DEF Sample, SampleBundle, Contract!Preimage, Contract!Headers

\* Its checkpoint is the first of its registry, and its tip the second.
LEMMA SampleAnchored ==
    /\ Contract!Anchor(Sample) = SampleCheckpoint
    /\ Contract!ContainsCheckpoint(Sample.checkpoints, "regtest", SampleTip.height,
                                   SampleTip.hash)
<1> DEFINE entries == Sample.checkpoints
<1>1. /\ entries[1] = [id |-> "01", value |-> SampleCheckpoint]
      /\ entries[2] = [id |-> "02", value |-> SampleTip]
      /\ Len(entries) = 2 /\ DOMAIN entries = 1..2
    BY SampleFields
<1> HIDE DEF entries
<1>2. Resolve(entries, "01") = SampleCheckpoint
    BY <1>1, ResolvesFirst
<1>3. Contract!Anchor(Sample) = SampleCheckpoint
    <2>1. Sample.bundle.checkpoint_id = "01"
        BY SampleFields DEF SampleBundle
    <2> QED BY <1>2, <2>1, ContractIsPlain DEF Contract!Anchor, entries
<1>4. \E k \in DOMAIN entries : /\ entries[k].value.network = "regtest"
                                /\ entries[k].value.height = SampleTip.height
                                /\ entries[k].value.hash = SampleTip.hash
    BY <1>1, SampleRecords
<1> QED BY <1>3, <1>4 DEF Contract!ContainsCheckpoint, entries

\* Its order has a script, its key being a curve point.
LEMMA SampleScript == DeriveScript(SamplePreimage, SampleKeys) # Absent
<1> DEFINE keys == SampleKeys  id == SamplePreimage.solver_btc_key_id
<1>1. keys[1].id = id /\ Len(keys) = 1
    BY DEF SampleKeys
<1>2. keys[1].value \notin InvalidXpubs /\ keys[1].value # Absent
    BY SampleAssumption
<1>3. Resolve(keys, id) = keys[1].value
    <2> HIDE DEF keys, id
    <2> QED BY <1>1, ResolvesFirst
<1> HIDE DEF keys, id
<1>4. DeriveScript(SamplePreimage, SampleKeys)
        = [xpub |-> keys[1].value, path |-> ChildIndices(OrderId(SamplePreimage))]
    BY <1>2, <1>3 DEF DeriveScript, DeriveP2tr, keys, id
<1> QED BY <1>4, SampleAssumption DEF keys

\* Nothing is wrong with it.
LEMMA SampleFaultless == Contract!Faultless(Sample)
<1> DEFINE r == Sample  b == SampleBundle  p == SamplePreimage
<1>0. /\ r.bundle = b /\ r.keys = SampleKeys /\ r.now_l2 = 15
      /\ Contract!Preimage(r) = p /\ Contract!Headers(r) = <<SampleHeader>>
      /\ Contract!Anchor(r) = SampleCheckpoint
    BY SampleFields, SampleAnchored
<1>1. Contract!TxDefects(r) = {}
    <2>1. b.raw_tx = SampleTx /\ b.txid_internal = SampleTxid /\ SampleTx # Malformed
        BY SampleAssumption DEF SampleBundle
    <2>2. Contract!Txid(SampleTx) = SampleTxid
        BY DEF Contract!Txid, Contract!Sha256d, Contract!LegacySerialize, SampleTxid, Sha256d
    <2> QED BY <1>0, <2>1, <2>2 DEF Contract!TxDefects, Contract!If
<1>2. Contract!PreimageDefects(r) = {} /\ Contract!WindowDefects(r) = {}
    <2>1. /\ p.quote_expires_at_l2 = 10 /\ p.claim_deadline_l2 = 20
          /\ p.reclaim_after_l2 = 30 /\ p.destination_amount = 123456
          /\ p.max_destination_amount_cap = 123456
        BY DEF SamplePreimage
    <2> QED BY <1>0, <2>1
            DEF Contract!PreimageDefects, Contract!WindowDefects, Contract!If
<1>3. Contract!AnchorDefects(r) = {}
    <2>1. /\ p.btc_network = "regtest" /\ b.checkpoint_height = 100
          /\ b.checkpoint_hash = SampleCheckpoint.hash
        BY SampleRecords DEF SamplePreimage, SampleBundle
    <2> QED BY <1>0, <2>1, SampleRecords, SampleAssumption
            DEF Contract!AnchorDefects, Contract!If
<1>4. Contract!ChainDefects(r) = {}
    <2> DEFINE hs == <<SampleHeader>>
    <2>1. DOMAIN hs = {1} /\ hs[1] = SampleHeader /\ Len(hs) = 1 /\ hs # <<>>
        OBVIOUS
    <2>2. Contract!CheckPow(SampleHeader, SampleCheckpoint.nbits) = "ok"
        BY SampleMined, ContractIsPlain
    <2>3. SampleHeader.prev_block = SampleCheckpoint.hash
        BY DEF SampleHeader
    <2>4. /\ b.claimed_tip_height = 101
          /\ b.claimed_tip_hash = Contract!BlockHash(SampleHeader)
        BY SampleRecords, ContractIsPlain DEF SampleBundle
    <2>5. SampleCheckpoint.height + 1 = 101 /\ Contract!Fits(101)
        BY SampleRecords, SampleAssumption, MaxU32Assumption DEF Contract!Fits
    <2> HIDE DEF hs
    <2>6. Contract!Headers(r) = hs /\ Contract!Last(hs) = SampleHeader
        BY <1>0, <2>1 DEF hs, Contract!Last
    <2> QED BY <1>0, <2>1, <2>2, <2>3, <2>4, <2>5, <2>6
            DEF Contract!ChainDefects, Contract!If, Contract!Predecessor
<1>5. Contract!PositionDefects(r) = {}
    <2>1. /\ b.tx_block_index = 0 /\ p.max_btc_inclusion_height = 1000
          /\ p.min_confirmations = 1 /\ Len(<<SampleHeader>>) = 1
        BY DEF SampleBundle, SamplePreimage
    <2> QED BY <1>0, <2>1, SampleRecords
            DEF Contract!PositionDefects, Contract!If, Contract!BlockHeight,
                Contract!Confirmations
<1>6. Contract!TipDefects(r) = {}
    <2>1. /\ b.claimed_tip_height = SampleTip.height /\ b.claimed_tip_hash = SampleTip.hash
          /\ p.btc_network = "regtest"
        BY DEF SampleBundle, SamplePreimage
    <2> QED BY <1>0, <2>1, SampleAnchored DEF Contract!TipDefects, Contract!If
<1>7. Contract!InclusionDefects(r) = {}
    <2>1. /\ b.txid_internal = SampleTxid /\ b.tx_block_index = 0
          /\ b.merkle_proof = [tx_index |-> 0, siblings |-> <<>>, total_transactions |-> 1]
          /\ SampleHeader.merkle_root = SampleTxid
        BY DEF SampleBundle, SampleHeader
    <2>2. Contract!VerifyInclusion(b.txid_internal, b.merkle_proof, SampleTxid) = "ok"
        BY <2>1, SingleTransaction, ContractIsPlain
    <2>3. <<SampleHeader>>[b.tx_block_index + 1] = SampleHeader
        BY <2>1
    <2> QED BY <1>0, <2>1, <2>2, <2>3 DEF Contract!InclusionDefects, Contract!If
<1>8. Contract!BindingDefects(r) = {}
    <2> DEFINE script == DeriveScript(SamplePreimage, SampleKeys)
               out    == [value_sat |-> 75000, script_pubkey |-> script]
    <2>1. /\ b.raw_tx.outputs = <<out>> /\ b.vout = 0 /\ p.amount_sat = 50000
          /\ b.order.order_id = OrderId(p)
          /\ b.order.btc_script_pubkey_commitment = Commitment(script)
        BY DEF SampleBundle, SampleTx, SamplePreimage
    <2>2. script # Absent
        BY SampleScript
    <2> HIDE DEF script
    <2>3. /\ <<out>>[b.vout + 1] = out /\ b.vout < Len(<<out>>)
          /\ out.script_pubkey = script /\ out.value_sat = 75000
        BY <2>1
    <2>4. Contract!DeriveScript(p, SampleKeys) = script
        BY ContractIsPlain DEF script
    <2> HIDE DEF out
    <2>5. Contract!PaysOrder(r)
        BY <1>0, <2>1, <2>2, <2>3, <2>4, ContractIsPlain DEF Contract!PaysOrder
    <2> QED BY <1>0, <2>1, <2>3, <2>5 DEF Contract!BindingDefects, Contract!If
<1> QED BY <1>1, <1>2, <1>3, <1>4, <1>5, <1>6, <1>7, <1>8
        DEF Contract!Faultless, Contract!FaultlessBefore, Contract!StageDefects

\* The sample that GET /api/sample and `template` hand out is settled, whichever
\* way it is posted back, provided that its header was mined and its key is a
\* curve point (README.md:56, main.rs:404-507).
THEOREM SampleIsSettled == Spec => []SampleSettles
<1>1. ASSUME IInv, at = "answered", doc = sample PROVE reply.code \in {"200", "exit 0"}
    <2>1. doc \notin Illegible /\ Intended(doc) = Sample
        BY <1>1, SampleAssumption DEF Intended
    <2>2. Judged /\ verdict # Judge!Pending /\ reply = ReplyTo(verdict)
        BY <1>1, <2>1 DEF IInv, Replied
    <2>3. \A s \in Judge!Oracle!Stages : Judge!Oracle!StageDefects(s, Sample) = {}
        BY SampleFaultless, ContractStages
           DEF Contract!Faultless, Contract!FaultlessBefore, Judge!Oracle!Stages
    <2>4. verdict = Judge!Oracle!Settled(Judge!Oracle!SettlementOf(Sample))
        BY <2>1, <2>2, <2>3 DEF Judged, Warranted
    <2> QED BY <1>1, <2>2, <2>4 DEF ReplyTo, Judge!Oracle!Settled, IInv
<1>2. IInv => SampleSettles
    BY <1>1 DEF SampleSettles
<1> QED BY <1>2, Invariance, PTL
=============================================================================
