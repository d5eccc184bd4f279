-------------------------------- MODULE Pow --------------------------------
(***************************************************************************)
(* src/pow.rs: compact targets and the proof-of-work check.                *)
(*                                                                         *)
(* The code works on bytes (base 256), targets of 32 bytes and a compact   *)
(* word of three bytes whose top bit is the sign.  Base and TargetLen      *)
(* scale both down; everything else (sign bit, floor division of short     *)
(* mantissas, the position of the mantissa, byte order) is as in the code. *)
(* A header is a record whose `nonce` also stands for version and time:    *)
(* they only feed the hash.                                                *)
(***************************************************************************)
EXTENDS Primitives, Digits, SequencesExt

CONSTANTS
    TargetLen,      \* 32 in the code
    HashBytes(_)    \* the bytes of a block hash, in internal (little-endian) order

ASSUME PowAssumption ==
    /\ Base \in Nat /\ Base >= 2 /\ Base % 2 = 0
    /\ TargetLen \in Nat /\ TargetLen >= 3

BlockHash(header) == Sha256d(header)

-----------------------------------------------------------------------------
(* target_from_nbits *)

Exponent(nbits)   == nbits \div Weight[3]
Word(nbits)       == nbits % Weight[3]
IsNegative(nbits) == 2 * Word(nbits) >= Weight[3]
Mantissa(nbits)   == IF IsNegative(nbits) THEN Word(nbits) - (Weight[3] \div 2)
                                          ELSE Word(nbits)

\* Deviation: the sign bit taken for mantissa.
IsCompactTargetUnsigned(nbits) == Mantissa(nbits) # 0 /\ Exponent(nbits) <= TargetLen

\* The second overflow test of the code (pos + 3 > 32) is unreachable: it is
\* only evaluated for exponents above 3.
IsCompactTarget(nbits) ==
    /\ ~IsNegative(nbits)
    /\ Mantissa(nbits) # 0
    /\ Exponent(nbits) <= TargetLen

\* Deviation: the byte cast forgotten.
ByteUncast(n, k) == n \div Weight[k]

Byte(n, k) == (n \div Weight[k]) % Base

\* Big-endian bytes.  An exponent below 3 shifts low mantissa bytes out, which
\* may leave the target zero: the code accepts that.
TargetFromNbits(nbits) ==
    LET exp   == Exponent(nbits)
        short == exp <= 3
        m     == IF short THEN Mantissa(nbits) \div Weight[3 - exp]
                          ELSE Mantissa(nbits)
        pos   == IF short THEN TargetLen - 3 ELSE TargetLen - exp
    IN  [k \in 1..TargetLen |->
            IF k \in (pos + 1)..(pos + 3) THEN Byte(m, pos + 3 - k) ELSE 0]

-----------------------------------------------------------------------------
(* check_pow_with_expected_nbits *)

\* Deviations: a hash equal to the target refused, and the hash compared in the
\* order it is stored.
NotLess(a, b) ==
    \A k \in 1..TargetLen : a[k] < b[k] => \E j \in 1..(k - 1) : a[j] > b[j]

GreaterThan(a, b) ==
    \E k \in 1..TargetLen : a[k] > b[k] /\ \A j \in 1..(k - 1) : a[j] = b[j]

CheckPowStoredOrder(header, expected) ==
    IF header.nbits # expected \/ ~IsCompactTarget(expected)
    THEN "InvalidTarget"
    ELSE IF GreaterThan(HashBytes(BlockHash(header)), TargetFromNbits(expected))
    THEN "BadHeaderPoW"
    ELSE "ok"

CheckPow(header, expected) ==
    IF header.nbits # expected \/ ~IsCompactTarget(expected)
    THEN "InvalidTarget"
    ELSE IF GreaterThan(Reverse(HashBytes(BlockHash(header))), TargetFromNbits(expected))
    THEN "BadHeaderPoW"
    ELSE "ok"
=============================================================================
