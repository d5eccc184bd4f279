------------------------------- MODULE Mining -------------------------------
(***************************************************************************)
(* mine_header (src/main.rs): the sample request's header is mined by      *)
(* counting a nonce up until check_pow_with_expected_nbits passes.  The    *)
(* loop `0..u32::MAX` leaves the last nonce out and, for an nBits that is  *)
(* no target, runs through all the others before it fails.                 *)
(*                                                                         *)
(* The hash of a header is any function of its nonce into a set of sample  *)
(* values; nBits takes every value of the scaled compact format.           *)
(***************************************************************************)
EXTENDS Pow

CONSTANTS
    MaxNonce,      \* u32::MAX in the code
    MaxExponent,   \* 255 in the code
    HashValues     \* numeric values a header's hash may take

CompactWords == 0..(Weight[3] * (MaxExponent + 1) - 1)

MiningHashBytes(h) == [k \in 1..TargetLen |-> Byte(h.sha256d.value, k - 1)]

ASSUME MiningAssumption ==
    /\ MaxNonce \in Nat /\ MaxExponent \in Nat
    /\ HashValues \subseteq 0..(Weight[TargetLen] - 1)

\* A header carries its own hash value here; HashBytes reads it back.
ASSUME HashAssumption ==
    \A word \in CompactWords, n \in 0..MaxNonce, x \in HashValues :
        LET h == Sha256d([nbits |-> word, nonce |-> n, value |-> x])
        IN  HashBytes(h) = MiningHashBytes(h)

VARIABLES
    nbits,      \* the difficulty asked for
    values,     \* the hash of each nonce
    nonce,      \* the next nonce to try
    outcome

miningVars == <<nbits, values, nonce, outcome>>

Header(n) == [nbits |-> nbits, nonce |-> n, value |-> values[n]]

MiningInit ==
    /\ nbits \in CompactWords
    /\ values \in [0..MaxNonce -> HashValues]
    /\ nonce = 0
    /\ outcome = "mining"

Found == /\ outcome = "mining" /\ nonce < MaxNonce
         /\ CheckPow(Header(nonce), nbits) = "ok"
         /\ outcome' = "found"
         /\ UNCHANGED <<nbits, values, nonce>>

Advance == /\ outcome = "mining" /\ nonce < MaxNonce
           /\ CheckPow(Header(nonce), nbits) # "ok"
           /\ nonce' = nonce + 1
           /\ UNCHANGED <<nbits, values, outcome>>

GiveUp == /\ outcome = "mining" /\ nonce = MaxNonce
          /\ outcome' = "failed"
          /\ UNCHANGED <<nbits, values, nonce>>

Returned == outcome # "mining" /\ UNCHANGED miningVars

MiningNext == Found \/ Advance \/ GiveUp \/ Returned

MiningSpec == MiningInit /\ [][MiningNext]_miningVars

-----------------------------------------------------------------------------
(* Reference: a compact target as the number it denotes                    *)

Denotes(compact) ==
    LET e == Exponent(compact)  m == Word(compact)
    IN  IF e >= 3 THEN m * Weight[e - 3] ELSE m \div Weight[3 - e]

-----------------------------------------------------------------------------
(* Properties *)

\* No more nonces are tried than there are, and every word, also one that is
\* no target, expands to bytes (main.rs:934, pow.rs:66-82).
MiningTypeOK ==
    /\ nonce \in 0..MaxNonce
    /\ outcome \in {"mining", "found", "failed"}
    /\ \A k \in 1..TargetLen : TargetFromNbits(nbits)[k] \in Digit

\* An accepted compact target expands to the number it denotes, and that number
\* fits the target's bytes (pow.rs:53-85).  It may be zero: the code looks at
\* the mantissa before a short exponent shifts it out.
TargetIsExact ==
    IsCompactTarget(nbits) =>
        /\ FromBeBytes(TargetFromNbits(nbits)) = Denotes(nbits)
        /\ Denotes(nbits) < Weight[TargetLen]

\* pow.rs:15 counts zero among the malformed words that InvalidTarget is for: a
\* header whose nBits denotes zero is refused with that reason.
ZeroIsInvalid ==
    Denotes(nbits) = 0 => CheckPow(Header(nonce), nbits) = "InvalidTarget"

\* What mining hands out really carries the work: the hash, as a little-endian
\* number, is at most the number nBits denotes.
MinedHasWork ==
    outcome = "found" => IsCompactTarget(nbits) /\ values[nonce] <= Denotes(nbits)

\* Mining fails only when no nonce but the last, which it never tries, would do.
FailureIsGenuine ==
    outcome = "failed" =>
        \A n \in 0..(MaxNonce - 1) : ~IsCompactTarget(nbits) \/ values[n] > Denotes(nbits)

\* mine_header hands out work that is there, and gives up only where there is
\* none (main.rs:934-941).
MiningIsHonest == MinedHasWork /\ FailureIsGenuine
=============================================================================
