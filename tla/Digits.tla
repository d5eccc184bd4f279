------------------------------- MODULE Digits -------------------------------
(***************************************************************************)
(* Numbers as bytes: to_be_bytes and from_be_bytes, which src/order.rs     *)
(* writes preimages with, and by which the arrays of 32 bytes that         *)
(* src/order.rs and src/pow.rs compare stand for numbers.                  *)
(***************************************************************************)
EXTENDS Integers, Sequences

CONSTANT Base   \* bytes are below it: 256 in the code

Digit == 0..(Base - 1)

\* What a digit counts for that has n digits behind it
Weight[n \in Nat] == IF n = 0 THEN 1 ELSE Base * Weight[n - 1]

\* Big-endian digits
ToBeBytes(n, width) == [d \in 1..width |-> (n \div Weight[width - d]) % Base]
FromBeBytes(bytes) ==
    LET value[d \in 0..Len(bytes)] ==
            IF d = 0 THEN 0 ELSE value[d - 1] * Base + bytes[d]
    IN  value[Len(bytes)]
=============================================================================
