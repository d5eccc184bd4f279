-------------------------------- MODULE Order --------------------------------
(***************************************************************************)
(* src/order.rs, src/taproot.rs and the key registry of src/bundle.rs: the *)
(* economic identity of an order and the Bitcoin script derived from it.   *)
(*                                                                         *)
(* A preimage is a record that may leave out solver and replay_domain:     *)
(* they only feed order_id, as nonce does.                                 *)
(* canonical_encode loses no field (module OrderCodec), so the record      *)
(* itself stands for its encoding.  U31 keeps 31 bits of a digest, so that *)
(* a child index, or both, may be the same for two orders.  The curve      *)
(* arithmetic is symbolic: a script is the key and the path it was derived *)
(* from; what can really fail in derive_p2tr is a registered key that is   *)
(* no curve point, and InvalidXpubs holds those.                           *)
(***************************************************************************)
EXTENDS Primitives, SequencesExt

CONSTANTS
    InvalidXpubs,   \* registered keys that are no curve point
    U31(_)          \* the 31 bits of a digest that make a child index

\* Registries are vectors searched in insertion order: the first entry wins.
Resolve(entries, id) ==
    LET k == SelectInSeq(entries, LAMBDA e : e.id = id)
    IN  IF k = 0 THEN Absent ELSE entries[k].value

OrderId(preimage) == Keccak256(preimage)

\* OrderPreimage::validate, as the ClaimError it becomes
ValidatePreimage(p) ==
    IF p.quote_expires_at_l2 > p.claim_deadline_l2 THEN "InvalidOrderParameters"
    ELSE IF p.claim_deadline_l2 >= p.reclaim_after_l2 THEN "InvalidOrderParameters"
    ELSE IF p.destination_amount > p.max_destination_amount_cap
    THEN "DestinationAmountCapExceeded"
    ELSE "ok"

\* Deviation: both indices from the same digest.
ChildIndicesOnce(orderId) ==
    [i0 |-> U31(Sha256([id |-> orderId, suffix |-> 0])),
     i1 |-> U31(Sha256([id |-> orderId, suffix |-> 0]))]

ChildIndices(orderId) ==
    [i0 |-> U31(Sha256([id |-> orderId, suffix |-> 0])),
     i1 |-> U31(Sha256([id |-> orderId, suffix |-> 1]))]

DeriveP2tr(xpub, indices) ==
    IF xpub \in InvalidXpubs THEN Absent ELSE [xpub |-> xpub, path |-> indices]

\* derive_script_and_commitment: Absent stands for both BindErrors
DeriveScript(p, keys) ==
    LET xpub == Resolve(keys, p.solver_btc_key_id)
    IN  IF xpub = Absent THEN Absent ELSE DeriveP2tr(xpub, ChildIndices(OrderId(p)))

Commitment(script) == Keccak256(script)
=============================================================================
