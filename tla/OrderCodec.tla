----------------------------- MODULE OrderCodec -----------------------------
(***************************************************************************)
(* src/order.rs: how a preimage becomes the bytes that order_id hashes,    *)
(* and how validate compares amounts of 256 bits.  Order takes the record  *)
(* for its encoding and amounts for numbers; here is why it may.           *)
(*                                                                         *)
(* Bytes are digits of Base and the widths are scaled, each kind of field  *)
(* keeping one of its own.  An array of bytes is a tuple, an integer a     *)
(* number.                                                                 *)
(***************************************************************************)
EXTENDS Digits, SequencesExt

CONSTANTS
    ArrayWidth,     \* the widths of B256, U256 (32 bytes)
    AddressWidth,   \* of Address (20)
    LongWidth,      \* of u64 (8)
    ShortWidth,     \* of u32 (4)
    Preimages       \* what validate and order_id may be called on

ASSUME WidthsAssumption ==
    /\ Base \in Nat /\ Base >= 4
    /\ {ArrayWidth, AddressWidth, LongWidth, ShortWidth} \subseteq Nat

VARIABLES
    orderAt,        \* "validate", "encode" or "done"
    pre,            \* self
    o,              \* the bytes written so far
    fields,         \* how many fields they are of
    error           \* what validate returns

orderVars == <<orderAt, pre, o, fields, error>>

-----------------------------------------------------------------------------
(* OrderPreimage: the declaration *)

Field(name, type) == [name |-> name, type |-> type]

OrderPreimage ==
    << Field("solver", "Address"), Field("recipient", "Address"),
       Field("btc_network", "BtcNetwork"), Field("solver_btc_key_id", "B256"),
       Field("amount_sat", "u64"), Field("destination_token", "Address"),
       Field("destination_amount", "U256"), Field("min_confirmations", "u32"),
       Field("max_btc_inclusion_height", "u32"), Field("quote_expires_at_l2", "u64"),
       Field("claim_deadline_l2", "u64"), Field("reclaim_after_l2", "u64"),
       Field("max_destination_amount_cap", "U256"), Field("replay_domain", "B256"),
       Field("nonce", "B256") >>

Width(type) ==
    CASE type \in {"B256", "U256"} -> ArrayWidth
      [] type = "Address"          -> AddressWidth
      [] type = "u64"              -> LongWidth
      [] type = "u32"              -> ShortWidth
      [] type = "BtcNetwork"       -> 1

Networks == <<"mainnet", "testnet", "signet", "regtest">>
Tag(network) == CHOOSE n \in 0..3 : Networks[n + 1] = network

\* The values of a type
Values(type) ==
    CASE type \in {"B256", "U256", "Address"} -> [1..Width(type) -> Digit]
      [] type = "BtcNetwork"     -> {"mainnet", "testnet", "signet", "regtest"}
      [] type \in {"u32", "u64"} -> 0..(Weight[Width(type)] - 1)

IsPreimage(x) ==
    \A n \in DOMAIN OrderPreimage : x[OrderPreimage[n].name] \in Values(OrderPreimage[n].type)

ASSUME PreimagesAssumption == \A x \in Preimages : IsPreimage(x)

-----------------------------------------------------------------------------
(* canonical_encode *)

\* Deviation: numbers without their leading zeros.
FieldBytesMinimal(field) ==
    LET value == pre[field.name]
    IN  CASE field.type \in {"B256", "U256", "Address"} -> value
          [] field.type = "BtcNetwork" -> <<Tag(value)>>
          [] field.type \in {"u32", "u64"} ->
                ToBeBytes(value, CHOOSE w \in 1..Width(field.type) :
                    value < Weight[w] /\ (w = 1 \/ value >= Weight[w - 1]))

FieldBytes(field) ==
    LET value == pre[field.name]
    IN  CASE field.type \in {"B256", "U256", "Address"} -> value
          [] field.type = "BtcNetwork"     -> <<Tag(value)>>
          [] field.type \in {"u32", "u64"} -> ToBeBytes(value, Width(field.type))

\* A call of validate or of order_id on one of the preimages
Call ==
    /\ pre \in Preimages
    /\ orderAt \in {"validate", "encode"}
    /\ o = <<>> /\ fields = 0
    /\ error = "none"

Extend ==
    /\ orderAt = "encode"
    /\ fields < Len(OrderPreimage)
    /\ o' = o \o FieldBytes(OrderPreimage[fields + 1])
    /\ fields' = fields + 1
    /\ UNCHANGED <<orderAt, pre, error>>

OrderId ==
    /\ orderAt = "encode"
    /\ fields = Len(OrderPreimage)
    /\ orderAt' = "done"
    /\ UNCHANGED <<pre, o, fields, error>>

-----------------------------------------------------------------------------
(* validate *)

\* Deviation: the bytes compared from the last to the first.
ExceedsStored(a, b) ==
    \E d \in DOMAIN a : a[d] > b[d] /\ \A e \in DOMAIN a : e > d => a[e] = b[e]

\* The order that U256 derives: of arrays, byte by byte from the first.
Exceeds(a, b) ==
    \E d \in DOMAIN a : a[d] > b[d] /\ \A e \in DOMAIN a : e < d => a[e] = b[e]

Validate ==
    /\ orderAt = "validate"
    /\ orderAt' = "done"
    /\ error' = IF \/ pre.quote_expires_at_l2 > pre.claim_deadline_l2
                   \/ pre.claim_deadline_l2 >= pre.reclaim_after_l2
                THEN "Timeline"
                ELSE IF Exceeds(pre.destination_amount, pre.max_destination_amount_cap)
                THEN "DestinationAmountCapExceeded"
                ELSE "ok"
    /\ UNCHANGED <<pre, o, fields>>

OrderNext == Extend \/ OrderId \/ Validate

OrderSpec == Call /\ [][OrderNext]_orderVars

-----------------------------------------------------------------------------
(* Properties *)

\* Where the n-th field begins
Offset[n \in 1..(Len(OrderPreimage) + 1)] ==
    IF n = 1 THEN 0 ELSE Offset[n - 1] + Width(OrderPreimage[n - 1].type)

\* What a reader who knows the declaration takes the n-th field for
FieldValue(field, bytes) ==
    CASE field.type \in {"B256", "U256", "Address"} -> bytes
      [] field.type = "BtcNetwork"     -> Networks[FromBeBytes(bytes) + 1]
      [] field.type \in {"u32", "u64"} -> FromBeBytes(bytes)

ReadBack(n) ==
    FieldValue(OrderPreimage[n],
               SubSeq(o, Offset[n] + 1, Offset[n] + Width(OrderPreimage[n].type)))

\* The bytes written are those of the fields written (order.rs:73-91).
OrderTypeOK ==
    /\ orderAt \in {"validate", "encode", "done"}
    /\ \A n \in DOMAIN o : o[n] \in Digit
    /\ Len(o) = Offset[fields + 1]
    /\ error \in {"none", "Timeline", "DestinationAmountCapExceeded", "ok"}

\* "Sem padding variável, sem ambiguidade" (order.rs:70-72): the bytes give
\* every field back, so two preimages never share an order_id.
Unambiguous ==
    orderAt = "done" =>
        \A n \in 1..fields : Offset[n + 1] <= Len(o) /\ ReadBack(n) = pre[OrderPreimage[n].name]

\* The amount that validate refuses is the larger number, wherever in its 32
\* bytes it is larger (order.rs:104).
ComparedAsNumbers ==
    error \in {"ok", "DestinationAmountCapExceeded"} =>
        ( error = "ok" <=>
          FromBeBytes(pre.destination_amount) <= FromBeBytes(pre.max_destination_amount_cap) )
=============================================================================
