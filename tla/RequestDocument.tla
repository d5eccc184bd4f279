--------------------------- MODULE RequestDocument ---------------------------
(***************************************************************************)
(* The JSON of a verification request as README.md and docs/ describe it   *)
(* to those who write one: what a document says, field by field, and which *)
(* documents can be read.  Neither knows the order in which try_into_      *)
(* runtime reads the fields, nor what RequestCodec makes of them.          *)
(***************************************************************************)
EXTENDS Primitives, RequestCodec

-----------------------------------------------------------------------------
(* What a document says *)

\* The fields of json, apart from some, say what struct holds.
Says(json, struct, sizes, apart) ==
    /\ struct = [f \in DOMAIN json |-> struct[f]]
    /\ apart \subseteq DOMAIN json
    /\ \A f \in DOMAIN json \ apart :
            struct[f] = IF f \in DOMAIN sizes THEN json[f].value ELSE json[f]

SaysAll(texts, values) == values = [k \in DOMAIN texts |-> texts[k].value]

SaysEntries(json, entries, sizes) ==
    /\ entries = [k \in DOMAIN json |-> [id    |-> json[k].id.value,
                                         value |-> entries[k].value]]
    /\ \A k \in DOMAIN json : Says(json[k].value, entries[k].value, sizes, {})

SaysBundle(json, b) ==
    /\ Says(json, b, BundleSizes, {"order", "merkle_proof", "confirmation_headers"})
    /\ Says(json.order, b.order, OrderSizes, {"preimage"})
    /\ Says(json.order.preimage, b.order.preimage, PreimageSizes, {})
    /\ Says(json.merkle_proof, b.merkle_proof, <<>>, {"siblings"})
    /\ SaysAll(json.merkle_proof.siblings, b.merkle_proof.siblings)
    /\ SaysAll(json.confirmation_headers, b.confirmation_headers)

SaysRequest(json, r) ==
    /\ r = [bundle |-> r.bundle, keys |-> r.keys, checkpoints |-> r.checkpoints,
            now_l2 |-> json.now_l2]
    /\ SaysBundle(json.bundle, r.bundle)
    /\ SaysEntries(json.keys, r.keys, XpubSizes)
    /\ SaysEntries(json.checkpoints, r.checkpoints, RecordSizes)

-----------------------------------------------------------------------------
(* Which documents can be read *)

\* How a text is spelled, with the number of bytes asked of it
Spelling(text, size) == [prefixes |-> text.prefixes, digits |-> text.digits,
                         clean |-> text.clean, size |-> size]

FieldTexts(json, sizes) == {Spelling(json[f], sizes[f]) : f \in DOMAIN sizes}
ListTexts(texts, size)  == {Spelling(texts[k], size) : k \in DOMAIN texts}

EntryTexts(json, sizes) ==
    UNION {{Spelling(json[k].id, HashSize)} \cup FieldTexts(json[k].value, sizes) :
           k \in DOMAIN json}

BundleTexts(json) ==
    FieldTexts(json, BundleSizes) \cup FieldTexts(json.order, OrderSizes)
    \cup FieldTexts(json.order.preimage, PreimageSizes)
    \cup ListTexts(json.merkle_proof.siblings, HashSize)
    \cup ListTexts(json.confirmation_headers, HeaderSize)

\* Every text of a document
Texts(json) ==
    EntryTexts(json.keys, XpubSizes) \cup EntryTexts(json.checkpoints, RecordSizes)
    \cup BundleTexts(json.bundle)

\* "hex, com ou sem prefixo 0x" (README.md:95), of the right number of bytes
IsHex(text) ==
    /\ text.prefixes \in {0, 1} /\ text.clean
    /\ IF text.size = AnyLength THEN text.digits % 2 = 0 ELSE text.digits = 2 * text.size

AllHex(json) == \A text \in Texts(json) : IsHex(text)

\* What serde lets pass: vectors, and texts of some length
IsDocument(json) ==
    /\ IsVector(json.keys) /\ IsVector(json.checkpoints)
    /\ IsVector(json.bundle.merkle_proof.siblings)
    /\ IsVector(json.bundle.confirmation_headers)
    /\ \A text \in Texts(json) : text.prefixes \in Nat /\ text.digits \in Nat
=============================================================================
