---------------------------- MODULE RequestCodec ----------------------------
(***************************************************************************)
(* The *Json types of src/main.rs: how a verification request is read from *)
(* JSON and how one is written.                                            *)
(*                                                                         *)
(* A JSON document has the shape of the request it describes, [bundle,     *)
(* keys, checkpoints, now_l2], with a text where the request has bytes.  A *)
(* text is [prefixes, digits, clean, value]: how often it opens with "0x", *)
(* how many characters follow, whether they are all hex digits (of either  *)
(* case) and the bytes these spell.  Numbers and network names are JSON's  *)
(* own: a document with one out of its range is no request for serde.  The *)
(* sizes of a struct name its fields of bytes; all others are copied.      *)
(***************************************************************************)
EXTENDS Integers, SequencesExt

AnyLength == 0   \* HexBytes: a vector of bytes, whose length is not counted

-----------------------------------------------------------------------------
(* hex::encode, decode_hex_vec, decode_hex_array *)

Hex(bytes, size) ==
    [prefixes |-> 0, digits |-> 2 * size, clean |-> TRUE, value |-> bytes]

\* Deviation: the prefix left on.
KeepPrefix(text) == text

StripPrefix(text) ==
    [prefixes |-> IF text.prefixes > 0 THEN text.prefixes - 1 ELSE 0,
     digits |-> text.digits, clean |-> text.clean, value |-> text.value]

\* Deviation: an array filled from however many bytes there are.
IsLegibleAnySize(read) ==
    LET text == StripPrefix(read.text)
    IN  text.prefixes = 0 /\ text.clean /\ text.digits % 2 = 0

IsLegible(read) ==
    LET text == StripPrefix(read.text)
    IN  /\ text.prefixes = 0 /\ text.clean /\ text.digits % 2 = 0
        /\ read.size \in {AnyLength, text.digits \div 2}

-----------------------------------------------------------------------------
(* The structs *)

PreimageSizes == [solver |-> 20, recipient |-> 20, solver_btc_key_id |-> 32,
                  destination_token |-> 20, destination_amount |-> 32,
                  max_destination_amount_cap |-> 32, replay_domain |-> 32, nonce |-> 32]
OrderSizes    == [order_id |-> 32, btc_script_pubkey_commitment |-> 32]
BundleSizes   == [txid_internal |-> 32, raw_tx |-> AnyLength, checkpoint_id |-> 32,
                  checkpoint_hash |-> 32, claimed_tip_hash |-> 32]
XpubSizes     == [public_key |-> 33, chain_code |-> 32]
RecordSizes   == [hash |-> 32]
HashSize      == 32
HeaderSize    == 80

Encode(struct, sizes) ==
    [f \in DOMAIN struct |-> IF f \in DOMAIN sizes THEN Hex(struct[f], sizes[f]) ELSE struct[f]]

Decode(json, sizes) ==
    [f \in DOMAIN json |-> IF f \in DOMAIN sizes THEN json[f].value ELSE json[f]]

EncodeAll(values, size) == [k \in DOMAIN values |-> Hex(values[k], size)]
DecodeAll(texts)        == [k \in DOMAIN texts |-> texts[k].value]

-----------------------------------------------------------------------------
(* from_runtime *)

EncodeEntry(entry, sizes) ==
    [id |-> Hex(entry.id, HashSize), value |-> Encode(entry.value, sizes)]

EncodeOrder(o) == [Encode(o, OrderSizes) EXCEPT !.preimage = Encode(@, PreimageSizes)]

EncodeBundle(b) ==
    [Encode(b, BundleSizes) EXCEPT
        !.order = EncodeOrder(@),
        !.merkle_proof.siblings = EncodeAll(@, HashSize),
        !.confirmation_headers = EncodeAll(@, HeaderSize)]

EncodeRequest(r) ==
    [bundle      |-> EncodeBundle(r.bundle),
     keys        |-> [k \in DOMAIN r.keys |-> EncodeEntry(r.keys[k], XpubSizes)],
     checkpoints |-> [k \in DOMAIN r.checkpoints |->
                        EncodeEntry(r.checkpoints[k], RecordSizes)],
     now_l2      |-> r.now_l2]

SettlementSizes == [order_id |-> 32, txid_internal |-> 32, recipient |-> 20,
                    destination_token |-> 20, destination_amount |-> 32]

-----------------------------------------------------------------------------
(* try_into_runtime: what is read, in the order of the code, and the       *)
(* request that is built of it when all of it is legible.                  *)

Read(field, text, size) == [field |-> field, text |-> text, size |-> size]

ReadFields(names, json, sizes) ==
    [k \in DOMAIN names |-> Read(names[k], json[names[k]], sizes[names[k]])]

\* Deviation: the errors of all fields of an entry under the name of the first.
ReadEntryMisnamed(id, names, entry, sizes) ==
    <<Read(id, entry.id, HashSize)>>
    \o [k \in DOMAIN names |-> Read(id, entry.value[names[k]], sizes[names[k]])]

ReadEntry(id, names, entry, sizes) ==
    <<Read(id, entry.id, HashSize)>> \o ReadFields(names, entry.value, sizes)

PreimageReads(p) ==
    ReadFields(<<"solver", "recipient", "solver_btc_key_id", "destination_token",
                 "destination_amount", "max_destination_amount_cap", "replay_domain",
                 "nonce">>, p, PreimageSizes)

ReadAll(field, texts, size) == [k \in DOMAIN texts |-> Read(field, texts[k], size)]

BundleReads(b) ==
    ReadFields(<<"order_id">>, b.order, OrderSizes) \o PreimageReads(b.order.preimage)
    \o ReadFields(<<"btc_script_pubkey_commitment">>, b.order, OrderSizes)
    \o ReadFields(<<"txid_internal", "raw_tx">>, b, BundleSizes)
    \o ReadAll("siblings", b.merkle_proof.siblings, HashSize)
    \o ReadFields(<<"checkpoint_id", "checkpoint_hash">>, b, BundleSizes)
    \o ReadAll("confirmation_headers", b.confirmation_headers, HeaderSize)
    \o ReadFields(<<"claimed_tip_hash">>, b, BundleSizes)

Reads(json) ==
    FlattenSeq([k \in DOMAIN json.keys |->
                    ReadEntry("key_id", <<"public_key", "chain_code">>,
                              json.keys[k], XpubSizes)])
    \o FlattenSeq([k \in DOMAIN json.checkpoints |->
                    ReadEntry("registry id", <<"hash">>, json.checkpoints[k], RecordSizes)])
    \o BundleReads(json.bundle)

\* The field the conversion's error names, or "ok"
ConversionError(json) ==
    LET reads == Reads(json)
        k     == SelectInSeq(reads, LAMBDA read : ~IsLegible(read))
    IN  IF k = 0 THEN "ok" ELSE reads[k].field

DecodeEntries(entries, sizes) ==
    [k \in DOMAIN entries |->
        [id |-> entries[k].id.value, value |-> Decode(entries[k].value, sizes)]]

\* Deviation: one field read into another of the same size.
DecodeOrderSwapped(o) ==
    [Decode(o, OrderSizes) EXCEPT
        !.preimage = Decode([o.preimage EXCEPT !.replay_domain = o.preimage.nonce],
                            PreimageSizes)]

DecodeOrder(o) == [Decode(o, OrderSizes) EXCEPT !.preimage = Decode(@, PreimageSizes)]

DecodeBundle(b) ==
    [Decode(b, BundleSizes) EXCEPT
        !.order = DecodeOrder(@),
        !.merkle_proof.siblings = DecodeAll(@),
        !.confirmation_headers = DecodeAll(@)]

\* Deviation: the later entries of a registry put before the earlier ones.
DecodeRequestReversed(json) ==
    [bundle      |-> DecodeBundle(json.bundle),
     keys        |-> Reverse(DecodeEntries(json.keys, XpubSizes)),
     checkpoints |-> Reverse(DecodeEntries(json.checkpoints, RecordSizes)),
     now_l2      |-> json.now_l2]

DecodeRequest(json) ==
    [bundle      |-> DecodeBundle(json.bundle),
     keys        |-> DecodeEntries(json.keys, XpubSizes),
     checkpoints |-> DecodeEntries(json.checkpoints, RecordSizes),
     now_l2      |-> json.now_l2]
=============================================================================
