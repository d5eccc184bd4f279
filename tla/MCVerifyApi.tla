---------------------------- MODULE MCVerifyApi ----------------------------
(***************************************************************************)
(* Documents written for variants of the sample request: each in several   *)
(* spellings of its hex, and with one or two of its fields spoilt in every *)
(* way a text can be.  Targets have their real size.                       *)
(***************************************************************************)
EXTENDS VerifyApi

\* The last byte of a hash, which is its most significant, is its nonce.
MCHashBytes(h) == [k \in 1..32 |-> IF k = 32 THEN h.sha256d.nonce ELSE 255]

MCU31(h) == LET p == h.sha256.id.keccak256 IN <<h.sha256.suffix, p.recipient, p.nonce>>

MCInvalidXpubs == {[public_key |-> "no point", chain_code |-> "0707"]}

Key(pk)     == <<[id |-> "0404", value |-> [public_key |-> pk, chain_code |-> "0707"]]>>
Elsewhere   == <<[id |-> "01", value |-> [SampleCheckpoint EXCEPT !.network = "mainnet"]]>>
LazyHeader  == [SampleHeader EXCEPT !.nonce = 127]
SecondBlock == [SampleHeader EXCEPT !.prev_block = SampleTip.hash, !.merkle_root = "root"]

Variant(content) ==
    CASE content = "as is"     -> Sample
      [] content = "late"      -> [Sample EXCEPT !.now_l2 = 25]
      [] content = "other"     ->
            [Sample EXCEPT !.bundle.order.preimage.recipient = "0404",
                           !.bundle.order.preimage.max_destination_amount_cap = 200000]
      [] content = "capped"    ->
            [Sample EXCEPT !.bundle.order.preimage.max_destination_amount_cap = 123455]
      [] content = "malformed" -> [Sample EXCEPT !.bundle.raw_tx = Malformed]
      [] content = "older key" -> [Sample EXCEPT !.keys = Key("02aa") \o @]
      [] content = "newer key" -> [Sample EXCEPT !.keys = @ \o Key("02aa")]
      [] content = "bad key"   -> [Sample EXCEPT !.keys = Key("no point")]
      [] content = "shadowed"  -> [Sample EXCEPT !.checkpoints = Elsewhere \o @]
      [] content = "extended"  -> [Sample EXCEPT !.checkpoints = @ \o Elsewhere]
      [] content = "branch"    -> [Sample EXCEPT !.bundle.merkle_proof.siblings = <<"aa", "bb">>]
      [] content = "lazy"      -> [Sample EXCEPT !.bundle.confirmation_headers = <<LazyHeader>>]
      [] content = "longer"    ->
            [Sample EXCEPT !.bundle.confirmation_headers = @ \o <<SecondBlock>>]

Contents == {"late", "other", "capped", "malformed", "older key", "newer key", "bad key",
             "shadowed", "extended", "branch", "lazy", "longer"}

Fields == {"key_id", "public_key", "chain_code", "registry id", "hash", "siblings",
           "confirmation_headers"}
          \cup DOMAIN PreimageSizes \cup DOMAIN OrderSizes \cup DOMAIN BundleSizes
Faults == {"odd", "no hex", "long", "short", "twice"}
Spoilt == {f \in Fields \X Faults : f[1] = "raw_tx" => f[2] \in {"odd", "no hex", "twice"}}

Document(content, spelling, faults) ==
    [content |-> content, spelling |-> spelling, faults |-> faults]

MCIllegible ==
    {Document("branch", "bare", {f}) : f \in Spoilt}
    \cup {Document("branch", "prefixed", {<<a, "odd">>, <<b, "short">>}) :
            a \in {"key_id", "hash", "nonce"}, b \in {"order_id", "recipient", "chain_code"}}
    \cup {Document("as is", "not JSON", {})}

MCDocuments ==
    MCIllegible \cup {Document("as is", "by the service", {})}
    \cup {Document(content, spelling, {}) :
            content \in Contents, spelling \in {"bare", "prefixed", "mixed"}}
MCSample == Document("as is", "by the service", {})

-----------------------------------------------------------------------------
Spoil(text, how) ==
    CASE how = "odd"    -> [text EXCEPT !.digits = @ + 1]
      [] how = "no hex" -> [text EXCEPT !.clean = FALSE]
      [] how = "long"   -> [text EXCEPT !.digits = @ + 2]
      [] how = "short"  -> [text EXCEPT !.digits = @ - 2]
      [] how = "twice"  -> [text EXCEPT !.prefixes = 2]

\* The text of a field as document d has it
Spell(d, field, text) ==
    LET prefixed == d.spelling = "prefixed" \/ (d.spelling = "mixed" /\ text.digits > 64)
        faults   == {f \in d.faults : f[1] = field}
        styled   == IF prefixed THEN [text EXCEPT !.prefixes = 1] ELSE text
    IN  IF faults = {} THEN styled ELSE Spoil(styled, (CHOOSE f \in faults : TRUE)[2])

SpellFields(d, json, sizes) ==
    [f \in DOMAIN json |-> IF f \in DOMAIN sizes THEN Spell(d, f, json[f]) ELSE json[f]]

SpellEntries(d, id, entries, sizes) ==
    [k \in DOMAIN entries |-> [id    |-> Spell(d, id, entries[k].id),
                               value |-> SpellFields(d, entries[k].value, sizes)]]

SpellAll(d, field, texts) == [k \in DOMAIN texts |-> Spell(d, field, texts[k])]

Spelled(d, json) ==
    [json EXCEPT
        !.keys = SpellEntries(d, "key_id", @, XpubSizes),
        !.checkpoints = SpellEntries(d, "registry id", @, RecordSizes),
        !.bundle = [SpellFields(d, @, BundleSizes) EXCEPT
            !.order = [SpellFields(d, @, OrderSizes) EXCEPT
                !.preimage = SpellFields(d, @, PreimageSizes)],
            !.merkle_proof.siblings = SpellAll(d, "siblings", @),
            !.confirmation_headers = SpellAll(d, "confirmation_headers", @)]]

MCWritten(d) == IF d.spelling = "not JSON" THEN NoRequest
                ELSE Spelled(d, EncodeRequest(Variant(d.content)))
MCMeaning(d) == Variant(d.content)

-----------------------------------------------------------------------------
\* A refusal tells the client what to mend: the field it names is one of those
\* that cannot be read (the field names main.rs passes to decode_hex_array).
RefusalNamesCulprit ==
    (at = "answered" /\ "field" \in DOMAIN reply /\ reply.field # "JSON") =>
        reply.field \in {f[1] : f \in doc.faults}
=============================================================================
