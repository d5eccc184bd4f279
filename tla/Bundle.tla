------------------------------- MODULE Bundle -------------------------------
(***************************************************************************)
(* src/bundle.rs and the parts of src/lib.rs the evaluation calls: what a  *)
(* verification request holds and how its fields are looked up.            *)
(*                                                                         *)
(* Requests are named, and Contents gives what the request of a name       *)
(* holds: [bundle, keys, checkpoints, now_l2], a ClaimBundle, the two      *)
(* registries (vectors of [id, value]) and the L2 clock.  raw_tx is the    *)
(* transaction it parses to, or Malformed when parse_tx rejects it.        *)
(***************************************************************************)
EXTENDS Order, Pow, Merkle

CONSTANTS
    Requests,    \* the requests the verifier may be given
    Contents,    \* what each of them holds
    Malformed    \* a raw_tx that does not parse

\* The txid commits to the transaction without its witness (lib.rs).
LegacySerialize(tx) == [inputs |-> tx.inputs, outputs |-> tx.outputs]
Txid(tx)            == Sha256d(LegacySerialize(tx))

Preimage(r) == r.bundle.order.preimage
Headers(r)  == r.bundle.confirmation_headers

\* The accepted checkpoint the bundle names: its record in the registry.
Anchor(r) == Resolve(r.checkpoints, r.bundle.checkpoint_id)

\* CheckpointRegistry::contains
ContainsCheckpoint(entries, network, height, hash) ==
    \E k \in DOMAIN entries : /\ entries[k].value.network = network
                              /\ entries[k].value.height = height
                              /\ entries[k].value.hash = hash

\* linkage::block_height and linkage::confirmations; the former is None when
\* the sum is no u32.
BlockHeight(checkpointHeight, index)  == checkpointHeight + index + 1
Confirmations(chainLen, index)        == chainLen - index

U32 == 0..MaxU32

\* The block hash that header k must point back to.
Predecessor(r, k) == IF k = 1 THEN Anchor(r).hash ELSE BlockHash(Headers(r)[k - 1])

\* The output the bundle points at pays this order's script.
PaysOrder(r) ==
    LET script == DeriveScript(Preimage(r), r.keys)
        outs   == r.bundle.raw_tx.outputs
    IN  /\ OrderId(Preimage(r)) = r.bundle.order.order_id
        /\ script # Absent
        /\ Commitment(script) = r.bundle.order.btc_script_pubkey_commitment
        /\ r.bundle.vout < Len(outs)
        /\ outs[r.bundle.vout + 1].script_pubkey = script

\* What the types of VerifyRequest, ClaimBundle and OrderPreimage give.
RequestOk(r) ==
    /\ {r.bundle.checkpoint_height, r.bundle.claimed_tip_height, r.bundle.tx_block_index,
        r.bundle.vout, Preimage(r).max_btc_inclusion_height,
        Preimage(r).min_confirmations} \subseteq U32
    /\ {r.now_l2, Preimage(r).quote_expires_at_l2, Preimage(r).claim_deadline_l2,
        Preimage(r).reclaim_after_l2} \subseteq Nat
    /\ IsVector(Headers(r))
    /\ r.bundle.raw_tx # Malformed => IsVector(r.bundle.raw_tx.outputs)

ASSUME RequestsAssumption == \A req \in Requests : RequestOk(Contents[req])
=============================================================================
