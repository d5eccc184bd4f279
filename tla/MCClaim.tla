------------------------------- MODULE MCClaim -------------------------------
(***************************************************************************)
(* A small Bitcoin world and the requests about it.                        *)
(*                                                                         *)
(* The canonical chain has three blocks on the checkpoint hash g; the      *)
(* second one holds a transaction that pays two orders, and with the first *)
(* a third whose child indices are the same.  A fork of equal              *)
(* work holds a transaction that pays the first order and never made it    *)
(* into the canonical chain.  The registries are honest: what they accept  *)
(* on regtest is g and canonical blocks.                                   *)
(***************************************************************************)
EXTENDS ClaimVerifier

CONSTANTS g, foreign, x1, x2, badKey

\* A header's nonce is the numeric value of its hash.
MCHashBytes(h) == [k \in 1..TargetLen |-> Byte(h.sha256d.nonce, k - 1)]

\* Each index keeps a part of the order, and neither says who receives.
MCU31(h) ==
    LET p == h.sha256.id.keccak256
    IN  IF h.sha256.suffix = 0
        THEN <<p.nonce, p.quote_expires_at_l2, p.claim_deadline_l2>>
        ELSE <<p.nonce, p.reclaim_after_l2, p.destination_amount>>

Nbits == 4 * Weight[3] + 16      \* target 16 * Base = 64
Target == 64

P0 == [recipient |-> "alice", btc_network |-> "regtest", solver_btc_key_id |-> "k1",
       amount_sat |-> 5, destination_token |-> "usd", destination_amount |-> 1, min_confirmations |-> 1,
       max_btc_inclusion_height |-> 12, quote_expires_at_l2 |-> 1,
       claim_deadline_l2 |-> 2, reclaim_after_l2 |-> 4,
       max_destination_amount_cap |-> 2, nonce |-> 0]
P1 == [P0 EXCEPT !.recipient = "bob", !.min_confirmations = 2,
                 !.max_btc_inclusion_height = 11, !.quote_expires_at_l2 = 2,
                 !.max_destination_amount_cap = 1, !.nonce = 1]
\* An order that agrees with P0 in both indices
P2 == [P0 EXCEPT !.recipient = "carol"]

Script(p) == DeriveP2tr(x1, ChildIndices(OrderId(p)))
Out(v, p) == [value_sat |-> v, script_pubkey |-> Script(p)]
Tx(in, outs) == [inputs |-> in, outputs |-> outs, witness |-> "w"]

payTx  == Tx("utxo", <<Out(5, P0), Out(4, P1), Out(6, P1)>>)
fakeTx == Tx("spent", <<Out(5, P0)>>)
Coinbase(n) == Txid(Tx(n, <<>>))

\* The txids of the canonical blocks, and the root over three of them.
Txs == <<(<<Coinbase("b1")>>), <<Coinbase("b2"), Coinbase("d2"), Txid(payTx)>>,
         <<Coinbase("b3")>>>>
Root(t) == HashPair(HashPair(t[1], t[2]), HashPair(t[3], t[3]))

Hdr(prev, root, nbits, nonce) ==
    [prev_block |-> prev, merkle_root |-> root, nbits |-> nbits, nonce |-> nonce]

B1 == Hdr(g, Txs[1][1], Nbits, 0)
B2 == Hdr(BlockHash(B1), Root(Txs[2]), Nbits, Target)
F1 == Hdr(g, Txid(fakeTx), Nbits, 3)

\* The canonical blocks, the fork, and headers without enough work, of another
\* nBits, and with every fault.
Blocks ==
    [b1    |-> B1,
     b2    |-> B2,
     b3    |-> Hdr(BlockHash(B2), Txs[3][1], Nbits, 2),
     f1    |-> F1,
     f2    |-> Hdr(BlockHash(F1), Txid(fakeTx), Nbits, 4),
     lazy1 |-> Hdr(g, Txs[1][1], Nbits, Target + 1),
     easy2 |-> Hdr(BlockHash(B1), Root(Txs[2]), Nbits + 1, 0),
     torn2 |-> Hdr(BlockHash(F1), Root(Txs[2]), Nbits + 1, Target + 1)]

ChainNames ==
    <<(<<"b1", "b2", "b3">>), <<"b1", "b2">>, <<"b1">>, <<>>, <<"f1">>, <<"f1", "f2">>,
      <<"f1", "b2">>, <<"f1", "b2", "b3">>, <<"b2", "b3">>, <<"b1", "b3">>,
      <<"lazy1", "b2">>, <<"b1", "easy2">>, <<"b1", "torn2">>, <<"b1", "b2", "f2">>,
      <<"b1", "b1", "b2">>, <<"b2">>, <<"b3">>>>
Chain(k) == LET names == ChainNames[k] IN [j \in DOMAIN names |-> Blocks[names[j]]]
Canon == Chain(1)

Cp(id, network, height, hash, nbits) ==
    [id |-> id, value |-> [network |-> network, height |-> height,
                           hash |-> hash, nbits |-> nbits]]

\* Anchored at height h, with the canonical blocks that have a u32 height.
Honest(h) ==
    LET tips == SelectSeq(<<1, 2, 3>>, LAMBDA k : Fits(h + k))
    IN  <<Cp("cp", "regtest", h, g, Nbits)>>
        \o [k \in DOMAIN tips |-> Cp("tip" \o ToString(tips[k]), "regtest", h + k,
                                     BlockHash(Canon[k]), Nbits)]
GoodKeys == <<[id |-> "k1", value |-> x1]>>
GoodProof == [tx_index |-> 2, total_transactions |-> 3,
              siblings |-> <<Txid(payTx), HashPair(Txs[2][1], Txs[2][2])>>]
FakeProof == [tx_index |-> 0, total_transactions |-> 1, siblings |-> <<>>]

Registry(name, h, honest) ==
    CASE name = "honest"    -> honest
      [] name = "anchor"    -> <<Cp("cp", "regtest", h, g, Nbits)>>
      [] name = "elsewhere" -> <<Cp("cp", "regtest", h, g, Nbits)>>
            \o [k \in 1..3 |-> Cp("tip", "mainnet", h + k, BlockHash(Canon[k]), Nbits)]
      [] name = "shadowed"  -> <<Cp("cp", "mainnet", h, g, Nbits)>> \o honest
      [] name = "notarget"  -> <<Cp("cp", "regtest", h, g, Nbits + 16)>> \o honest

Keys(name) ==
    CASE name = "good"    -> GoodKeys
      [] name = "none"    -> <<>>
      [] name = "older"   -> <<[id |-> "k1", value |-> x2]>> \o GoodKeys
      [] name = "newer"   -> GoodKeys \o <<[id |-> "k1", value |-> x2]>>
      [] name = "invalid" -> <<[id |-> "k1", value |-> badKey]>>
      [] name = "other"   -> <<[id |-> "k2", value |-> x1]>>

Siblings(name) ==
    CASE name = "good"     -> GoodProof.siblings
      [] name = "none"     -> <<>>
      [] name = "reversed" -> Reverse(GoodProof.siblings)
      [] name = "short"    -> <<Txid(payTx)>>
      [] name = "foreign"  -> <<foreign, foreign>>

-----------------------------------------------------------------------------
(* A request is written as an option record: the order p, the output said  *)
(* to pay it, the checkpoint's height, a chain, a registry, the clock and  *)
(* one edit of the otherwise consistent bundle.                            *)

Edit(what, a, b, c, d) == [what |-> what, a |-> a, b |-> b, c |-> c, d |-> d]
AsIs == Edit("as is", 0, 0, "", "")

Consistent(o, chain, tip) ==
    [bundle |->
        [order |-> [order_id |-> OrderId(o.p), preimage |-> o.p,
                btc_script_pubkey_commitment |-> Commitment(Script(o.p))],
         txid_internal |-> Txid(payTx), raw_tx |-> payTx, vout |-> o.vout,
         merkle_proof |-> GoodProof, tx_block_index |-> 1,
         checkpoint_id |-> "cp", checkpoint_height |-> o.h, checkpoint_hash |-> g,
         confirmation_headers |-> chain,
         claimed_tip_height |-> IF Fits(tip) THEN tip ELSE MaxU32,
         claimed_tip_hash |-> IF chain = <<>> THEN g ELSE BlockHash(Last(chain))],
     keys |-> GoodKeys, checkpoints |-> Registry(o.registry, o.h, Honest(o.h)),
     now_l2 |-> o.now]

Edited(r, o, e) ==
    CASE e.what = "as is"    -> r
      [] e.what = "index"    -> [r EXCEPT !.bundle.tx_block_index = e.a]
      [] e.what = "fake"     -> [r EXCEPT !.bundle.raw_tx = fakeTx,
                                    !.bundle.txid_internal = Txid(fakeTx),
                                    !.bundle.merkle_proof = FakeProof,
                                    !.bundle.tx_block_index = 0]
      [] e.what = "tip hash" -> [r EXCEPT !.bundle.claimed_tip_hash = BlockHash(B2)]
      [] e.what = "low tip"  -> [r EXCEPT !.bundle.claimed_tip_height = @ - 1]
      [] e.what = "max tip"  -> [r EXCEPT !.bundle.claimed_tip_height = MaxU32]
      [] e.what = "anchor"   -> \* the first canonical block as the checkpoint
            [r EXCEPT !.bundle.checkpoint_height = o.h + 1,
                      !.bundle.claimed_tip_height = IF Fits(@ + 1) THEN @ + 1 ELSE @,
                      !.bundle.checkpoint_id = e.c, !.bundle.tx_block_index = e.a,
                      !.bundle.checkpoint_hash = IF e.d = "b1" THEN BlockHash(B1) ELSE g]
      [] e.what = "binding"  ->
            [r EXCEPT !.bundle.order.order_id = IF e.a = 0 THEN OrderId(P0) ELSE OrderId(P1),
                      !.bundle.order.btc_script_pubkey_commitment =
                            Commitment(Script(IF e.b = 0 THEN P0 ELSE P1)),
                      !.keys = Keys(e.c)]
      [] e.what = "proof"    ->
            [r EXCEPT !.bundle.merkle_proof = [tx_index |-> e.a, total_transactions |-> e.b,
                                               siblings |-> Siblings(e.c)]]
      [] e.what = "faults"   ->
            [r EXCEPT !.bundle.raw_tx = IF e.c = "malformed" THEN Malformed
                                        ELSE IF e.c = "other" THEN fakeTx ELSE payTx,
                      !.bundle.checkpoint_height = e.b, !.bundle.tx_block_index = e.a,
                      !.bundle.merkle_proof = IF e.d = "bad" THEN FakeProof ELSE GoodProof]

RequestOf(o) ==
    Edited(Consistent(o, Chain(o.chain), o.h + Len(ChainNames[o.chain])), o, o.edit)

Options(ps, vouts, heights, chains, registries, clocks, edits) ==
    [p : ps, vout : vouts, h : heights, chain : chains, registry : registries,
     now : clocks, edit : edits]

\* L2 clock, timeline and cap, each around its boundaries
WindowOptions ==
    Options({[P0 EXCEPT !.quote_expires_at_l2 = q, !.claim_deadline_l2 = d,
                        !.reclaim_after_l2 = c, !.destination_amount = a] :
                q \in 0..3, d \in 0..3, c \in 0..3, a \in {2, 3}},
            {0}, {9}, {1}, {"honest"}, 0..4, {AsIs})

\* Chains, heights up to and over the last u32, tips, positions, registries
ChainOptions(p, vout) ==
    Options({p}, {vout}, 9..12, 1..15,
            {"honest", "anchor", "elsewhere", "shadowed", "notarget"}, {2},
            {AsIs} \cup {Edit("index", k, 0, "", "") : k \in {0, 2, 3}}
                   \cup {Edit(what, 0, 0, "", "") :
                            what \in {"fake", "tip hash", "low tip", "max tip"}})

AnchorOptions ==
    Options({P0}, {0}, 9..10, {9, 16, 17}, {"honest"}, {2},
            {Edit("anchor", index, 0, id, hash) :
                index \in 0..1, id \in {"tip1", "cp", "none"}, hash \in {"b1", "g"}})

\* Order identity, keys, outputs and amounts
BindingOptions ==
    Options({P0, P1}, 0..3, {9}, {1}, {"honest"}, {2},
            {Edit("binding", id, c, keys, "") : id \in 0..1, c \in 0..1,
                keys \in {"good", "none", "older", "newer", "invalid", "other"}})

\* Merkle proofs of the payment
ProofOptions ==
    Options({P0}, {0}, {9}, {1}, {"honest"}, {2},
            {Edit("proof", k, n, s, "") : k \in 0..4, n \in 0..5,
                s \in {"good", "none", "reversed", "short", "foreign"}})

\* Several defects at once, one toggle per stage
FaultyOptions ==
    Options({P1, [P0 EXCEPT !.destination_amount = 3],
             [P0 EXCEPT !.destination_amount = 3, !.quote_expires_at_l2 = 3]},
            {1, 2}, {9}, {1, 2, 4, 13}, {"honest", "anchor"}, 2..4,
            {Edit("faults", index, h, raw, proof) : index \in {1, 3}, h \in {8, 9},
                raw \in {"ok", "other", "malformed"}, proof \in {"ok", "bad"}})

\* The order whose indices are those of another
TwinOptions == Options({P2}, 0..2, {9}, {1}, {"honest"}, {2}, {AsIs})

MCRequests ==
    WindowOptions \cup ChainOptions(P0, 0) \cup ChainOptions(P1, 2) \cup AnchorOptions
        \cup BindingOptions \cup TwinOptions \cup ProofOptions \cup FaultyOptions

MCContents == [o \in MCRequests |-> RequestOf(o)]

-----------------------------------------------------------------------------
\* With honest registries a settlement tells the truth about Bitcoin: the block
\* at the settled height is canonical and holds the claimed transaction at the
\* claimed place, and the confirmations lead to a canonical tip.  Forks of equal
\* work, spliced chains and proofs about other blocks settle nothing.
SettledIsCanonical ==
    IsSettled =>
        LET s == verdict.settlement
            \* the checkpoint is g or a canonical block
            origin == IF Anchor(request).hash = g THEN 0
                      ELSE CHOOSE k \in 1..3 : Anchor(request).hash = BlockHash(Canon[k])
            k == origin + s.block_height - Anchor(request).height
            at == request.bundle.merkle_proof.tx_index + 1
        IN  /\ k \in DOMAIN Canon
            /\ at \in DOMAIN Txs[k] /\ Txs[k][at] = s.txid_internal
            /\ BlockHash(Canon[k + s.confirmations - 1]) = request.bundle.claimed_tip_hash
=============================================================================
