----------------------------- MODULE ClaimOracle -----------------------------
(***************************************************************************)
(* What evaluate_claim_bundle promises, with no order of evaluation inside *)
(* a stage, no loop and no early return: a request is settled when nothing *)
(* is wrong with it, and otherwise rejected with a reason that is wrong    *)
(* about it, found in the first stage where anything is wrong.             *)
(***************************************************************************)
EXTENDS Bundle

VARIABLES req, verdict

oracleVars == <<req, verdict>>

Pending          == [kind |-> "pending"]
Rejected(reason) == [kind |-> "rejected", reason |-> reason]
Settled(s)       == [kind |-> "settled", settlement |-> s]

\* struct Settlement
SettlementOf(r) ==
    [order_id      |-> r.bundle.order.order_id,
     txid_internal |-> r.bundle.txid_internal,
     recipient     |-> Preimage(r).recipient,
     destination_token  |-> Preimage(r).destination_token,
     destination_amount |-> Preimage(r).destination_amount,
     amount_paid_sat |-> r.bundle.raw_tx.outputs[r.bundle.vout + 1].value_sat,
     block_height  |-> BlockHeight(Anchor(r).height, r.bundle.tx_block_index),
     confirmations |-> Confirmations(Len(Headers(r)), r.bundle.tx_block_index)]

-----------------------------------------------------------------------------
(* The defects of a request, stage by stage.  The defects of a stage make  *)
(* sense once the earlier stages have none.                                *)

If(wrong, reason) == IF wrong THEN {reason} ELSE {}

TxDefects(r) ==
    IF r.bundle.raw_tx = Malformed THEN {"BadTxEncoding"}
    ELSE If(Txid(r.bundle.raw_tx) # r.bundle.txid_internal, "TxidMismatch")

PreimageDefects(r) ==
    LET p == Preimage(r)
    IN  If(~(/\ p.quote_expires_at_l2 <= p.claim_deadline_l2
             /\ p.claim_deadline_l2 < p.reclaim_after_l2), "InvalidOrderParameters")
        \cup If(p.destination_amount > p.max_destination_amount_cap,
                "DestinationAmountCapExceeded")

WindowDefects(r) ==
    If(r.now_l2 >= Preimage(r).reclaim_after_l2, "ReclaimPhaseStarted")
    \cup If(r.now_l2 > Preimage(r).claim_deadline_l2, "ClaimExpired")

AnchorDefects(r) ==
    If(\/ Anchor(r) = Absent
       \/ Anchor(r).network # Preimage(r).btc_network
       \/ Anchor(r).height # r.bundle.checkpoint_height
       \/ Anchor(r).hash # r.bundle.checkpoint_hash, "InvalidCheckpointLinkage")

ChainDefects(r) ==
    LET hs   == Headers(r)
        bad  == {CheckPow(hs[k], Anchor(r).nbits) : k \in DOMAIN hs} \ {"ok"}
    IN  bad
        \cup If(\E k \in DOMAIN hs : hs[k].prev_block # Predecessor(r, k), "BrokenLinkage")
        \cup If(\/ hs = <<>>
                \/ ~Fits(Anchor(r).height + Len(hs))
                \/ r.bundle.claimed_tip_height # Anchor(r).height + Len(hs)
                \/ r.bundle.claimed_tip_hash # BlockHash(Last(hs)),
                "InvalidCheckpointLinkage")

PositionDefects(r) ==
    IF r.bundle.tx_block_index >= Len(Headers(r)) THEN {"InvalidCheckpointLinkage"}
    ELSE If(BlockHeight(Anchor(r).height, r.bundle.tx_block_index)
                > Preimage(r).max_btc_inclusion_height, "InclusionHeightExceeded")
         \cup If(Confirmations(Len(Headers(r)), r.bundle.tx_block_index)
                < Preimage(r).min_confirmations, "InsufficientDepth")

TipDefects(r) ==
    If(~ContainsCheckpoint(r.checkpoints, Preimage(r).btc_network,
                           r.bundle.claimed_tip_height, r.bundle.claimed_tip_hash),
       "InvalidCheckpointLinkage")

InclusionDefects(r) ==
    If(VerifyInclusion(r.bundle.txid_internal, r.bundle.merkle_proof,
                       Headers(r)[r.bundle.tx_block_index + 1].merkle_root) # "ok",
       "BadMerklePath")

BindingDefects(r) ==
    IF ~PaysOrder(r) THEN {"WrongScript"}
    ELSE If(r.bundle.raw_tx.outputs[r.bundle.vout + 1].value_sat < Preimage(r).amount_sat,
            "InsufficientAmount")

StageDefects(s, r) ==
    CASE s = 1 -> TxDefects(r)
      [] s = 2 -> PreimageDefects(r)
      [] s = 3 -> WindowDefects(r)
      [] s = 4 -> AnchorDefects(r)
      [] s = 5 -> ChainDefects(r)
      [] s = 6 -> PositionDefects(r)
      [] s = 7 -> TipDefects(r)
      [] s = 8 -> InclusionDefects(r)
      [] s = 9 -> BindingDefects(r)

Stages == 1..9

FaultlessBefore(s, r) == \A q \in 1..(s - 1) : StageDefects(q, r) = {}
Faultless(r)          == FaultlessBefore(10, r)

-----------------------------------------------------------------------------
OracleInit == req \in Requests /\ verdict = Pending

Settle == /\ Faultless(Contents[req])
          /\ verdict' = Settled(SettlementOf(Contents[req]))

Reject == \E s \in Stages : /\ FaultlessBefore(s, Contents[req])
                            /\ \E reason \in StageDefects(s, Contents[req]) :
                                    verdict' = Rejected(reason)

OracleNext == /\ verdict = Pending /\ verdict' # Pending
              /\ UNCHANGED req
              /\ Settle \/ Reject

OracleSpec == OracleInit /\ [][OracleNext]_oracleVars
=============================================================================
