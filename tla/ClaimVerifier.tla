---------------------------- MODULE ClaimVerifier ----------------------------
(***************************************************************************)
(* src/evaluate.rs and src/linkage.rs: evaluate_claim_bundle, one action   *)
(* per stage and one action per header of the linkage loop.                *)
(*                                                                         *)
(* A stage is an operator that names the first reason it finds, in the     *)
(* order of the code's checks, or "ok".  A deviation, which nothing else   *)
(* uses, is a slip one of the properties catches.                          *)
(***************************************************************************)
EXTENDS Bundle

VARIABLES
    pc,         \* the stage about to run
    req,        \* the request being evaluated
    i,          \* headers the linkage loop has accepted
    prevHash,   \* the hash the next header must point back to
    verdict     \* what the caller gets

vars == <<pc, req, i, prevHash, verdict>>

Oracle == INSTANCE ClaimOracle WITH req <- req, verdict <- verdict

Pending == Oracle!Pending

-----------------------------------------------------------------------------
(* The checks of each stage *)

\* Deviation: a parse error passed on without its catalogue reason.
VerifyTxidUncatalogued(b) ==
    IF b.raw_tx = Malformed THEN "unexpected end of input"
    ELSE IF Txid(b.raw_tx) # b.txid_internal THEN "TxidMismatch"
    ELSE "ok"

VerifyTxid(b) ==
    IF b.raw_tx = Malformed THEN "BadTxEncoding"
    ELSE IF Txid(b.raw_tx) # b.txid_internal THEN "TxidMismatch"
    ELSE "ok"

\* Deviation: the deadline excluded: > turned into >=.
CheckWindowShort(p, now) ==
    IF ValidatePreimage(p) # "ok" THEN ValidatePreimage(p)
    ELSE IF now >= p.reclaim_after_l2 THEN "ReclaimPhaseStarted"
    ELSE IF now >= p.claim_deadline_l2 THEN "ClaimExpired"
    ELSE "ok"

CheckWindow(p, now) ==
    IF ValidatePreimage(p) # "ok" THEN ValidatePreimage(p)
    ELSE IF now >= p.reclaim_after_l2 THEN "ReclaimPhaseStarted"
    ELSE IF now > p.claim_deadline_l2 THEN "ClaimExpired"
    ELSE "ok"

CheckAnchor(r) ==
    IF Anchor(r) = Absent THEN "InvalidCheckpointLinkage"
    ELSE IF Anchor(r).network # Preimage(r).btc_network THEN "InvalidCheckpointLinkage"
    ELSE IF \/ Anchor(r).height # r.bundle.checkpoint_height
            \/ Anchor(r).hash # r.bundle.checkpoint_hash THEN "InvalidCheckpointLinkage"
    ELSE IF Headers(r) = <<>> THEN "InvalidCheckpointLinkage"
    ELSE "ok"

\* Deviation: prev_block left unchecked.
CheckHeaderUnlinked(r, k, prev) ==
    IF ~Fits(Anchor(r).height + k) THEN "InvalidCheckpointLinkage"
    ELSE CheckPow(Headers(r)[k], Anchor(r).nbits)

\* Deviation: the header's own nBits trusted as its target (what P3 of pow.rs forbids).
CheckHeaderOwnTarget(r, k, prev) ==
    LET header == Headers(r)[k]
    IN  IF ~Fits(Anchor(r).height + k) THEN "InvalidCheckpointLinkage"
        ELSE IF CheckPow(header, header.nbits) # "ok" THEN "BadHeaderPoW"
        ELSE IF header.prev_block # prev THEN "BrokenLinkage"
        ELSE "ok"

\* The k-th header (from 1), against the hash of the one before it
CheckHeader(r, k, prev) ==
    LET header == Headers(r)[k]
        pow    == CheckPow(header, Anchor(r).nbits)
    IN  IF ~Fits(Anchor(r).height + k) THEN "InvalidCheckpointLinkage"
        ELSE IF pow # "ok" THEN pow
        ELSE IF header.prev_block # prev THEN "BrokenLinkage"
        ELSE "ok"

CheckClaimedTip(r, tipHash) ==
    LET derived == Anchor(r).height + Len(Headers(r))
    IN  IF ~Fits(derived) THEN "InvalidCheckpointLinkage"
        ELSE IF r.bundle.claimed_tip_height # derived THEN "InvalidCheckpointLinkage"
        ELSE IF r.bundle.claimed_tip_hash # tipHash THEN "InvalidCheckpointLinkage"
        ELSE "ok"

\* Deviation: the claimed tip never looked up in the registry.
CheckPositionAnyTip(r) ==
    LET index == r.bundle.tx_block_index
    IN  IF index >= Len(Headers(r)) THEN "InvalidCheckpointLinkage"
        ELSE IF ~Fits(BlockHeight(Anchor(r).height, index)) THEN "InvalidCheckpointLinkage"
        ELSE IF BlockHeight(Anchor(r).height, index) > Preimage(r).max_btc_inclusion_height
        THEN "InclusionHeightExceeded"
        ELSE IF Confirmations(Len(Headers(r)), index) < Preimage(r).min_confirmations
        THEN "InsufficientDepth"
        ELSE "ok"

CheckPosition(r) ==
    LET index == r.bundle.tx_block_index
    IN  IF index >= Len(Headers(r)) THEN "InvalidCheckpointLinkage"
        ELSE IF ~Fits(BlockHeight(Anchor(r).height, index)) THEN "InvalidCheckpointLinkage"
        ELSE IF BlockHeight(Anchor(r).height, index) > Preimage(r).max_btc_inclusion_height
        THEN "InclusionHeightExceeded"
        ELSE IF Confirmations(Len(Headers(r)), index) < Preimage(r).min_confirmations
        THEN "InsufficientDepth"
        ELSE IF ~ContainsCheckpoint(r.checkpoints, Anchor(r).network,
                                    r.bundle.claimed_tip_height, r.bundle.claimed_tip_hash)
        THEN "InvalidCheckpointLinkage"
        ELSE "ok"

CheckInclusion(r) ==
    IF VerifyInclusion(r.bundle.txid_internal, r.bundle.merkle_proof,
                       Headers(r)[r.bundle.tx_block_index + 1].merkle_root) # "ok"
    THEN "BadMerklePath" ELSE "ok"

\* Deviation: the output's amount checked, but not its script.
CheckBindingAnyScript(r) ==
    LET script == DeriveScript(Preimage(r), r.keys)
        outs   == r.bundle.raw_tx.outputs
    IN  IF \/ OrderId(Preimage(r)) # r.bundle.order.order_id
           \/ script = Absent
           \/ Commitment(script) # r.bundle.order.btc_script_pubkey_commitment
           \/ r.bundle.vout >= Len(outs)
        THEN "WrongScript"
        ELSE IF outs[r.bundle.vout + 1].value_sat < Preimage(r).amount_sat
        THEN "InsufficientAmount"
        ELSE "ok"

CheckBinding(r) ==
    LET script == DeriveScript(Preimage(r), r.keys)
        outs   == r.bundle.raw_tx.outputs
        out    == outs[r.bundle.vout + 1]
    IN  IF OrderId(Preimage(r)) # r.bundle.order.order_id THEN "WrongScript"
        ELSE IF script = Absent THEN "WrongScript"
        ELSE IF Commitment(script) # r.bundle.order.btc_script_pubkey_commitment
        THEN "WrongScript"
        ELSE IF r.bundle.vout >= Len(outs) THEN "WrongScript"
        ELSE IF out.script_pubkey # script THEN "WrongScript"
        ELSE IF out.value_sat < Preimage(r).amount_sat THEN "InsufficientAmount"
        ELSE "ok"

\* Deviation: confirmations counted without the block of the payment.
SettlementOfShallow(r) ==
    [order_id           |-> r.bundle.order.order_id,
     txid_internal      |-> r.bundle.txid_internal,
     recipient          |-> Preimage(r).recipient,
     destination_token  |-> Preimage(r).destination_token,
     destination_amount |-> Preimage(r).destination_amount,
     amount_paid_sat    |-> r.bundle.raw_tx.outputs[r.bundle.vout + 1].value_sat,
     block_height       |-> BlockHeight(Anchor(r).height, r.bundle.tx_block_index),
     confirmations      |-> Confirmations(Len(Headers(r)), r.bundle.tx_block_index) - 1]

SettlementOf(r) ==
    LET p == Preimage(r)
    IN  [order_id           |-> r.bundle.order.order_id,
         txid_internal      |-> r.bundle.txid_internal,
         recipient          |-> p.recipient,
         destination_token  |-> p.destination_token,
         destination_amount |-> p.destination_amount,
         amount_paid_sat    |-> r.bundle.raw_tx.outputs[r.bundle.vout + 1].value_sat,
         block_height       |-> BlockHeight(Anchor(r).height, r.bundle.tx_block_index),
         confirmations      |-> Confirmations(Len(Headers(r)), r.bundle.tx_block_index)]

-----------------------------------------------------------------------------
(* evaluate_claim_bundle *)

request == Contents[req]

Init == /\ pc = "tx"
        /\ req \in Requests
        /\ i = 0
        /\ prevHash = Absent
        /\ verdict = Pending

\* `?` : go on to the next stage, or return the reason
Try(here, reason, next) ==
    /\ pc = here
    /\ IF reason = "ok" THEN pc' = next /\ UNCHANGED verdict
                        ELSE pc' = "done" /\ verdict' = Oracle!Rejected(reason)
    /\ UNCHANGED req

VerifyTx == Try("tx", VerifyTxid(request.bundle), "window") /\ UNCHANGED <<i, prevHash>>

ValidateOrder ==
    /\ Try("window", CheckWindow(Preimage(request), request.now_l2), "anchor")
    /\ UNCHANGED <<i, prevHash>>

ResolveAnchor == /\ Try("anchor", CheckAnchor(request), "headers")
                 /\ prevHash' = IF CheckAnchor(request) = "ok" THEN Anchor(request).hash ELSE prevHash
                 /\ UNCHANGED i

LinkHeader ==
    /\ i < Len(Headers(request))
    /\ Try("headers", CheckHeader(request, i + 1, prevHash), "headers")
    /\ IF CheckHeader(request, i + 1, prevHash) = "ok"
       THEN i' = i + 1 /\ prevHash' = BlockHash(Headers(request)[i + 1])
       ELSE UNCHANGED <<i, prevHash>>

MatchTip == /\ i = Len(Headers(request))
            /\ Try("headers", CheckClaimedTip(request, prevHash), "position")
            /\ UNCHANGED <<i, prevHash>>

LocateBlock == Try("position", CheckPosition(request), "inclusion") /\ UNCHANGED <<i, prevHash>>

ProveInclusion == Try("inclusion", CheckInclusion(request), "binding") /\ UNCHANGED <<i, prevHash>>

BindOutput ==
    /\ pc = "binding"
    /\ pc' = "done"
    /\ verdict' = IF CheckBinding(request) = "ok" THEN Oracle!Settled(SettlementOf(request))
                                              ELSE Oracle!Rejected(CheckBinding(request))
    /\ UNCHANGED <<req, i, prevHash>>

\* The call has returned; an evaluation stuck anywhere else is a deadlock.
Returned == pc = "done" /\ UNCHANGED vars

Next == \/ VerifyTx   \/ ValidateOrder \/ ResolveAnchor  \/ LinkHeader
        \/ MatchTip   \/ LocateBlock   \/ ProveInclusion \/ BindOutput
        \/ Returned

Spec == Init /\ [][Next]_vars

-----------------------------------------------------------------------------
(* Properties *)

ChallengeReason ==
    {"InvalidOrderParameters", "ClaimExpired", "ReclaimPhaseStarted",
     "InvalidCheckpointLinkage", "InclusionHeightExceeded",
     "DestinationAmountCapExceeded", "BadTxEncoding", "TxidMismatch",
     "BadMerklePath", "WrongScript", "InsufficientAmount", "BadHeaderPoW",
     "InvalidTarget", "BrokenLinkage", "InsufficientDepth"}

IsSettled == verdict.kind = "settled"

\* Every rejection carries a reason of the submissible catalogue (C8 of
\* reason.rs), and the other variables stay within their types.
TypeOK ==
    /\ pc \in {"tx", "window", "anchor", "headers", "position", "inclusion",
               "binding", "done"}
    /\ req \in Requests
    /\ i \in 0..Len(Headers(request))
    /\ \/ verdict = Pending
       \/ \E reason \in ChallengeReason : verdict = Oracle!Rejected(reason)
       \/ verdict.kind = "settled" /\ verdict = Oracle!Settled(SettlementOf(request))

\* The first n headers all carry the checkpoint's work and hang together,
\* down from the checkpoint itself.
Linked(r, n) ==
    \A k \in 1..n :
        /\ CheckPow(Headers(r)[k], Anchor(r).nbits) = "ok"
        /\ Headers(r)[k].prev_block = Predecessor(r, k)

\* A settlement rests on a chain verified end to end: every header from the
\* checkpoint to the claimed tip has its work and its parent, the tip is the
\* one the bundle claims at the counted height, the registry accepts both
\* ends, and the claim is not past its deadline (linkage.rs, evaluate.rs).
SettlementSound ==
    IsSettled =>
        LET r == request  n == Len(Headers(r))  p == Preimage(r) IN
        /\ n > 0 /\ Linked(r, n)
        /\ r.bundle.claimed_tip_hash = BlockHash(Headers(r)[n])
        /\ r.bundle.claimed_tip_height = Anchor(r).height + n
        /\ ContainsCheckpoint(r.checkpoints, p.btc_network,
                              r.bundle.claimed_tip_height, r.bundle.claimed_tip_hash)
        /\ r.now_l2 <= p.claim_deadline_l2
        /\ PaysOrder(r)

\* Heights are derived by counting and never wrap a u32 (P5/C6 of linkage.rs):
\* the block of the payment, its confirmations and the accepted tip agree, and
\* they meet the order's bounds.
HeightArithmetic ==
    IsSettled =>
        LET s == verdict.settlement  p == Preimage(request) IN
        /\ s.block_height \in U32 /\ s.block_height > Anchor(request).height
        /\ s.confirmations \in U32 /\ s.confirmations >= 1
        /\ s.block_height + s.confirmations = request.bundle.claimed_tip_height + 1
        /\ s.block_height <= p.max_btc_inclusion_height
        /\ s.confirmations >= p.min_confirmations

\* The loop of verify_header_chain: the accepted headers are linked, fit their
\* heights in a u32 and end in prevHash; once the evaluation is past the loop
\* that holds of the whole chain.
LoopInvariant ==
    /\ pc = "headers" =>
        /\ Linked(request, i)
        /\ prevHash = Predecessor(request, i + 1)
        /\ i > 0 => Fits(Anchor(request).height + i)
    /\ pc \in {"position", "inclusion", "binding"} =>
        /\ i = Len(Headers(request)) /\ Linked(request, i)
        /\ prevHash = BlockHash(Headers(request)[i])

\* The requests an evaluation may settle.
Settleable == {q \in Requests : Oracle!Faultless(Contents[q])}

\* What a script keeps of an order_id: 31 bits of each of its two digests.
SamePath(a, b) ==
    \A suffix \in {0, 1} :
        U31(Sha256([id |-> a, suffix |-> suffix])) = U31(Sha256([id |-> b, suffix |-> suffix]))

\* The key a request's order is paid to.
SolverKey(r) == Resolve(r.keys, Preimage(r).solver_btc_key_id)

\* An output pays one key by one path (order.rs:112-156): whatever order it
\* settles, another request that would settle with the same txid and vout is
\* about the same solver's key, and about the same order unless two order_ids
\* agree in both times 31 bits.  Then, and only then, one output settles two.
OneOutputOnePath ==
    IsSettled =>
        \A q \in Settleable :
            LET other == Contents[q] IN
            (/\ other.bundle.txid_internal = request.bundle.txid_internal
             /\ other.bundle.vout = request.bundle.vout)
            => /\ SolverKey(other) = SolverKey(request)
               /\ SamePath(other.bundle.order.order_id, verdict.settlement.order_id)

\* The evaluation implements the declarative oracle: it settles exactly the
\* requests nothing is wrong with, and blames the first defective stage.
RefinesOracle == Oracle!OracleSpec

-----------------------------------------------------------------------------
(* What the documentation says of the order of adjudication *)

\* ChallengeReason::ALL (reason.rs)
Catalogue ==
    <<"BadTxEncoding", "TxidMismatch", "InvalidOrderParameters", "ClaimExpired",
      "ReclaimPhaseStarted", "InvalidTarget", "BadHeaderPoW", "BrokenLinkage",
      "InvalidCheckpointLinkage", "InclusionHeightExceeded",
      "DestinationAmountCapExceeded", "InsufficientDepth", "BadMerklePath",
      "WrongScript", "InsufficientAmount">>

Place(reason) == CHOOSE k \in DOMAIN Catalogue : Catalogue[k] = reason

\* reason.rs:54 calls the catalogue's order the order of evaluation: of the
\* reasons a stage could give, the reported one comes first in the catalogue.
CatalogueOrder ==
    verdict.kind = "rejected" =>
        \A s \in Oracle!Stages :
            (/\ Oracle!FaultlessBefore(s, request)
             /\ verdict.reason \in Oracle!StageDefects(s, request)) =>
                \A other \in Oracle!StageDefects(s, request) :
                    Place(verdict.reason) <= Place(other)
=============================================================================
