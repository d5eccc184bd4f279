------------------------- MODULE ClaimVerifierProofs -------------------------
(***************************************************************************)
(* ClaimVerifier's invariants and its refinement of ClaimOracle, for every *)
(* set of requests, every registry and every hash function.                *)
(***************************************************************************)
EXTENDS ClaimVerifier, SequenceTheorems, TLAPS

-----------------------------------------------------------------------------
(* Requests *)

\* A vector has a length, and only the empty one has length 0.
LEMMA SeqLength ==
    ASSUME NEW s, IsVector(s)
    PROVE  Len(s) \in Nat /\ (s # <<>> => Len(s) > 0)
<1> DEFINE S == {s[k] : k \in DOMAIN s}
<1>1. s \in Seq(S)
    <2>1. \A k \in 1..Len(s) : s[k] \in S
        BY DEF IsVector
    <2> HIDE DEF S
    <2> QED BY <2>1 DEF IsVector
<1> HIDE DEF S
<1>2. Len(s) \in Nat
    BY <1>1, LenProperties
<1>3. s # <<>> => Len(s) > 0
    BY <1>1, EmptySeq
<1> QED BY <1>2, <1>3

\* The heights, positions and times of a request are numbers, and its headers
\* and outputs can be counted.
LEMMA RequestNumbers ==
    ASSUME NEW q \in Requests
    PROVE  LET r == Contents[q] IN
           /\ {r.bundle.checkpoint_height, r.bundle.claimed_tip_height,
               r.bundle.tx_block_index, r.bundle.vout,
               Preimage(r).max_btc_inclusion_height,
               Preimage(r).min_confirmations} \subseteq U32
           /\ {r.now_l2, Preimage(r).quote_expires_at_l2, Preimage(r).claim_deadline_l2,
               Preimage(r).reclaim_after_l2} \subseteq Nat
           /\ Len(Headers(r)) \in Nat
           /\ Headers(r) # <<>> => Len(Headers(r)) > 0
           /\ r.bundle.raw_tx # Malformed => Len(r.bundle.raw_tx.outputs) \in Nat
<1>1. RequestOk(Contents[q])
    BY RequestsAssumption
<1>2. IsVector(Headers(Contents[q]))
    BY <1>1 DEF RequestOk
<1>3. /\ Len(Headers(Contents[q])) \in Nat
      /\ Headers(Contents[q]) # <<>> => Len(Headers(Contents[q])) > 0
    BY <1>2, SeqLength
<1>4. ASSUME Contents[q].bundle.raw_tx # Malformed
      PROVE  Len(Contents[q].bundle.raw_tx.outputs) \in Nat
    BY <1>1, <1>4, SeqLength DEF RequestOk
<1> QED BY <1>1, <1>3, <1>4 DEF RequestOk

\* A u32 is a number.
LEMMA U32IsNat == U32 \subseteq Nat
BY MaxU32Assumption DEF U32

-----------------------------------------------------------------------------
(* Each check answers "ok" or a reason of the catalogue. *)

Answers == ChallengeReason \cup {"ok"}

\* The transaction stage (evaluate.rs:136) fails with a catalogue reason only.
LEMMA VerifyTxidAnswers == ASSUME NEW b PROVE VerifyTxid(b) \in Answers
BY DEF VerifyTxid, Answers, ChallengeReason

\* So do the order's parameters and window (evaluate.rs:139-146),
LEMMA CheckWindowAnswers == ASSUME NEW p, NEW now PROVE CheckWindow(p, now) \in Answers
<1>1. ValidatePreimage(p) \in Answers
    BY DEF ValidatePreimage, Answers, ChallengeReason
<1> QED BY <1>1 DEF CheckWindow, Answers, ChallengeReason

\* the lookup of the checkpoint (evaluate.rs:147-162, linkage.rs:47-49),
LEMMA CheckAnchorAnswers == ASSUME NEW r PROVE CheckAnchor(r) \in Answers
BY DEF CheckAnchor, Answers, ChallengeReason

\* each turn of the loop over the headers (linkage.rs:51-68),
LEMMA CheckHeaderAnswers ==
    ASSUME NEW r, NEW k, NEW prev PROVE CheckHeader(r, k, prev) \in Answers
<1>1. CheckPow(Headers(r)[k], Anchor(r).nbits) \in Answers
    BY DEF CheckPow, Answers, ChallengeReason
<1> QED BY <1>1 DEF CheckHeader, Answers, ChallengeReason

\* the comparison with the claimed tip (linkage.rs:70-86),
LEMMA CheckClaimedTipAnswers ==
    ASSUME NEW r, NEW h PROVE CheckClaimedTip(r, h) \in Answers
BY DEF CheckClaimedTip, Answers, ChallengeReason

\* the position of the block and its depth (evaluate.rs:171-187),
LEMMA CheckPositionAnswers == ASSUME NEW r PROVE CheckPosition(r) \in Answers
BY DEF CheckPosition, Answers, ChallengeReason

\* the Merkle proof (evaluate.rs:190-198)
LEMMA CheckInclusionAnswers == ASSUME NEW r PROVE CheckInclusion(r) \in Answers
BY DEF CheckInclusion, Answers, ChallengeReason

\* and the binding of the output to the order (evaluate.rs:202-222).
LEMMA CheckBindingAnswers == ASSUME NEW r PROVE CheckBinding(r) \in Answers
BY DEF CheckBinding, Answers, ChallengeReason

-----------------------------------------------------------------------------
(* What a check that answers "ok" has established. *)

\* An accepted header has the checkpoint's work, the parent and a u32 height.
LEMMA HeaderChecked ==
    ASSUME NEW r, NEW k, NEW prev, CheckHeader(r, k, prev) = "ok"
    PROVE  /\ CheckPow(Headers(r)[k], Anchor(r).nbits) = "ok"
           /\ Headers(r)[k].prev_block = prev
           /\ Fits(Anchor(r).height + k)
BY DEF CheckHeader

\* An accepted anchor is on the order's network at the bundle's height, and the
\* chain above it is not empty.
LEMMA AnchorChecked ==
    ASSUME NEW r, CheckAnchor(r) = "ok"
    PROVE  /\ Anchor(r).network = Preimage(r).btc_network
           /\ Anchor(r).height = r.bundle.checkpoint_height
           /\ Headers(r) # <<>>
BY DEF CheckAnchor

\* An accepted tip is the last header, at the counted height.
LEMMA TipChecked ==
    ASSUME NEW r, NEW h, CheckClaimedTip(r, h) = "ok"
    PROVE  /\ r.bundle.claimed_tip_height = Anchor(r).height + Len(Headers(r))
           /\ r.bundle.claimed_tip_hash = h
BY DEF CheckClaimedTip

\* An accepted position is inside the chain and meets both bounds of the order,
\* below a tip the registry knows.
LEMMA PositionChecked ==
    ASSUME NEW r, CheckPosition(r) = "ok"
    PROVE  /\ ~(r.bundle.tx_block_index >= Len(Headers(r)))
           /\ Fits(BlockHeight(Anchor(r).height, r.bundle.tx_block_index))
           /\ ~(BlockHeight(Anchor(r).height, r.bundle.tx_block_index)
                    > Preimage(r).max_btc_inclusion_height)
           /\ ~(Confirmations(Len(Headers(r)), r.bundle.tx_block_index)
                    < Preimage(r).min_confirmations)
           /\ ContainsCheckpoint(r.checkpoints, Anchor(r).network,
                                 r.bundle.claimed_tip_height, r.bundle.claimed_tip_hash)
BY DEF CheckPosition

\* In a request the clock and the order's times are numbers, but only their
\* comparison matters here.
LEMMA WindowChecked ==
    ASSUME NEW p, NEW now, CheckWindow(p, now) = "ok"
    PROVE  ~(now > p.claim_deadline_l2)
<1>1. ValidatePreimage(p) = "ok"
    BY DEF CheckWindow
<1> QED BY <1>1 DEF CheckWindow

\* An accepted output exists and carries the script derived from the order.
LEMMA BindingChecked ==
    ASSUME NEW r, CheckBinding(r) = "ok"
    PROVE  /\ OrderId(Preimage(r)) = r.bundle.order.order_id
           /\ DeriveScript(Preimage(r), r.keys) # Absent
           /\ Commitment(DeriveScript(Preimage(r), r.keys))
                    = r.bundle.order.btc_script_pubkey_commitment
           /\ ~(r.bundle.vout >= Len(r.bundle.raw_tx.outputs))
           /\ r.bundle.raw_tx.outputs[r.bundle.vout + 1].script_pubkey
                    = DeriveScript(Preimage(r), r.keys)
BY DEF CheckBinding

-----------------------------------------------------------------------------
(* The inductive invariant: what each stage checked still holds of the     *)
(* request, whatever stage the evaluation has reached, until it is settled *)
(* or rejected.                                                            *)

Past(later) == pc \in later \/ IsSettled

ChainChecked == /\ i = Len(Headers(request))
                /\ Linked(request, i)
                /\ prevHash = BlockHash(Headers(request)[i])

IInv ==
    /\ TypeOK
    /\ pc # "done" => verdict = Pending
    /\ pc \in {"tx", "window", "anchor"} => i = 0
    /\ LoopInvariant
    /\ Past({"window", "anchor", "headers", "position", "inclusion", "binding"})
        => VerifyTxid(request.bundle) = "ok"
    /\ Past({"anchor", "headers", "position", "inclusion", "binding"})
        => CheckWindow(Preimage(request), request.now_l2) = "ok"
    /\ Past({"headers", "position", "inclusion", "binding"})
        => CheckAnchor(request) = "ok"
    /\ Past({"position", "inclusion", "binding"})
        => ChainChecked /\ CheckClaimedTip(request, prevHash) = "ok"
    /\ Past({"inclusion", "binding"}) => CheckPosition(request) = "ok"
    /\ Past({"binding"}) => CheckInclusion(request) = "ok"
    /\ IsSettled => CheckBinding(request) = "ok"

\* The three kinds of verdict differ.
LEMMA Verdicts ==
    ASSUME NEW reason, NEW s
    PROVE  /\ Pending.kind = "pending"
           /\ Oracle!Rejected(reason).kind = "rejected"
           /\ Oracle!Settled(s).kind = "settled"
BY DEF Pending, Oracle!Pending, Oracle!Rejected, Oracle!Settled

\* No evaluation starts with anything found.
LEMMA InitIInv == Init => IInv
<1> SUFFICES ASSUME Init PROVE IInv
    OBVIOUS
<1>1. ~IsSettled
    BY Verdicts DEF Init, IsSettled
<1>2. TypeOK
    BY RequestNumbers DEF Init, TypeOK, request
<1> QED BY <1>1, <1>2 DEF Init, IInv, Past, LoopInvariant

\* A stage that tries a check and goes on has found it "ok"; one that returns
\* has left a reason of the catalogue.
LEMMA TryStep ==
    ASSUME NEW here, NEW reason, NEW next, Try(here, reason, next),
           reason \in Answers, here # "done", IInv
    PROVE  /\ pc = here /\ verdict = Pending /\ req' = req
           /\ \/ reason = "ok" /\ pc' = next /\ verdict' = Pending
              \/ /\ pc' = "done"
                 /\ \E why \in ChallengeReason : verdict' = Oracle!Rejected(why)
           /\ ~IsSettled /\ ~IsSettled'
BY Verdicts DEF Try, Answers, IInv, IsSettled

\* Returning a reason leaves nothing to hold of the request any more.
LEMMA RejectStep ==
    ASSUME IInv, NEW why \in ChallengeReason,
           pc' = "done", verdict' = Oracle!Rejected(why),
           UNCHANGED <<req, i, prevHash>>
    PROVE  IInv'
<1>1. ~IsSettled'
    BY Verdicts DEF IsSettled
<1>2. TypeOK'
    BY DEF IInv, TypeOK, request
<1> QED BY <1>1, <1>2 DEF IInv, Past, LoopInvariant

\* The header the loop accepts extends the linked prefix by one.
LEMMA LinkedStep ==
    ASSUME NEW r, NEW n \in Nat, Linked(r, n),
           CheckHeader(r, n + 1, Predecessor(r, n + 1)) = "ok"
    PROVE  Linked(r, n + 1)
<1> SUFFICES ASSUME NEW k \in 1..(n + 1)
             PROVE  /\ CheckPow(Headers(r)[k], Anchor(r).nbits) = "ok"
                    /\ Headers(r)[k].prev_block = Predecessor(r, k)
    BY DEF Linked
<1>1. CASE k = n + 1
    BY <1>1, HeaderChecked
<1>2. CASE k # n + 1
    <2>1. k \in 1..n
        BY <1>2
    <2> QED BY <2>1 DEF Linked
<1> QED BY <1>1, <1>2

\* Every step keeps the inductive invariant.
LEMMA NextIInv == IInv /\ [Next]_vars => IInv'
<1> SUFFICES ASSUME IInv, [Next]_vars PROVE IInv'
    OBVIOUS
<1>type. TypeOK /\ req \in Requests
    BY DEF IInv, TypeOK
<1>1. CASE VerifyTx
    <2>1. Try("tx", VerifyTxid(request.bundle), "window") /\ UNCHANGED <<i, prevHash>>
        BY <1>1 DEF VerifyTx
    <2>2. CASE VerifyTxid(request.bundle) = "ok" /\ pc' = "window" /\ verdict' = Pending
        <3>1. pc = "tx" /\ req' = req /\ ~IsSettled'
            BY <2>1, VerifyTxidAnswers, TryStep
        <3>2. TypeOK'
            BY <1>type, <2>1, <2>2, <3>1 DEF TypeOK, request
        <3> QED BY <2>1, <2>2, <3>1, <3>2 DEF IInv, Past, LoopInvariant, request
    <2> QED BY <2>1, <2>2, VerifyTxidAnswers, TryStep, RejectStep
<1>2. CASE ValidateOrder
    <2> DEFINE answer == CheckWindow(Preimage(request), request.now_l2)
    <2>1. Try("window", answer, "anchor") /\ UNCHANGED <<i, prevHash>>
        BY <1>2 DEF ValidateOrder
    <2>2. answer \in Answers
        BY CheckWindowAnswers
    <2>3. CASE answer = "ok" /\ pc' = "anchor" /\ verdict' = Pending
        <3>1. pc = "window" /\ req' = req /\ ~IsSettled'
            BY <2>1, <2>2, TryStep
        <3>2. TypeOK'
            BY <1>type, <2>1, <2>3, <3>1 DEF TypeOK, request
        <3> QED BY <2>1, <2>3, <3>1, <3>2 DEF IInv, Past, LoopInvariant, request
    <2> QED BY <2>1, <2>2, <2>3, TryStep, RejectStep
<1>3. CASE ResolveAnchor
    <2>1. Try("anchor", CheckAnchor(request), "headers") /\ UNCHANGED i
        BY <1>3 DEF ResolveAnchor
    <2>2. CASE CheckAnchor(request) = "ok" /\ pc' = "headers" /\ verdict' = Pending
        <3>1. pc = "anchor" /\ req' = req /\ ~IsSettled'
            BY <2>1, CheckAnchorAnswers, TryStep
        <3>2. TypeOK'
            BY <1>type, <2>1, <2>2, <3>1 DEF TypeOK, request
        <3>3. i = 0 /\ prevHash' = Anchor(request).hash
            BY <1>3, <2>2, <3>1 DEF IInv, ResolveAnchor
        <3>4. LoopInvariant'
            BY <2>1, <2>2, <3>1, <3>3 DEF LoopInvariant, Linked, Predecessor, request
        <3> QED BY <2>1, <2>2, <3>1, <3>2, <3>4 DEF IInv, Past, request
    <2>3. CASE pc' = "done" /\ \E why \in ChallengeReason : verdict' = Oracle!Rejected(why)
        <3>1. CheckAnchor(request) # "ok"
            BY <2>1, <2>3 DEF Try
        <3> QED BY <1>3, <2>1, <2>3, <3>1, CheckAnchorAnswers, TryStep, RejectStep
                DEF ResolveAnchor
    <2> QED BY <2>1, <2>2, <2>3, CheckAnchorAnswers, TryStep
<1>4. CASE LinkHeader
    <2> DEFINE answer == CheckHeader(request, i + 1, prevHash)
    <2>1. Try("headers", answer, "headers") /\ i < Len(Headers(request))
        BY <1>4 DEF LinkHeader
    <2>2. answer \in Answers
        BY CheckHeaderAnswers
    <2>3. pc = "headers" /\ req' = req /\ ~IsSettled'
        BY <2>1, <2>2, TryStep
    <2>4. CASE answer = "ok" /\ pc' = "headers" /\ verdict' = Pending
        <3>1. i' = i + 1 /\ prevHash' = BlockHash(Headers(request)[i + 1])
            BY <1>4, <2>4 DEF LinkHeader
        <3>2. i \in Nat /\ i + 1 \in 0..Len(Headers(request))
            BY <1>type, <2>1, RequestNumbers DEF TypeOK, request
        <3>3. TypeOK'
            BY <1>type, <2>3, <2>4, <3>1, <3>2 DEF TypeOK, request
        <3>4. Linked(request, i) /\ prevHash = Predecessor(request, i + 1)
            BY <2>3 DEF IInv, LoopInvariant
        <3>5. Linked(request, i + 1)
            BY <2>4, <3>2, <3>4, LinkedStep
        <3>6. prevHash' = Predecessor(request, i + 1 + 1)
            BY <3>1, <3>2 DEF Predecessor
        <3>7. Fits(Anchor(request).height + (i + 1))
            BY <2>4, HeaderChecked
        <3>8. LoopInvariant'
            BY <2>3, <2>4, <3>1, <3>5, <3>6, <3>7 DEF LoopInvariant, request
        <3> QED BY <2>3, <2>4, <3>3, <3>8 DEF IInv, Past, request
    <2>5. CASE pc' = "done" /\ \E why \in ChallengeReason : verdict' = Oracle!Rejected(why)
        <3>1. answer # "ok"
            BY <2>1, <2>5 DEF Try
        <3>2. UNCHANGED <<i, prevHash>>
            BY <1>4, <3>1 DEF LinkHeader
        <3> QED BY <2>3, <2>5, <3>2, RejectStep
    <2> QED BY <2>1, <2>2, <2>4, <2>5, TryStep
<1>5. CASE MatchTip
    <2> DEFINE answer == CheckClaimedTip(request, prevHash)
    <2>1. /\ Try("headers", answer, "position") /\ i = Len(Headers(request))
          /\ UNCHANGED <<i, prevHash>>
        BY <1>5 DEF MatchTip
    <2>2. answer \in Answers
        BY CheckClaimedTipAnswers
    <2>3. CASE answer = "ok" /\ pc' = "position" /\ verdict' = Pending
        <3>1. pc = "headers" /\ req' = req /\ ~IsSettled'
            BY <2>1, <2>2, TryStep
        <3>2. TypeOK'
            BY <1>type, <2>1, <2>3, <3>1 DEF TypeOK, request
        <3>3. /\ CheckAnchor(request) = "ok" /\ Linked(request, i)
              /\ prevHash = Predecessor(request, i + 1)
            BY <3>1 DEF IInv, Past, LoopInvariant
        <3>4. i \in Nat /\ i > 0
            BY <1>type, <2>1, <3>3, AnchorChecked, RequestNumbers DEF request
        <3>5. prevHash = BlockHash(Headers(request)[i])
            BY <3>3, <3>4 DEF Predecessor
        <3>6. ChainChecked' /\ LoopInvariant'
            BY <2>1, <2>3, <3>1, <3>3, <3>5 DEF ChainChecked, LoopInvariant, request
        <3> QED BY <2>1, <2>3, <3>1, <3>2, <3>6 DEF IInv, Past, request
    <2> QED BY <2>1, <2>2, <2>3, TryStep, RejectStep
<1>6. CASE LocateBlock
    <2>1. Try("position", CheckPosition(request), "inclusion") /\ UNCHANGED <<i, prevHash>>
        BY <1>6 DEF LocateBlock
    <2>2. CASE CheckPosition(request) = "ok" /\ pc' = "inclusion" /\ verdict' = Pending
        <3>1. pc = "position" /\ req' = req /\ ~IsSettled'
            BY <2>1, CheckPositionAnswers, TryStep
        <3>2. TypeOK'
            BY <1>type, <2>1, <2>2, <3>1 DEF TypeOK, request
        <3> QED BY <2>1, <2>2, <3>1, <3>2
                DEF IInv, Past, LoopInvariant, ChainChecked, request
    <2> QED BY <2>1, <2>2, CheckPositionAnswers, TryStep, RejectStep
<1>7. CASE ProveInclusion
    <2>1. Try("inclusion", CheckInclusion(request), "binding") /\ UNCHANGED <<i, prevHash>>
        BY <1>7 DEF ProveInclusion
    <2>2. CASE CheckInclusion(request) = "ok" /\ pc' = "binding" /\ verdict' = Pending
        <3>1. pc = "inclusion" /\ req' = req /\ ~IsSettled'
            BY <2>1, CheckInclusionAnswers, TryStep
        <3>2. TypeOK'
            BY <1>type, <2>1, <2>2, <3>1 DEF TypeOK, request
        <3> QED BY <2>1, <2>2, <3>1, <3>2
                DEF IInv, Past, LoopInvariant, ChainChecked, request
    <2> QED BY <2>1, <2>2, CheckInclusionAnswers, TryStep, RejectStep
<1>8. CASE BindOutput
    <2>1. /\ pc = "binding" /\ pc' = "done" /\ UNCHANGED <<req, i, prevHash>>
          /\ verdict' = IF CheckBinding(request) = "ok"
                        THEN Oracle!Settled(SettlementOf(request))
                        ELSE Oracle!Rejected(CheckBinding(request))
        BY <1>8 DEF BindOutput
    <2>2. CASE CheckBinding(request) = "ok"
        <3>1. verdict' = Oracle!Settled(SettlementOf(request)) /\ verdict'.kind = "settled"
            BY <2>1, <2>2 DEF Oracle!Settled
        <3>2. TypeOK'
            BY <1>type, <2>1, <3>1 DEF TypeOK, request
        <3> QED BY <2>1, <2>2, <3>2 DEF IInv, Past, LoopInvariant, ChainChecked, request
    <2>3. CASE CheckBinding(request) # "ok"
        <3>1. CheckBinding(request) \in ChallengeReason
            BY <2>3, CheckBindingAnswers DEF Answers
        <3> QED BY <2>1, <2>3, <3>1, RejectStep
    <2> QED BY <2>2, <2>3
<1>9. CASE UNCHANGED vars
    BY <1>9 DEF vars, IInv, TypeOK, LoopInvariant, Past, ChainChecked, IsSettled, request
<1> QED BY <1>1, <1>2, <1>3, <1>4, <1>5, <1>6, <1>7, <1>8, <1>9 DEF Next, Returned

\* The evaluation returns a verdict: it never ends with none (evaluate.rs:123-234).
LEMMA EndsWithVerdict ==
    ASSUME Next, pc # "done", pc' = "done"
    PROVE  verdict' # Pending
<1>1. ASSUME NEW here, NEW reason, NEW next, next # "done", Try(here, reason, next)
      PROVE  verdict' # Pending
    <2>1. verdict' = Oracle!Rejected(reason)
        BY <1>1 DEF Try
    <2> QED BY <2>1, Verdicts
<1>2. CASE BindOutput
    BY <1>2, Verdicts DEF BindOutput
<1>3. CASE Returned
    BY <1>3 DEF Returned
<1> QED BY <1>1, <1>2, <1>3 DEF Next, VerifyTx, ValidateOrder, ResolveAnchor, LinkHeader,
                                MatchTip, LocateBlock, ProveInclusion

-----------------------------------------------------------------------------
(* Theorems *)

\* In every state of every evaluation, what the passed stages checked holds.
THEOREM Invariance == Spec => []IInv
BY InitIInv, NextIInv, PTL DEF Spec

\* A rejection carries a reason of the submissible catalogue, a settlement is
\* the settlement of the request (reason.rs, evaluate.rs).
THEOREM TypeCorrect == Spec => []TypeOK
<1>1. IInv => TypeOK
    BY DEF IInv
<1> QED BY <1>1, Invariance, PTL

\* The loop of verify_header_chain only ever accepts a linked prefix with the
\* checkpoint's work, for any chain and any registry (linkage.rs:51-68).
THEOREM LoopCorrect == Spec => []LoopInvariant
<1>1. IInv => LoopInvariant
    BY DEF IInv
<1> QED BY <1>1, Invariance, PTL

\* A settlement has passed every stage.
LEMMA SoundInIInv == IInv => SettlementSound
<1>1. ASSUME IInv, IsSettled PROVE SettlementSound
    <2> DEFINE r == request  n == Len(Headers(r))
    <2>1. /\ VerifyTxid(r.bundle) = "ok"
          /\ CheckWindow(Preimage(r), r.now_l2) = "ok"
          /\ CheckAnchor(r) = "ok"
          /\ i = n /\ Linked(r, n) /\ prevHash = BlockHash(Headers(r)[n])
          /\ CheckClaimedTip(r, prevHash) = "ok"
          /\ CheckPosition(r) = "ok"
          /\ CheckBinding(r) = "ok"
        BY <1>1 DEF IInv, Past, ChainChecked
    <2>2. req \in Requests
        BY <1>1 DEF IInv, TypeOK
    <2>3. n > 0
        BY <2>1, <2>2, AnchorChecked, RequestNumbers DEF request
    <2>4. /\ r.bundle.claimed_tip_hash = BlockHash(Headers(r)[n])
          /\ r.bundle.claimed_tip_height = Anchor(r).height + n
        BY <2>1, TipChecked
    <2>5. ContainsCheckpoint(r.checkpoints, Preimage(r).btc_network,
                             r.bundle.claimed_tip_height, r.bundle.claimed_tip_hash)
        BY <2>1, AnchorChecked, PositionChecked
    <2>6. r.now_l2 <= Preimage(r).claim_deadline_l2
        <3>1. r.now_l2 \in Nat /\ Preimage(r).claim_deadline_l2 \in Nat
            BY <2>2, RequestNumbers DEF request
        <3>2. ~(r.now_l2 > Preimage(r).claim_deadline_l2)
            BY <2>1, WindowChecked
        <3> QED BY <3>1, <3>2
    <2>7. PaysOrder(r)
        <3>1. r.bundle.raw_tx # Malformed
            BY <2>1 DEF VerifyTxid
        <3>2. r.bundle.vout \in Nat /\ Len(r.bundle.raw_tx.outputs) \in Nat
            BY <2>2, <3>1, RequestNumbers, U32IsNat DEF request
        <3>3. r.bundle.vout < Len(r.bundle.raw_tx.outputs)
            BY <2>1, <3>2, BindingChecked
        <3> QED BY <2>1, <3>3, BindingChecked DEF PaysOrder
    <2> QED BY <2>1, <2>3, <2>4, <2>5, <2>6, <2>7 DEF SettlementSound
<1> QED BY <1>1 DEF SettlementSound

\* What settles rests on a chain verified end to end and pays the order's own
\* script within its windows (evaluate.rs:123-234).
THEOREM SettlementIsSound == Spec => []SettlementSound
BY SoundInIInv, Invariance, PTL

\* Heights and confirmations of a settlement are u32s that agree with each
\* other and with the order's bounds, for every width of the heights
\* (linkage.rs:51-99, evaluate.rs:171-187).
THEOREM HeightsAreSound == Spec => []HeightArithmetic
<1>1. ASSUME IInv, IsSettled PROVE HeightArithmetic
    <2> DEFINE r == request
               h == Anchor(r).height
               n == Len(Headers(r))
               index == r.bundle.tx_block_index
    <2>1. /\ req \in Requests /\ verdict = Oracle!Settled(SettlementOf(r))
        BY <1>1, Verdicts DEF IInv, TypeOK, IsSettled
    <2>2. CheckAnchor(r) = "ok" /\ CheckClaimedTip(r, prevHash) = "ok"
          /\ CheckPosition(r) = "ok"
        BY <1>1 DEF IInv, Past
    <2>3. /\ h \in Nat /\ n \in Nat /\ index \in Nat
          /\ r.bundle.claimed_tip_height \in U32
          /\ Preimage(r).max_btc_inclusion_height \in Nat
          /\ Preimage(r).min_confirmations \in Nat
        BY <2>1, <2>2, AnchorChecked, RequestNumbers, U32IsNat DEF request
    <2>4. r.bundle.claimed_tip_height = h + n
        BY <2>2, TipChecked
    <2>5. /\ ~(index >= n)
          /\ h + index + 1 <= MaxU32
          /\ ~(h + index + 1 > Preimage(r).max_btc_inclusion_height)
          /\ ~(n - index < Preimage(r).min_confirmations)
        BY <2>2, PositionChecked DEF BlockHeight, Confirmations, Fits
    <2>6. /\ verdict.settlement.block_height = h + index + 1
          /\ verdict.settlement.confirmations = n - index
        BY <2>1 DEF Oracle!Settled, SettlementOf, BlockHeight, Confirmations
    <2>7. /\ h + index + 1 \in U32 /\ h + index + 1 > h
          /\ n - index \in U32 /\ n - index >= 1
          /\ h + index + 1 + (n - index) = r.bundle.claimed_tip_height + 1
          /\ h + index + 1 <= Preimage(r).max_btc_inclusion_height
          /\ n - index >= Preimage(r).min_confirmations
        <3> HIDE DEF r, h, n, index
        <3> QED BY <2>3, <2>4, <2>5, MaxU32Assumption DEF U32
    <2> QED BY <2>6, <2>7 DEF HeightArithmetic
<1>2. IInv => HeightArithmetic
    BY <1>1 DEF HeightArithmetic
<1> QED BY <1>2, Invariance, PTL

-----------------------------------------------------------------------------
(* One output pays one key by one path. *)

\* A txid commits to the outputs.
LEMMA TxidBinds ==
    ASSUME NEW a, NEW b, Txid(a) = Txid(b)
    PROVE  a.outputs = b.outputs
<1>1. [sha256d |-> LegacySerialize(a)].sha256d = [sha256d |-> LegacySerialize(b)].sha256d
    BY DEF Txid, Sha256d
<1>2. LegacySerialize(a).outputs = LegacySerialize(b).outputs
    BY <1>1
<1> QED BY <1>2 DEF LegacySerialize

\* A script commits to the key and to both indices of the order it was derived
\* for (order.rs:112-156).
LEMMA ScriptBinds ==
    ASSUME NEW p, NEW q, NEW kp, NEW kq,
           DeriveScript(p, kp) # Absent, DeriveScript(q, kq) # Absent,
           DeriveScript(p, kp) = DeriveScript(q, kq)
    PROVE  /\ Resolve(kp, p.solver_btc_key_id) = Resolve(kq, q.solver_btc_key_id)
           /\ SamePath(OrderId(p), OrderId(q))
<1>1. ASSUME NEW o, NEW ks, DeriveScript(o, ks) # Absent
      PROVE  /\ DeriveScript(o, ks).xpub = Resolve(ks, o.solver_btc_key_id)
             /\ DeriveScript(o, ks).path = ChildIndices(OrderId(o))
    BY <1>1 DEF DeriveScript, DeriveP2tr
<1>2. Resolve(kp, p.solver_btc_key_id) = Resolve(kq, q.solver_btc_key_id)
    BY <1>1
<1>3. ChildIndices(OrderId(p)) = ChildIndices(OrderId(q))
    BY <1>1
<1>4. /\ ChildIndices(OrderId(p)).i0 = ChildIndices(OrderId(q)).i0
      /\ ChildIndices(OrderId(p)).i1 = ChildIndices(OrderId(q)).i1
    BY <1>3
<1>5. SamePath(OrderId(p), OrderId(q))
    BY <1>4 DEF ChildIndices, SamePath
<1> QED BY <1>2, <1>5

\* The oracle, an instance of its own, derives the same scripts.
LEMMA OraclePays ==
    ASSUME NEW r PROVE Oracle!PaysOrder(r) = PaysOrder(r)
<1>1. ASSUME NEW entries, NEW id PROVE Oracle!Resolve(entries, id) = Resolve(entries, id)
    BY DEF Oracle!Resolve, Resolve, Oracle!SelectInSeq, SelectInSeq, Oracle!Min, Min
<1>2. ASSUME NEW p PROVE Oracle!OrderId(p) = OrderId(p)
    BY DEF Oracle!OrderId, OrderId, Oracle!Keccak256, Keccak256
<1>3. ASSUME NEW x, NEW id
      PROVE  Oracle!DeriveP2tr(x, Oracle!ChildIndices(id)) = DeriveP2tr(x, ChildIndices(id))
    BY DEF Oracle!DeriveP2tr, DeriveP2tr, Oracle!ChildIndices, ChildIndices,
           Oracle!Sha256, Sha256
<1>4. ASSUME NEW p, NEW keys PROVE Oracle!DeriveScript(p, keys) = DeriveScript(p, keys)
    BY <1>1, <1>2, <1>3 DEF Oracle!DeriveScript, DeriveScript
<1>5. ASSUME NEW s PROVE Oracle!Commitment(s) = Commitment(s)
    BY DEF Oracle!Commitment, Commitment, Oracle!Keccak256, Keccak256
<1>6. Oracle!Preimage(r) = Preimage(r)
    BY DEF Oracle!Preimage, Preimage
<1> QED BY <1>2, <1>4, <1>5, <1>6 DEF Oracle!PaysOrder, PaysOrder

\* A request nothing is wrong with pays its order in its own transaction.
LEMMA FaultlessPays ==
    ASSUME NEW r, Oracle!Faultless(r)
    PROVE  Txid(r.bundle.raw_tx) = r.bundle.txid_internal /\ PaysOrder(r)
<1>1. Oracle!StageDefects(1, r) = {} /\ Oracle!StageDefects(9, r) = {}
    BY DEF Oracle!Faultless, Oracle!FaultlessBefore
<1>2. Oracle!TxDefects(r) = {} /\ Oracle!BindingDefects(r) = {}
    BY <1>1 DEF Oracle!StageDefects
<1>3. Oracle!Txid(r.bundle.raw_tx) = Txid(r.bundle.raw_tx)
    BY DEF Oracle!Txid, Txid, Oracle!Sha256d, Sha256d, Oracle!LegacySerialize, LegacySerialize
<1>4. Txid(r.bundle.raw_tx) = r.bundle.txid_internal
    BY <1>2, <1>3 DEF Oracle!TxDefects, Oracle!If
<1>5. Oracle!PaysOrder(r)
    BY <1>2 DEF Oracle!BindingDefects
<1> QED BY <1>4, <1>5, OraclePays

\* Two requests that pay their orders with the same output of the same
\* transaction pay the same key by the same path.
LEMMA SameOutputSamePath ==
    ASSUME NEW a, NEW b, PaysOrder(a), PaysOrder(b),
           Txid(a.bundle.raw_tx) = Txid(b.bundle.raw_tx), a.bundle.vout = b.bundle.vout
    PROVE  /\ SolverKey(a) = SolverKey(b)
           /\ SamePath(a.bundle.order.order_id, b.bundle.order.order_id)
<1>1. a.bundle.raw_tx.outputs = b.bundle.raw_tx.outputs
    BY TxidBinds
<1>2. DeriveScript(Preimage(a), a.keys) = DeriveScript(Preimage(b), b.keys)
    BY <1>1 DEF PaysOrder
<1>3. /\ SolverKey(a) = SolverKey(b)
      /\ SamePath(OrderId(Preimage(a)), OrderId(Preimage(b)))
    BY <1>2, ScriptBinds DEF PaysOrder, SolverKey
<1> QED BY <1>3 DEF PaysOrder

\* Whatever order an output settles, another that could settle with it has the
\* same key and agrees in all 62 bits that a script keeps of an order_id,
\* whoever holds the registries (order.rs:112-156, evaluate.rs:201-222).
THEOREM OutputHasOnePath == Spec => []OneOutputOnePath
<1>1. ASSUME IInv, IsSettled PROVE OneOutputOnePath
    <2>1. Txid(request.bundle.raw_tx) = request.bundle.txid_internal /\ PaysOrder(request)
        <3>1. VerifyTxid(request.bundle) = "ok"
            BY <1>1 DEF IInv, Past
        <3>2. PaysOrder(request)
            BY <1>1, SoundInIInv DEF SettlementSound
        <3> QED BY <3>1, <3>2 DEF VerifyTxid
    <2>2. verdict.settlement.order_id = request.bundle.order.order_id
        <3>1. verdict = Oracle!Settled(SettlementOf(request))
            BY <1>1, Verdicts DEF IInv, TypeOK, IsSettled
        <3> QED BY <3>1 DEF Oracle!Settled, SettlementOf
    <2>3. ASSUME NEW q \in Settleable,
                 Contents[q].bundle.txid_internal = request.bundle.txid_internal,
                 Contents[q].bundle.vout = request.bundle.vout
          PROVE  /\ SolverKey(Contents[q]) = SolverKey(request)
                 /\ SamePath(Contents[q].bundle.order.order_id, verdict.settlement.order_id)
        <3>1. /\ Txid(Contents[q].bundle.raw_tx) = Contents[q].bundle.txid_internal
              /\ PaysOrder(Contents[q])
            BY FaultlessPays DEF Settleable
        <3>2. Txid(Contents[q].bundle.raw_tx) = Txid(request.bundle.raw_tx)
            BY <2>1, <2>3, <3>1
        <3>3. /\ SolverKey(Contents[q]) = SolverKey(request)
              /\ SamePath(Contents[q].bundle.order.order_id, request.bundle.order.order_id)
            BY <2>1, <2>3, <3>1, <3>2, SameOutputSamePath
        <3> QED BY <2>2, <3>3
    <2> QED BY <2>3 DEF OneOutputOnePath
<1>2. IInv => OneOutputOnePath
    BY <1>1 DEF OneOutputOnePath
<1> QED BY <1>2, Invariance, PTL

-----------------------------------------------------------------------------
(* The oracle is an instance with operators of its own: they are the same. *)

\* Lookups, fields and heights,
LEMMA OracleFields ==
    ASSUME NEW r
    PROVE  /\ Oracle!Preimage(r) = Preimage(r)
           /\ Oracle!Headers(r) = Headers(r)
           /\ Oracle!Anchor(r) = Anchor(r)
<1>1. ASSUME NEW entries, NEW id PROVE Oracle!Resolve(entries, id) = Resolve(entries, id)
    BY DEF Oracle!Resolve, Resolve, Oracle!SelectInSeq, SelectInSeq, Oracle!Min, Min
<1> QED BY <1>1 DEF Oracle!Preimage, Preimage, Oracle!Headers, Headers, Oracle!Anchor, Anchor

\* the proof of work and the predecessor a header must name,
LEMMA OracleLinkage ==
    ASSUME NEW r, NEW k, NEW h, NEW e
    PROVE  /\ Oracle!CheckPow(h, e) = CheckPow(h, e)
           /\ Oracle!BlockHash(h) = BlockHash(h)
           /\ Oracle!Predecessor(r, k) = Predecessor(r, k)
<1>1. ASSUME NEW x PROVE Oracle!BlockHash(x) = BlockHash(x)
    BY DEF Oracle!BlockHash, BlockHash, Oracle!Sha256d, Sha256d
<1>2. Oracle!CheckPow(h, e) = CheckPow(h, e)
    BY DEF Oracle!CheckPow, CheckPow, Oracle!IsCompactTarget, IsCompactTarget,
           Oracle!IsNegative, IsNegative, Oracle!Word, Word, Oracle!Exponent, Exponent,
           Oracle!Mantissa, Mantissa, Oracle!GreaterThan, GreaterThan,
           Oracle!Reverse, Reverse, Oracle!BlockHash, BlockHash, Oracle!Sha256d, Sha256d,
           Oracle!TargetFromNbits, TargetFromNbits, Oracle!Byte, Byte,
           Oracle!Weight, Weight
<1>3. Oracle!Predecessor(r, k) = Predecessor(r, k)
    BY <1>1, OracleFields DEF Oracle!Predecessor, Predecessor
<1> QED BY <1>1, <1>2, <1>3

\* and the Merkle branch.
LEMMA OracleInclusion ==
    ASSUME NEW txid, NEW proof, NEW root
    PROVE  Oracle!VerifyInclusion(txid, proof, root) = VerifyInclusion(txid, proof, root)
BY DEF Oracle!VerifyInclusion, VerifyInclusion, Oracle!CloseBranch, CloseBranch,
       Oracle!FoldLeft, FoldLeft, Oracle!MapThenFoldSet, MapThenFoldSet, Oracle!Max, Max,
       Oracle!OpenBranch, OpenBranch, Oracle!OpeningError, OpeningError,
       Oracle!TreeDepth, TreeDepth, Oracle!BranchStep, BranchStep,
       Oracle!SiblingError, SiblingError, Oracle!IsLastOdd, IsLastOdd,
       Oracle!HashPair, HashPair, Oracle!Sha256d, Sha256d

\* What is settled is the same settlement.
LEMMA OracleSettlement ==
    ASSUME NEW r PROVE Oracle!SettlementOf(r) = SettlementOf(r)
BY OracleFields DEF Oracle!SettlementOf, SettlementOf, Oracle!BlockHeight, BlockHeight,
                    Oracle!Confirmations, Confirmations

-----------------------------------------------------------------------------
(* Stage by stage *)

\* A stage has a defect exactly if its check answers something else than "ok",
\* and then the answer is one.
Agrees(answer, defects) == IF answer = "ok" THEN defects = {} ELSE answer \in defects

\* The transaction (evaluate.rs:136)
LEMMA TxAgrees ==
    ASSUME NEW r PROVE Agrees(VerifyTxid(r.bundle), Oracle!TxDefects(r))
BY DEF Agrees, VerifyTxid, Oracle!TxDefects, Oracle!If, Oracle!Txid, Txid, Oracle!Sha256d,
       Sha256d, Oracle!LegacySerialize, LegacySerialize

\* The order's own parameters, which come before its window (order.rs:97-108)
LEMMA PreimageAgrees ==
    ASSUME NEW q \in Requests
    PROVE  Agrees(ValidatePreimage(Preimage(Contents[q])),
                  Oracle!PreimageDefects(Contents[q]))
<1> DEFINE p == Preimage(Contents[q])
<1>1. /\ p.quote_expires_at_l2 \in Nat /\ p.claim_deadline_l2 \in Nat
      /\ p.reclaim_after_l2 \in Nat
    BY RequestNumbers
<1>2. Oracle!Preimage(Contents[q]) = p
    BY OracleFields
<1>3. ~(/\ p.quote_expires_at_l2 <= p.claim_deadline_l2
        /\ p.claim_deadline_l2 < p.reclaim_after_l2)
      <=> \/ p.quote_expires_at_l2 > p.claim_deadline_l2
          \/ p.claim_deadline_l2 >= p.reclaim_after_l2
    <2> HIDE DEF p
    <2> QED BY <1>1
<1>4. ValidatePreimage(p) =
        IF ~(/\ p.quote_expires_at_l2 <= p.claim_deadline_l2
             /\ p.claim_deadline_l2 < p.reclaim_after_l2) THEN "InvalidOrderParameters"
        ELSE IF p.destination_amount > p.max_destination_amount_cap
        THEN "DestinationAmountCapExceeded" ELSE "ok"
    BY <1>3 DEF ValidatePreimage
<1> QED BY <1>2, <1>4, Zenon DEF Agrees, Oracle!PreimageDefects, Oracle!If

\* The window of claims (evaluate.rs:141-146)
LEMMA WindowAgrees ==
    ASSUME NEW r, ValidatePreimage(Preimage(r)) = "ok"
    PROVE  Agrees(CheckWindow(Preimage(r), r.now_l2), Oracle!WindowDefects(r))
BY OracleFields DEF Agrees, CheckWindow, Oracle!WindowDefects, Oracle!If

\* The checkpoint, where only an empty chain is left to the next stage
\* (evaluate.rs:147-162, linkage.rs:47-49)
LEMMA AnchorAgrees ==
    ASSUME NEW r, Headers(r) # <<>>
    PROVE  Agrees(CheckAnchor(r), Oracle!AnchorDefects(r))
BY OracleFields DEF Agrees, CheckAnchor, Oracle!AnchorDefects, Oracle!If

\* An empty chain is found with the checkpoint, or else is the chain's defect.
LEMMA EmptyChainAgrees ==
    ASSUME NEW r, Headers(r) = <<>>
    PROVE  /\ Oracle!AnchorDefects(r) # {} => CheckAnchor(r) \in Oracle!AnchorDefects(r)
           /\ CheckAnchor(r) \in Oracle!ChainDefects(r)
<1>1. CheckAnchor(r) = "InvalidCheckpointLinkage"
    BY DEF CheckAnchor
<1>2. Oracle!AnchorDefects(r) # {} => CheckAnchor(r) \in Oracle!AnchorDefects(r)
    BY <1>1 DEF Oracle!AnchorDefects, Oracle!If
<1>3. CheckAnchor(r) \in Oracle!ChainDefects(r)
    BY <1>1, OracleFields DEF Oracle!ChainDefects, Oracle!If
<1> QED BY <1>2, <1>3

\* The Merkle proof (evaluate.rs:190-198)
LEMMA InclusionAgrees ==
    ASSUME NEW r PROVE Agrees(CheckInclusion(r), Oracle!InclusionDefects(r))
BY OracleFields, OracleInclusion DEF Agrees, CheckInclusion, Oracle!InclusionDefects, Oracle!If

\* A resolved anchor has the height the bundle says, a u32, and the headers above
\* it are counted.
LEMMA AnchorNumbers ==
    ASSUME NEW q \in Requests, CheckAnchor(Contents[q]) = "ok"
    PROVE  LET r == Contents[q] IN
           /\ Anchor(r).height \in Nat /\ Len(Headers(r)) \in Nat /\ Len(Headers(r)) > 0
           /\ DOMAIN Headers(r) = 1..Len(Headers(r))
<1> DEFINE r == Contents[q]
<1>1. Anchor(r).height = r.bundle.checkpoint_height /\ Headers(r) # <<>>
    BY AnchorChecked
<1>2. IsVector(Headers(r))
    BY RequestsAssumption DEF RequestOk
<1>3. DOMAIN Headers(r) = 1..Len(Headers(r))
    <2> DEFINE hs == Headers(r)  S == {hs[k] : k \in DOMAIN hs}
    <2>1. hs \in Seq(S)
        BY <1>2 DEF IsVector
    <2> HIDE DEF hs, S
    <2>2. DOMAIN hs = 1..Len(hs)
        BY <2>1, LenProperties
    <2> QED BY <2>2 DEF hs
<1> QED BY <1>1, <1>3, RequestNumbers, U32IsNat

\* What a turn of the loop finds wrong with a header is a defect of the chain
\* (linkage.rs:51-68).
LEMMA HeaderDefect ==
    ASSUME NEW q \in Requests, CheckAnchor(Contents[q]) = "ok",
           NEW k \in 1..Len(Headers(Contents[q])),
           CheckHeader(Contents[q], k, Predecessor(Contents[q], k)) # "ok"
    PROVE  CheckHeader(Contents[q], k, Predecessor(Contents[q], k))
               \in Oracle!ChainDefects(Contents[q])
<1> DEFINE r == Contents[q]
           h == Anchor(r).height
           n == Len(Headers(r))
<1>1. h \in Nat /\ n \in Nat /\ k \in DOMAIN Headers(r)
    BY AnchorNumbers
<1>2. CASE ~Fits(h + k)
    <2>1. ~Fits(h + n)
        <3> HIDE DEF h, n
        <3>1. k \in 1..n
            BY DEF n
        <3> QED BY <1>1, <1>2, <3>1, MaxU32Assumption DEF Fits
    <2>2. CheckHeader(r, k, Predecessor(r, k)) = "InvalidCheckpointLinkage"
        BY <1>2 DEF CheckHeader
    <2> QED BY <2>1, <2>2, OracleFields
            DEF Oracle!ChainDefects, Oracle!If, Oracle!Fits, Fits
<1>3. CASE CheckPow(Headers(r)[k], Anchor(r).nbits) # "ok" /\ Fits(h + k)
    <2>1. CheckHeader(r, k, Predecessor(r, k)) = CheckPow(Headers(r)[k], Anchor(r).nbits)
        BY <1>3 DEF CheckHeader
    <2>2. CheckHeader(r, k, Predecessor(r, k))
            \in {CheckPow(Headers(r)[j], Anchor(r).nbits) : j \in DOMAIN Headers(r)} \ {"ok"}
        BY <1>1, <1>3, <2>1
    <2>3. {Oracle!CheckPow(Oracle!Headers(r)[j], Oracle!Anchor(r).nbits) :
               j \in DOMAIN Oracle!Headers(r)} \ {"ok"} \subseteq Oracle!ChainDefects(r)
        BY DEF Oracle!ChainDefects
    <2> QED BY <2>2, <2>3, OracleFields, OracleLinkage
<1>4. CASE CheckPow(Headers(r)[k], Anchor(r).nbits) = "ok" /\ Fits(h + k)
    <2>1. /\ Headers(r)[k].prev_block # Predecessor(r, k)
          /\ CheckHeader(r, k, Predecessor(r, k)) = "BrokenLinkage"
        BY <1>4 DEF CheckHeader
    <2> QED BY <1>1, <2>1, OracleFields, OracleLinkage DEF Oracle!ChainDefects, Oracle!If
<1> QED BY <1>2, <1>3, <1>4

\* When the loop has accepted every header, what is left of the chain's defects
\* is what the comparison with the claimed tip finds (linkage.rs:70-86).
LEMMA TipAgrees ==
    ASSUME NEW q \in Requests, CheckAnchor(Contents[q]) = "ok",
           Linked(Contents[q], Len(Headers(Contents[q])))
    PROVE  LET r == Contents[q] IN
           Agrees(CheckClaimedTip(r, BlockHash(Headers(r)[Len(Headers(r))])),
                  Oracle!ChainDefects(r))
<1> DEFINE r   == Contents[q]
           hs  == Headers(r)
           n   == Len(hs)
           tip == BlockHash(hs[n])
           bad == {CheckPow(hs[k], Anchor(r).nbits) : k \in DOMAIN hs} \ {"ok"}
<1>1. DOMAIN hs = 1..n /\ hs # <<>>
    BY AnchorNumbers, AnchorChecked
<1>2. bad = {} /\ ~(\E k \in DOMAIN hs : hs[k].prev_block # Predecessor(r, k))
    BY <1>1 DEF Linked
<1>3. Oracle!ChainDefects(r) =
        Oracle!If(\/ ~Fits(Anchor(r).height + n)
                  \/ r.bundle.claimed_tip_height # Anchor(r).height + n
                  \/ r.bundle.claimed_tip_hash # tip, "InvalidCheckpointLinkage")
    <2>1. Oracle!BlockHash(Oracle!Last(hs)) = tip
        BY OracleLinkage DEF Oracle!Last
    <2>2. {Oracle!CheckPow(hs[k], Anchor(r).nbits) : k \in DOMAIN hs} \ {"ok"} = bad
        BY OracleLinkage
    <2>3. ~(\E k \in DOMAIN hs : hs[k].prev_block # Oracle!Predecessor(r, k))
        BY <1>2, OracleLinkage
    <2> QED BY <1>1, <1>2, <2>1, <2>2, <2>3, OracleFields
            DEF Oracle!ChainDefects, Oracle!If, Oracle!Fits, Fits
<1> QED BY <1>3 DEF Agrees, CheckClaimedTip, Oracle!If

\* The position of the block comes before the look at the registry; with the tip
\* counted, the height of the block always fits (evaluate.rs:171-187).
LEMMA PositionAgrees ==
    ASSUME NEW q \in Requests, NEW h, CheckAnchor(Contents[q]) = "ok",
           CheckClaimedTip(Contents[q], h) = "ok"
    PROVE  LET r == Contents[q] IN
           \/ /\ CheckPosition(r) # "ok"
              /\ CheckPosition(r) \in Oracle!PositionDefects(r)
           \/ /\ Oracle!PositionDefects(r) = {}
              /\ Agrees(CheckPosition(r), Oracle!TipDefects(r))
<1> DEFINE r     == Contents[q]
           n     == Len(Headers(r))
           index == r.bundle.tx_block_index
<1>1. Fits(Anchor(r).height + n) /\ Anchor(r).network = Preimage(r).btc_network
    BY AnchorChecked DEF CheckClaimedTip
<1>2. ~(index >= n) => Fits(BlockHeight(Anchor(r).height, index))
    <2> DEFINE b == Anchor(r).height
    <2>1. b \in Nat /\ n \in Nat /\ index \in Nat /\ Fits(b + n)
        BY <1>1, AnchorNumbers, RequestNumbers, U32IsNat
    <2> HIDE DEF b, n, index
    <2>2. ~(index >= n) => b + index + 1 <= MaxU32
        BY <2>1, MaxU32Assumption DEF Fits
    <2> QED BY <2>2 DEF BlockHeight, Fits, b
<1>3. Oracle!TipDefects(r) =
        Oracle!If(~ContainsCheckpoint(r.checkpoints, Anchor(r).network,
                      r.bundle.claimed_tip_height, r.bundle.claimed_tip_hash),
                  "InvalidCheckpointLinkage")
    BY <1>1, OracleFields
       DEF Oracle!TipDefects, Oracle!ContainsCheckpoint, ContainsCheckpoint
<1>4. Oracle!PositionDefects(r) =
        IF index >= n THEN {"InvalidCheckpointLinkage"}
        ELSE Oracle!If(BlockHeight(Anchor(r).height, index)
                           > Preimage(r).max_btc_inclusion_height, "InclusionHeightExceeded")
             \cup Oracle!If(Confirmations(n, index) < Preimage(r).min_confirmations,
                            "InsufficientDepth")
    <2>1. /\ Oracle!Headers(r) = Headers(r) /\ Oracle!Anchor(r) = Anchor(r)
          /\ Oracle!Preimage(r) = Preimage(r)
        BY OracleFields
    <2> QED BY <2>1, Zenon
            DEF Oracle!PositionDefects, Oracle!BlockHeight, BlockHeight,
                Oracle!Confirmations, Confirmations, Oracle!If
<1>5. CheckPosition(r) =
        IF index >= n THEN "InvalidCheckpointLinkage"
        ELSE IF BlockHeight(Anchor(r).height, index) > Preimage(r).max_btc_inclusion_height
        THEN "InclusionHeightExceeded"
        ELSE IF Confirmations(n, index) < Preimage(r).min_confirmations
        THEN "InsufficientDepth"
        ELSE IF ~ContainsCheckpoint(r.checkpoints, Anchor(r).network,
                     r.bundle.claimed_tip_height, r.bundle.claimed_tip_hash)
        THEN "InvalidCheckpointLinkage"
        ELSE "ok"
    BY <1>2 DEF CheckPosition
<1>6. CASE Oracle!PositionDefects(r) = {}
    BY <1>3, <1>4, <1>5, <1>6 DEF Agrees, Oracle!If
<1>7. CASE Oracle!PositionDefects(r) # {}
    BY <1>4, <1>5, <1>7 DEF Oracle!If
<1> QED BY <1>6, <1>7

\* The binding of the output (evaluate.rs:202-222)
LEMMA BindingAgrees ==
    ASSUME NEW q \in Requests, VerifyTxid(Contents[q].bundle) = "ok"
    PROVE  Agrees(CheckBinding(Contents[q]), Oracle!BindingDefects(Contents[q]))
<1> DEFINE r    == Contents[q]
           outs == r.bundle.raw_tx.outputs
           low  == outs[r.bundle.vout + 1].value_sat < Preimage(r).amount_sat
<1>1. r.bundle.raw_tx # Malformed
    BY DEF VerifyTxid
<1>2. r.bundle.vout \in Nat /\ Len(outs) \in Nat
    BY <1>1, RequestNumbers, U32IsNat
<1>3. r.bundle.vout < Len(outs) <=> ~(r.bundle.vout >= Len(outs))
    BY <1>2
<1>4. CheckBinding(r) = IF ~PaysOrder(r) THEN "WrongScript"
                        ELSE IF low THEN "InsufficientAmount" ELSE "ok"
    BY <1>3 DEF CheckBinding, PaysOrder
<1>5. Oracle!BindingDefects(r) = IF ~PaysOrder(r) THEN {"WrongScript"}
                                 ELSE Oracle!If(low, "InsufficientAmount")
    BY OraclePays, OracleFields DEF Oracle!BindingDefects
<1> QED BY <1>4, <1>5 DEF Agrees, Oracle!If

-----------------------------------------------------------------------------
(* The stages one after the other *)

\* The oracle numbers its stages in the order of the code.
LEMMA StageNames ==
    ASSUME NEW r
    PROVE  /\ Oracle!StageDefects(1, r) = Oracle!TxDefects(r)
           /\ Oracle!StageDefects(2, r) = Oracle!PreimageDefects(r)
           /\ Oracle!StageDefects(3, r) = Oracle!WindowDefects(r)
           /\ Oracle!StageDefects(4, r) = Oracle!AnchorDefects(r)
           /\ Oracle!StageDefects(5, r) = Oracle!ChainDefects(r)
           /\ Oracle!StageDefects(6, r) = Oracle!PositionDefects(r)
           /\ Oracle!StageDefects(7, r) = Oracle!TipDefects(r)
           /\ Oracle!StageDefects(8, r) = Oracle!InclusionDefects(r)
           /\ Oracle!StageDefects(9, r) = Oracle!BindingDefects(r)
BY DEF Oracle!StageDefects

\* No stage precedes the first, and a faultless stage is passed.
LEMMA StagePassed ==
    ASSUME NEW r
    PROVE  /\ Oracle!FaultlessBefore(1, r)
           /\ \A s \in Nat : (/\ Oracle!FaultlessBefore(s, r)
                              /\ Oracle!StageDefects(s, r) = {})
                             => Oracle!FaultlessBefore(s + 1, r)
<1>1. Oracle!FaultlessBefore(1, r)
    BY DEF Oracle!FaultlessBefore
<1>2. ASSUME NEW s \in Nat, Oracle!FaultlessBefore(s, r), Oracle!StageDefects(s, r) = {},
             NEW q \in 1..(s + 1 - 1)
      PROVE  Oracle!StageDefects(q, r) = {}
    <2>1. q \in 1..(s - 1) \/ q = s
        BY <1>2
    <2> QED BY <1>2, <2>1 DEF Oracle!FaultlessBefore
<1> QED BY <1>1, <1>2 DEF Oracle!FaultlessBefore

\* The reason is a defect of a stage before which nothing is wrong.
Reports(reason, r) ==
    \E s \in Oracle!Stages : Oracle!FaultlessBefore(s, r) /\ reason \in Oracle!StageDefects(s, r)

\* A stage whose check agrees with its defects is passed or reported.
LEMMA StageAnswer ==
    ASSUME NEW r, NEW s \in Oracle!Stages, NEW answer, Oracle!FaultlessBefore(s, r),
           Agrees(answer, Oracle!StageDefects(s, r))
    PROVE  IF answer = "ok" THEN Oracle!FaultlessBefore(s + 1, r) ELSE Reports(answer, r)
<1>1. s \in Nat
    BY DEF Oracle!Stages
<1>2. CASE answer = "ok"
    BY <1>1, <1>2, StagePassed DEF Agrees
<1>3. CASE answer # "ok"
    BY <1>3 DEF Agrees, Reports
<1> QED BY <1>2, <1>3

\* Before the first defective stage every stage has passed: the transaction,
LEMMA TxStage ==
    ASSUME NEW r
    PROVE  IF VerifyTxid(r.bundle) = "ok" THEN Oracle!FaultlessBefore(2, r)
                                          ELSE Reports(VerifyTxid(r.bundle), r)
<1>1. 1 \in Oracle!Stages
    BY DEF Oracle!Stages
<1>2. Agrees(VerifyTxid(r.bundle), Oracle!StageDefects(1, r))
    BY TxAgrees, StageNames
<1>3. Oracle!FaultlessBefore(1, r) /\ 1 + 1 = 2
    BY StagePassed
<1> QED BY <1>1, <1>2, <1>3, StageAnswer

\* the order and its window (evaluate.rs:139-146),
LEMMA WindowStages ==
    ASSUME NEW q \in Requests, Oracle!FaultlessBefore(2, Contents[q])
    PROVE  LET r == Contents[q]  answer == CheckWindow(Preimage(r), r.now_l2) IN
           IF answer = "ok" THEN Oracle!FaultlessBefore(4, r) ELSE Reports(answer, r)
<1> DEFINE r == Contents[q]
<1>1. 2 \in Oracle!Stages /\ 3 \in Oracle!Stages
    BY DEF Oracle!Stages
<1>2. CASE ValidatePreimage(Preimage(r)) = "ok"
    <2>1. Oracle!FaultlessBefore(3, r)
        BY <1>2, PreimageAgrees, StageNames, StagePassed DEF Agrees
    <2> QED BY <1>1, <1>2, <2>1, WindowAgrees, StageNames, StagePassed DEF Agrees, Reports
<1>3. CASE ValidatePreimage(Preimage(r)) # "ok"
    <2>1. CheckWindow(Preimage(r), r.now_l2) = ValidatePreimage(Preimage(r))
        BY <1>3 DEF CheckWindow
    <2> QED BY <1>1, <1>3, <2>1, PreimageAgrees, StageNames DEF Agrees, Reports
<1> QED BY <1>2, <1>3

\* the checkpoint (evaluate.rs:147-162),
LEMMA AnchorStage ==
    ASSUME NEW r, Oracle!FaultlessBefore(4, r)
    PROVE  IF CheckAnchor(r) = "ok" THEN Oracle!FaultlessBefore(5, r)
                                    ELSE Reports(CheckAnchor(r), r)
<1>1. 4 \in Oracle!Stages /\ 5 \in Oracle!Stages
    BY DEF Oracle!Stages
<1>2. CASE Headers(r) # <<>>
    <2>1. Agrees(CheckAnchor(r), Oracle!StageDefects(4, r)) /\ 4 + 1 = 5
        BY <1>2, AnchorAgrees, StageNames
    <2> QED BY <1>1, <2>1, StageAnswer
<1>3. CASE Headers(r) = <<>>
    <2>1. CheckAnchor(r) # "ok"
        BY <1>3, AnchorChecked
    <2> QED BY <1>1, <1>3, <2>1, EmptyChainAgrees, StageNames, StagePassed DEF Reports
<1> QED BY <1>2, <1>3

\* the chain, of which a header may be what is wrong (linkage.rs:51-68)
LEMMA HeaderStage ==
    ASSUME NEW q \in Requests, CheckAnchor(Contents[q]) = "ok",
           Oracle!FaultlessBefore(5, Contents[q]),
           NEW k \in 1..Len(Headers(Contents[q])),
           CheckHeader(Contents[q], k, Predecessor(Contents[q], k)) # "ok"
    PROVE  Reports(CheckHeader(Contents[q], k, Predecessor(Contents[q], k)), Contents[q])
<1>1. 5 \in Oracle!Stages
    BY DEF Oracle!Stages
<1> QED BY <1>1, HeaderDefect, StageNames DEF Reports

\* or the tip (linkage.rs:70-86),
LEMMA TipStage ==
    ASSUME NEW q \in Requests, CheckAnchor(Contents[q]) = "ok",
           Oracle!FaultlessBefore(5, Contents[q]),
           Linked(Contents[q], Len(Headers(Contents[q])))
    PROVE  LET r == Contents[q]
               answer == CheckClaimedTip(r, BlockHash(Headers(r)[Len(Headers(r))])) IN
           IF answer = "ok" THEN Oracle!FaultlessBefore(6, r) ELSE Reports(answer, r)
<1> DEFINE r == Contents[q]
           answer == CheckClaimedTip(r, BlockHash(Headers(r)[Len(Headers(r))]))
<1>1. 5 \in Oracle!Stages /\ 5 + 1 = 6
    BY DEF Oracle!Stages
<1>2. Agrees(answer, Oracle!StageDefects(5, r))
    BY TipAgrees, StageNames
<1> QED BY <1>1, <1>2, StageAnswer

\* the position and the registry's view of the tip (evaluate.rs:171-187),
LEMMA PositionStages ==
    ASSUME NEW q \in Requests, NEW h, CheckAnchor(Contents[q]) = "ok",
           CheckClaimedTip(Contents[q], h) = "ok", Oracle!FaultlessBefore(6, Contents[q])
    PROVE  LET r == Contents[q] IN
           IF CheckPosition(r) = "ok" THEN Oracle!FaultlessBefore(8, r)
                                      ELSE Reports(CheckPosition(r), r)
<1> DEFINE r == Contents[q]
<1>1. 6 \in Oracle!Stages /\ 7 \in Oracle!Stages
    BY DEF Oracle!Stages
<1>2. CASE CheckPosition(r) # "ok" /\ CheckPosition(r) \in Oracle!PositionDefects(r)
    BY <1>1, <1>2, StageNames DEF Reports
<1>3. CASE /\ Oracle!PositionDefects(r) = {}
           /\ Agrees(CheckPosition(r), Oracle!TipDefects(r))
    <2>1. Oracle!FaultlessBefore(7, r)
        BY <1>3, StageNames, StagePassed
    <2> QED BY <1>1, <1>3, <2>1, StageNames, StagePassed DEF Agrees, Reports
<1> QED BY <1>2, <1>3, PositionAgrees

\* the Merkle proof (evaluate.rs:190-198)
LEMMA InclusionStage ==
    ASSUME NEW r, Oracle!FaultlessBefore(8, r)
    PROVE  IF CheckInclusion(r) = "ok" THEN Oracle!FaultlessBefore(9, r)
                                       ELSE Reports(CheckInclusion(r), r)
<1>1. 8 \in Oracle!Stages
    BY DEF Oracle!Stages
<1> QED BY <1>1, InclusionAgrees, StageNames, StagePassed DEF Agrees, Reports

\* and the output, after which nothing is wrong (evaluate.rs:202-222).
LEMMA BindingStage ==
    ASSUME NEW q \in Requests, VerifyTxid(Contents[q].bundle) = "ok",
           Oracle!FaultlessBefore(9, Contents[q])
    PROVE  LET r == Contents[q] IN
           IF CheckBinding(r) = "ok" THEN Oracle!Faultless(r) ELSE Reports(CheckBinding(r), r)
<1>1. 9 \in Oracle!Stages
    BY DEF Oracle!Stages
<1> QED BY <1>1, BindingAgrees, StageNames, StagePassed DEF Agrees, Reports, Oracle!Faultless

-----------------------------------------------------------------------------
(* Every step is a step of the oracle or changes nothing it sees. *)

\* A running evaluation has found nothing wrong in the stages behind it.
LEMMA Progress ==
    ASSUME IInv
    PROVE  /\ req \in Requests
           /\ pc = "window" => Oracle!FaultlessBefore(2, request)
           /\ pc = "anchor" => Oracle!FaultlessBefore(4, request)
           /\ pc = "headers" => Oracle!FaultlessBefore(5, request)
           /\ pc = "position" => Oracle!FaultlessBefore(6, request)
           /\ pc = "inclusion" => Oracle!FaultlessBefore(8, request)
           /\ pc = "binding" => Oracle!FaultlessBefore(9, request)
<1>1. req \in Requests
    BY DEF IInv, TypeOK
<1>2. pc \in {"window", "anchor", "headers", "position", "inclusion", "binding"}
        => Oracle!FaultlessBefore(2, request)
    BY TxStage DEF IInv, Past
<1>3. pc \in {"anchor", "headers", "position", "inclusion", "binding"}
        => Oracle!FaultlessBefore(4, request)
    BY <1>1, <1>2, WindowStages DEF IInv, Past, request
<1>4. pc \in {"headers", "position", "inclusion", "binding"}
        => Oracle!FaultlessBefore(5, request)
    BY <1>3, AnchorStage DEF IInv, Past
<1>5. pc \in {"position", "inclusion", "binding"} => Oracle!FaultlessBefore(6, request)
    <2>1. ASSUME pc \in {"position", "inclusion", "binding"}
          PROVE  /\ CheckAnchor(request) = "ok"
                 /\ Linked(request, Len(Headers(request)))
                 /\ CheckClaimedTip(request,
                        BlockHash(Headers(request)[Len(Headers(request))])) = "ok"
        BY <2>1 DEF IInv, Past, ChainChecked
    <2> QED BY <1>1, <1>4, <2>1, TipStage DEF request
<1>6. pc \in {"inclusion", "binding"} => Oracle!FaultlessBefore(8, request)
    BY <1>1, <1>5, PositionStages DEF IInv, Past, request
<1>7. pc = "binding" => Oracle!FaultlessBefore(9, request)
    BY <1>6, InclusionStage DEF IInv, Past
<1> QED BY <1>1, <1>2, <1>3, <1>4, <1>5, <1>6, <1>7

\* A stage that tries its check goes on unseen or rejects as the oracle does.
LEMMA TryRefines ==
    ASSUME IInv, NEW here, NEW reason, NEW next, here # "done", Try(here, reason, next),
           reason # "ok" => Reports(reason, request)
    PROVE  [Oracle!OracleNext]_(Oracle!oracleVars)
<1>1. CASE reason = "ok"
    BY <1>1 DEF Try, Oracle!oracleVars
<1>2. CASE reason # "ok"
    <2>1. verdict = Pending /\ req' = req /\ verdict' = Oracle!Rejected(reason)
        BY <1>2 DEF Try, IInv
    <2>2. verdict' # Pending
        BY <2>1, Verdicts
    <2>3. Oracle!Reject
        BY <1>2, <2>1 DEF Reports, Oracle!Reject, request
    <2> QED BY <2>1, <2>2, <2>3 DEF Oracle!OracleNext, Pending
<1> QED BY <1>1, <1>2

\* Each action of the evaluation refines the oracle's.
LEMMA StepRefines == IInv /\ [Next]_vars => [Oracle!OracleNext]_(Oracle!oracleVars)
<1> SUFFICES ASSUME IInv, [Next]_vars PROVE [Oracle!OracleNext]_(Oracle!oracleVars)
    OBVIOUS
<1>0. req \in Requests
    BY Progress
<1>1. CASE VerifyTx
    BY <1>1, TxStage, TryRefines DEF VerifyTx
<1>2. CASE ValidateOrder
    <2> DEFINE answer == CheckWindow(Preimage(request), request.now_l2)
    <2>1. Try("window", answer, "anchor") /\ pc = "window"
        BY <1>2 DEF ValidateOrder, Try
    <2>2. answer # "ok" => Reports(answer, request)
        BY <1>0, <2>1, Progress, WindowStages DEF request
    <2> QED BY <2>1, <2>2, TryRefines
<1>3. CASE ResolveAnchor
    <2>1. Try("anchor", CheckAnchor(request), "headers") /\ pc = "anchor"
        BY <1>3 DEF ResolveAnchor, Try
    <2> QED BY <2>1, Progress, AnchorStage, TryRefines
<1>4. CASE LinkHeader
    <2> DEFINE answer == CheckHeader(request, i + 1, prevHash)
    <2>1. /\ Try("headers", answer, "headers") /\ pc = "headers"
          /\ i < Len(Headers(request))
        BY <1>4 DEF LinkHeader, Try
    <2>2. prevHash = Predecessor(request, i + 1) /\ CheckAnchor(request) = "ok"
        BY <2>1 DEF IInv, LoopInvariant, Past
    <2>3. i + 1 \in 1..Len(Headers(request))
        BY <1>0, <2>1, RequestNumbers DEF IInv, TypeOK, request
    <2>4. answer # "ok" => Reports(answer, request)
        BY <1>0, <2>1, <2>2, <2>3, Progress, HeaderStage DEF request
    <2> QED BY <2>1, <2>4, TryRefines
<1>5. CASE MatchTip
    <2> DEFINE answer == CheckClaimedTip(request, prevHash)
    <2>1. /\ Try("headers", answer, "position") /\ pc = "headers"
          /\ i = Len(Headers(request))
        BY <1>5 DEF MatchTip, Try
    <2>2. /\ Linked(request, Len(Headers(request))) /\ CheckAnchor(request) = "ok"
          /\ prevHash = Predecessor(request, i + 1)
        BY <2>1 DEF IInv, LoopInvariant, Past
    <2>3. prevHash = BlockHash(Headers(request)[Len(Headers(request))])
        <3>1. i \in Nat /\ i > 0
            BY <1>0, <2>1, <2>2, AnchorChecked, RequestNumbers DEF request
        <3> QED BY <2>1, <2>2, <3>1 DEF Predecessor
    <2>4. answer # "ok" => Reports(answer, request)
        BY <1>0, <2>1, <2>2, <2>3, Progress, TipStage DEF request
    <2> QED BY <2>1, <2>4, TryRefines
<1>6. CASE LocateBlock
    <2>1. Try("position", CheckPosition(request), "inclusion") /\ pc = "position"
        BY <1>6 DEF LocateBlock, Try
    <2>2. CheckAnchor(request) = "ok" /\ CheckClaimedTip(request, prevHash) = "ok"
        BY <2>1 DEF IInv, Past
    <2>3. CheckPosition(request) # "ok" => Reports(CheckPosition(request), request)
        BY <1>0, <2>1, <2>2, Progress, PositionStages DEF request
    <2> QED BY <2>1, <2>3, TryRefines
<1>7. CASE ProveInclusion
    <2>1. Try("inclusion", CheckInclusion(request), "binding") /\ pc = "inclusion"
        BY <1>7 DEF ProveInclusion, Try
    <2> QED BY <2>1, Progress, InclusionStage, TryRefines
<1>8. CASE BindOutput
    <2>1. /\ pc = "binding" /\ req' = req
          /\ verdict' = IF CheckBinding(request) = "ok"
                        THEN Oracle!Settled(SettlementOf(request))
                        ELSE Oracle!Rejected(CheckBinding(request))
        BY <1>8 DEF BindOutput
    <2>2. verdict = Pending /\ VerifyTxid(request.bundle) = "ok"
        BY <2>1 DEF IInv, Past
    <2>3. IF CheckBinding(request) = "ok" THEN Oracle!Faultless(request)
                                          ELSE Reports(CheckBinding(request), request)
        BY <1>0, <2>1, <2>2, Progress, BindingStage DEF request
    <2>4. verdict' # Pending
        BY <2>1, Verdicts
    <2>5. CASE CheckBinding(request) = "ok"
        <3>1. Oracle!Settle
            BY <2>1, <2>3, <2>5, OracleSettlement DEF Oracle!Settle, request
        <3> QED BY <2>1, <2>2, <2>4, <3>1 DEF Oracle!OracleNext, Pending
    <2>6. CASE CheckBinding(request) # "ok"
        <3>1. Oracle!Reject
            BY <2>1, <2>3, <2>6 DEF Oracle!Reject, Reports, request
        <3> QED BY <2>1, <2>2, <2>4, <3>1 DEF Oracle!OracleNext, Pending
    <2> QED BY <2>5, <2>6
<1>9. CASE UNCHANGED vars
    BY <1>9 DEF vars, Oracle!oracleVars
<1> QED BY <1>1, <1>2, <1>3, <1>4, <1>5, <1>6, <1>7, <1>8, <1>9 DEF Next, Returned

\* evaluate_claim_bundle settles a request only if nothing is wrong with it, and
\* rejects it only with a reason from the first stage where anything is wrong,
\* whatever the chain's length, the registries and the hash functions
\* (evaluate.rs:123-234).
THEOREM Refinement == Spec => RefinesOracle
<1>1. Init => Oracle!OracleInit
    BY DEF Init, Oracle!OracleInit, Pending
<1>2. Spec => []IInv
    BY Invariance
<1> QED BY <1>1, <1>2, StepRefines, PTL DEF Spec, RefinesOracle, Oracle!OracleSpec
=============================================================================
