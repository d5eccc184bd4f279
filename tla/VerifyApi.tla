------------------------------ MODULE VerifyApi ------------------------------
(***************************************************************************)
(* Verification as a client of src/main.rs sees it: handle_http_client for *)
(* POST /api/verify and GET /api/sample, and the commands verify and       *)
(* template.  A document is read, converted, judged by the evaluation of   *)
(* ClaimVerifier, and the outcome written out again.                       *)
(*                                                                         *)
(* Documents are named.  NoRequest stands for input that cannot be read or *)
(* that serde_json rejects.                                                *)
(***************************************************************************)
EXTENDS Order, Pow, Merkle, RequestDocument

CONSTANTS
    Malformed,       \* a raw_tx that does not parse
    Documents,       \* the documents a client may have
    Written(_),      \* the JSON of each, except the sample
    Meaning(_),      \* the request each was written for, except the sample
    Illegible,       \* those that are no request
    NoRequest,
    SampleNonce,     \* the nonce that mine_header finds
    sample           \* the name of the document the service hands out

VARIABLES
    at,         \* "ask", "parse", "convert", "evaluate", "render" or "answered"
    via,        \* "POST" or "verify"
    doc,        \* the document in hand
    reply,      \* what the client gets
    pc, i, prevHash, verdict   \* the evaluation, as in ClaimVerifier

evaluation == <<pc, i, prevHash, verdict>>
vars == <<at, via, doc, reply, evaluation>>

-----------------------------------------------------------------------------
(* VerifyRequest::sample *)

SamplePreimage ==
    [solver |-> "0101", recipient |-> "0202", btc_network |-> "regtest",
     solver_btc_key_id |-> "0404", amount_sat |-> 50000, destination_token |-> "0505",
     destination_amount |-> 123456, min_confirmations |-> 1,
     max_btc_inclusion_height |-> 1000, quote_expires_at_l2 |-> 10,
     claim_deadline_l2 |-> 20, reclaim_after_l2 |-> 30,
     max_destination_amount_cap |-> 123456, replay_domain |-> "0606", nonce |-> "0707"]

SampleKeys ==
    <<[id    |-> SamplePreimage.solver_btc_key_id,
       value |-> [public_key |-> "0279", chain_code |-> "0707"]]>>

SampleTx ==
    [inputs  |-> "0303:0",
     outputs |-> <<[value_sat |-> 75000,
                    script_pubkey |-> DeriveScript(SamplePreimage, SampleKeys)]>>,
     witness |-> "none"]

SampleTxid == Sha256d([inputs |-> SampleTx.inputs, outputs |-> SampleTx.outputs])

SampleCheckpoint ==
    [network |-> "regtest", height |-> 100, hash |-> "0909", nbits |-> 32 * Weight[3] + 8388607]

SampleHeader ==
    [prev_block |-> SampleCheckpoint.hash, merkle_root |-> SampleTxid,
     nbits |-> SampleCheckpoint.nbits, nonce |-> SampleNonce]

\* mine_header's answer (module Mining has the search itself).
ASSUME SampleMined == CheckPow(SampleHeader, SampleCheckpoint.nbits) = "ok"

SampleTip ==
    [SampleCheckpoint EXCEPT !.height = @ + 1, !.hash = BlockHash(SampleHeader)]

SampleBundle ==
    [order |-> [order_id |-> OrderId(SamplePreimage), preimage |-> SamplePreimage,
                btc_script_pubkey_commitment |->
                    Commitment(DeriveScript(SamplePreimage, SampleKeys))],
     txid_internal |-> SampleTxid, raw_tx |-> SampleTx, vout |-> 0,
     merkle_proof |-> [tx_index |-> 0, siblings |-> <<>>, total_transactions |-> 1],
     tx_block_index |-> 0, checkpoint_id |-> "01",
     checkpoint_height |-> SampleCheckpoint.height,
     checkpoint_hash |-> SampleCheckpoint.hash, confirmation_headers |-> <<SampleHeader>>,
     claimed_tip_height |-> SampleTip.height, claimed_tip_hash |-> SampleTip.hash]

\* Deviation: the registry of the sample without the tip it claims.
SampleUnanchored ==
    [bundle |-> SampleBundle, keys |-> SampleKeys,
     checkpoints |-> <<[id |-> "01", value |-> SampleCheckpoint]>>, now_l2 |-> 15]

Sample ==
    [bundle |-> SampleBundle, keys |-> SampleKeys,
     checkpoints |-> <<[id |-> "01", value |-> SampleCheckpoint],
                       [id |-> "02", value |-> SampleTip]>>,
     now_l2 |-> 15]

-----------------------------------------------------------------------------
Json(name)     == IF name = sample THEN EncodeRequest(Sample) ELSE Written(name)
Intended(name) == IF name = sample THEN Sample ELSE Meaning(name)

Verifier ==
    INSTANCE ClaimVerifier WITH
        Requests <- Documents,
        Contents <- [name \in Documents |-> DecodeRequest(Json(name))],
        req      <- doc

\* A document that is a request says what it was written for.  Any other is no
\* JSON or has a text that cannot be read.
ASSUME DocumentsAssumption ==
    \A name \in Documents \ {sample} :
        LET json == Written(name) IN
        /\ json # NoRequest => IsDocument(json)
        /\ name \in Illegible <=> json = NoRequest \/ ~AllHex(json)
        /\ name \notin Illegible => /\ SaysRequest(json, Meaning(name))
                                   /\ Verifier!RequestOk(Meaning(name))

\* The sample is a document too, whose numbers fit and whose key is a point.
ASSUME SampleAssumption ==
    /\ sample \in Documents \ Illegible
    /\ NoRequest # EncodeRequest(Sample)
    /\ Malformed # SampleTx
    /\ SampleKeys[1].value \notin InvalidXpubs
    /\ Absent \notin {SampleKeys[1].value, SampleCheckpoint,
                     [xpub |-> SampleKeys[1].value,
                      path |-> ChildIndices(OrderId(SamplePreimage))]}
    /\ 1000 <= MaxU32

NoReply == [code |-> "none"]

Init == /\ at = "ask"
        /\ via \in {"POST", "verify"}
        /\ reply = NoReply
        /\ Verifier!Init

\* GET /api/sample, `template`: the client has the sample instead of its own.
FetchSample == /\ at = "ask"
               /\ doc' = sample
               /\ UNCHANGED <<at, via, reply, evaluation>>

Submit == /\ at = "ask"
          /\ at' = "parse"
          /\ UNCHANGED <<via, doc, reply, evaluation>>

\* Deviation: one answer for both.
BadRequestEverywhere(what) == [code |-> "400", reason |-> "BadRequest", field |-> what]

\* ApiVerifyResponse::bad_request and its 400; a message and exit code 1
BadRequest(what) ==
    [code |-> IF via = "POST" THEN "400" ELSE "exit 1", reason |-> "BadRequest", field |-> what]

Parse ==
    /\ at = "parse"
    /\ IF Json(doc) = NoRequest
       THEN at' = "answered" /\ reply' = BadRequest("JSON")
       ELSE at' = "convert" /\ UNCHANGED reply
    /\ UNCHANGED <<via, doc, evaluation>>

\* try_into_runtime
Convert ==
    /\ at = "convert"
    /\ LET error == ConversionError(Json(doc))
       IN  IF error = "ok" THEN at' = "evaluate" /\ UNCHANGED reply
                           ELSE at' = "answered" /\ reply' = BadRequest(error)
    /\ UNCHANGED <<via, doc, evaluation>>

Evaluate ==
    /\ at = "evaluate" /\ pc # "done"
    /\ Verifier!Next
    /\ at' = IF pc' = "done" THEN "render" ELSE at
    /\ UNCHANGED <<via, reply>>

\* ApiVerifyResponse::ok and ::err; the settlement on stdout, or
\* "verification failed" and the reason on stderr
ReplyTo(outcome) ==
    IF outcome.kind = "settled"
    THEN [code |-> IF via = "POST" THEN "200" ELSE "exit 0",
          settlement |-> Encode(outcome.settlement, SettlementSizes)]
    ELSE [code |-> IF via = "POST" THEN "422" ELSE "exit 1", reason |-> outcome.reason]

Render ==
    /\ at = "render"
    /\ at' = "answered"
    /\ reply' = ReplyTo(verdict)
    /\ UNCHANGED <<via, doc, evaluation>>

Answered == at = "answered" /\ UNCHANGED vars

Next == FetchSample \/ Submit \/ Parse \/ Convert \/ Evaluate \/ Render \/ Answered

Spec == Init /\ [][Next]_vars

-----------------------------------------------------------------------------
(* Properties *)

TypeOK ==
    /\ at \in {"ask", "parse", "convert", "evaluate", "render", "answered"}
    /\ doc \in Documents
    /\ reply.code \in IF at # "answered" THEN {"none"}
                      ELSE IF via = "POST" THEN {"200", "400", "422"}
                      ELSE {"exit 0", "exit 1"}
    /\ at = "evaluate" => pc # "done"

\* What is judged is what was written, field by field and entry by entry: the
\* fields the verdict does not depend on are not lost, and no two are mixed up.
JudgedAsWritten ==
    at = "evaluate" => Verifier!request = Intended(doc)

\* The sample that GET /api/sample and `template` hand out is a valid request
\* (README.md:56, main.rs help): posted back as it is, it is settled.
SampleSettles ==
    (at = "answered" /\ doc = sample) => reply.code \in {"200", "exit 0"}

\* What a client takes an answer for
Understood(answer) ==
    CASE answer.code = "none"              -> Verifier!Pending
      [] answer.code \in {"200", "exit 0"} ->
            [kind |-> "settled", settlement |-> Decode(answer.settlement, SettlementSizes)]
      [] OTHER -> IF answer.reason = "BadRequest" THEN [kind |-> "refused"]
                  ELSE [kind |-> "rejected", reason |-> answer.reason]

Told == Understood(reply)

Contract ==
    INSTANCE VerifyContract WITH
        Requests <- Documents,
        Contents <- [name \in Documents |-> Intended(name)],
        req      <- doc,
        verdict  <- Told

\* The service answers as its contract says, over HTTP and on the command line
\* alike: refused exactly if it is no request, and otherwise with the verdict
\* on the request that was written, however its hex is spelled.
HonoursContract == Contract!ContractSpec
=============================================================================
