# Verification of keystone-btc-proof

TLA+ models, TLC runs and TLAPS proofs about the Keystone claim verifier
(`src/`): the evaluation of a `ClaimBundle`, the pieces it is made of, the service
and the web server in front of it, its page, and the scripts that keep the server
and its tunnel running.

## The system

A solver who paid an order on Bitcoin submits a claim bundle: the order, the raw
transaction, a Merkle branch, a chain of headers above an accepted checkpoint and
the tip it ends in. `evaluate_claim_bundle` distrusts every field of it and
answers a `Settlement` or one reason of the challenge catalogue. It keeps no state
between calls. Around it are a command line, an HTTP server of one thread, a page
that talks to it, and shell scripts with three pid files.

| Component | Source | State | Operations | Correct when |
|---|---|---|---|---|
| claim evaluation | `evaluate.rs` | stage, request, verdict | `evaluate_claim_bundle` | it settles exactly the faultless requests and blames the first faulty stage |
| header linkage | `linkage.rs` | loop index, previous hash | `verify_header_chain`, `block_height`, `confirmations` | every accepted header has its work and its parent; heights never wrap |
| proof of work | `pow.rs` | - | `target_from_nbits`, `check_pow_with_expected_nbits` | a compact word is the number it denotes, bytes compared from the big end |
| Merkle inclusion | `merkle.rs` | hash, index, row width | `verify_merkle_inclusion` | accepted means: in the block, at that place |
| order identity | `order.rs`, `taproot.rs` | - | `validate`, `canonical_encode`, `order_id`, `child_indices`, `derive_script_and_commitment` | the encoding is unambiguous, an output pays one key by one path |
| transaction codec | `lib.rs` | cursor | `parse_tx`, `legacy_serialize`, `verify_txid_internal` | one transaction, one encoding |
| bundle, registries | `bundle.rs` | entry vectors | `insert`, `resolve`, `contains` | first inserted entry wins |
| catalogue | `reason.rs` | - | `ALL`, `as_str` | every rejection is in it |
| web server | `main.rs` 110-316 | connection, buffer | `serve_http`, `handle_http_client`, `read_http_request` | answers do not depend on how a request is cut up; nobody waits for ever |
| sample and mining | `main.rs` 404-509, 923-941 | nonce | `VerifyRequest::sample`, `mine_header` | what it mines has its work, and the sample settles |
| JSON and hex | `main.rs` 376-921 | - | `try_into_runtime`, `from_runtime`, `decode_hex_array` | what is judged is what was written |
| verification service | `main.rs` 30-68, 137-188 | request, reply | `POST /api/verify`, `GET /api/sample`, `verify`, `template` | it keeps its contract however it is asked |
| command line | `main.rs` 20-108 | - | `template`, `verify`, `serve`, `help` | the first two as the service; usage errors and help only print |
| page | `docs/app.html`, `main.rs` 943-1149 | text area, result, status, button, pending fetches | `loadSample`, `verify`, clicks | it shows the answer to the latest verification, and gives its button back |
| supervision | `service/service.sh`, `watchdog.sh`, `run-web.sh` | two pid files, processes, port | `start`, `stop`, `restart` | one watchdog, known to the pid file; a wanted service is served |
| tunnel | `service/tunnel.sh` | pid file, log, processes | `start`, `stop`, `restart`, `status`, `url`, `logs` | no tunnel is lost from sight without a cause |
| site, build | `docs/index.html`, `cargo.sh`, `pages.yml` | - | - | no behaviour of their own |

How they interact: `POST /api/verify` and `verify` decode a document, evaluate it and
encode the outcome; the page posts what its text area holds. The server calls the evaluation synchronously with registries
decoded from the same request, so nothing is shared between requests. The
evaluation calls the codec, the linkage (which calls the proof of work), the Merkle
check and the order derivation by value. The scripts know the server and the
watchdog only through pid files, signals, `wait` and the port.

What is hard here: boundary values (heights at the last `u32`, deadlines, odd
Merkle levels, compact words), the order of checks when several things are wrong,
what a submitter may choose freely (siblings, transaction count, tip), requests
that arrive in pieces or never end, dozens of fields converted one by one in a fixed
order, and the steps of the scripts interleaved with each other and with those of
the watchdog and the kernel. `PROJECT.json` lists each one at its line.

## Modules

    Primitives          digests, the width of heights
      Pow               target_from_nbits, check_pow; extends Digits
        Mining          mine_header                    -> MCMining, MCCodecs
      TxCodec           parse_tx and the serializers   -> MCTxCodec, MCCodecs
      Merkle            the branch loop, as a fold
        MerkleBranch    the same loop, step by step, against a real block
          MerkleBranchProofs
      Order             validate, order_id, indices, script
    Digits              numbers as bytes
      OrderCodec        canonical_encode, 256-bit order -> MCCodecs
    CodecProofs         of TxCodec, OrderCodec and Mining, all three extended
    Bundle              the request; extends Order, Pow and Merkle
      ClaimOracle       what the evaluation promises (abstract)
        VerifyContract  what the service promises (abstract)
      ClaimVerifier     evaluate_claim_bundle (detailed) -> MCClaim
        ClaimVerifierProofs   its invariants, and that it implements the oracle
    RequestCodec        the Json types
      RequestDocument   what a document says, and which can be read
      VerifyApi         document to reply, through an instance of
                        ClaimVerifier                  -> MCVerifyApi
        VerifyApiProofs       through an instance of ClaimVerifierProofs
    HttpServer          the serve loop                 -> MCHttpServer
      HttpServerProofs
    VerifierPage        the page's fetches and clicks
      VerifierPageProofs
    Supervisor          the service scripts
      SupervisorProofs
    Tunnel              the tunnel script              -> MCTunnel
      TunnelProofs

### ClaimVerifier and ClaimOracle

`pc` is the stage about to run, `i` and `prevHash` the state of the loop of
`verify_header_chain`, `verdict` what the caller gets. One action stands for one
stage: `VerifyTx` (evaluate.rs:136), `ValidateOrder` (139-146), `ResolveAnchor`
(147-162), `LinkHeader` (one turn of linkage.rs:52-69), `MatchTip`, `LocateBlock`
(171-187), `ProveInclusion` (190-198) and `BindOutput` (202-233). The operator of a
stage (`CheckAnchor`, ...) names the first reason in the order of the code's checks.
`ClaimOracle` says the same with sets of defects instead of an order: settled when
no stage has a defect, otherwise rejected with any defect of the first stage that
has one. `RefinesOracle` (`INSTANCE ClaimOracle WITH req <- req, verdict <- verdict`) checks
that the former implements the latter.

Definitions whose comment begins with "Deviation" are slips a maintainer could make
in the definition below them. Nothing uses them; each is the counterpart of a
property, which fails when the deviation takes the definition's place.

What is abstract:

- A digest is the record of what was hashed, so no two inputs collide and the
  three hash functions never meet. The numeric value of a block hash, which the
  work is compared with, is the operator `HashBytes`; in MCClaim it is the header's
  nonce. In particular a txid is never the digest of a pair of Merkle nodes: that
  a 64-byte transaction has the length of such a pair is outside the model.
- The raw transaction is what it parses to, or `Malformed` (see TxCodec).
- `U31` keeps part of a digest, as the code keeps 31 bits of it, so digests may agree in
  one index or in both. The code cannot promise that the two indices tell all orders
  apart, and nothing here assumes it: two orders of MCClaim's instance agree in both,
  and one output settles either of them.
- A script is the key and the path it was derived from; curve operations fail
  only for a registered key that is no point (`InvalidXpubs`). The other failures
  need a digest above the group order.
- `nonce` in a preimage stands for the fields that only feed the order_id, `nonce`
  in a header for version and time.
- Vectors are shorter than 2^32 (the code casts lengths with `as u32`).

### Pow, Mining

The code is base 256 with targets of 32 bytes; `Base` and `TargetLen` scale both,
everything else is as written: the sign bit, the shift of short mantissas, the
position of the mantissa, the order of bytes. The weight of a digit, `Base` to some
power, is the recursive function `Weight` of `Digits`, about which laws can be proved.
`Mining` lets every nonce have any hash and runs `for nonce in 0..u32::MAX`, which
leaves the last nonce out; its headers carry their hash value, which `HashBytes` reads
back (`HashAssumption`).

### Merkle, MerkleBranch

`MerkleBranch` puts the loop against a block whose tree is computed from all its
transactions. The prover names any txid, index, transaction count and sibling
count, and offers at every level any node of the block's level, the running hash
itself or a stray digest.

### TxCodec

The wire format over bytes below `ByteBase`: the three largest announce varints of
one, two and three more bytes, where the code has two, four and eight; a field of
fixed width is one byte. The cursor's readers answer a value and the next position,
or `Error`. Each action is one field or one turn of a loop of `parse_tx`; `Reject` is
any `return Err` of it, and `VerifyTxidInternal` compares the txid. ClaimVerifier takes
from it that a raw transaction is what it parses to, and that the txid fixes inputs
and outputs. `Valid` is a transaction within the limits of `parse_tx`: `Submissions` are
any bytes, `Genuine` any transactions that are valid.

### OrderCodec

One action for each `extend_from_slice` of `canonical_encode`, over bytes below `Base`
and scaled widths, and one for `validate`, on any of the `Preimages`. Order takes a preimage for its own encoding and amounts for numbers;
`Unambiguous` and `ComparedAsNumbers` are why it may. `MCCodecs` runs it beside TxCodec
and Mining: one state space, in which a transaction is parsed, a preimage encoded or a header mined.

### RequestCodec, VerifyApi and VerifyContract

A document has the shape of the request it describes, with a text where the request
has bytes: how often it opens with `0x`, how many characters follow, whether they are
hex, and what they spell. `Reads` lists what `try_into_runtime` reads, in its order,
with the field name an error gets; `DecodeRequest` is the request that comes of it.
Documents that serde rejects are one document, `NoRequest`. `RequestDocument` says
from the outside, in no order and without the converters, when a document says a
request (`SaysRequest`) and when all its hex can be read (`AllHex`). A name in `Documents`
is any document with the request it was written for, its `Meaning`; the assumption is
no more than that the two belong together.

`VerifyApi` takes a document through `Parse`, `Convert`, the stages of `ClaimVerifier`
(instantiated with the decoded documents as its requests) and `Render`; `via` says
whether it was posted or given to the command. `FetchSample` is `GET /api/sample` and
`template`, and `Sample` what `VerifyRequest::sample` builds, with its real numbers.
`HonoursContract` shows that all of this implements `VerifyContract`: refuse exactly
what is no request, and answer anything else as the oracle allows for the request that
was *written* - the mapping (`Told`) decodes the settlement of the reply again, and the
contract never sees the hex.

### HttpServer

Clients connect, send up to any cut of their message, hang up for sending (`eof`) or
altogether (`gone`). The server's thread accepts, reads the head chunk by chunk
until the first empty line, parses it, reads the rest of the body, cuts it at
Content-Length, answers and closes. Errors only close the connection, as `?`
does. A unit is a byte, but one `Crlf` stands for the two of a line end; 1024, 1 MiB and
2 MiB are `Chunk`, `MaxHead` and `MaxBody`. What the evaluation says of a posted body
is the operator `Judge`.

### VerifierPage

A handler runs to its next `await`: `ClickVerify` is `verify` up to its fetch, `Respond`
the moment the response begins, `FinishVerify` or `FailVerify` what follows its text
or an exception, and likewise for `loadSample`, which also runs when the page opens.
Between them the user types and clicks, and other calls continue. A call remembers the
text it was started with. Who answers may be a proxy with an error page. `page`
says, for good, whether it is the page inside the program or `docs/app.html`: only the latter catches what a
clicked load throws (`FailSample`; in the former it is lost, `LoseSample`) and saves an
endpoint. `apiBase` and `localStorage` are left out: they only choose whom the page asks.

### Supervisor

One step is one command of a script: the test of a pid file, a kill, a rm, the
launch of a process, the write of its pid. Processes have pids 1..NumPids; `kill -0`
reaches a process until it is gone, and one killed or crashed is `exiting` (still
holding its port) for a while. SIGTERM has its default action. One operator gives
the commands one after the other. The kernel does not hand out a pid that a file
or a waiting watchdog still holds, and a process is reaped when it is gone.

### Tunnel

Each operator's run of `tunnel.sh` is at one command: the read of the pid file and the
`kill -0` that follows it are two steps, as are the truncation of the pid file and its
write, and `stop` reads the file again for its kill. Runs overlap and are interrupted
anywhere, which leaves a launched tunnel behind. Tunnels die, and a pid that is free
goes to any process, whatever pid file names it. `excused` is no state of the script: it
holds the tunnels whose start was cut short or overlapped with another command, the
causes for which one may be lost. `service.sh` tests and writes the watchdog's pid file
in the same way, so what is said here of two operators and of reused pids holds of it. `url` and `logs`
only read the log, which is left out.

## Runs

| Run | Instance | What it shows |
|---|---|---|
| `claim` | 3 canonical blocks, a fork of 2, 6 header variants in 17 chains, heights 9..12 with `MaxU32 = 12`, 5 registries, 6 key registries, clocks 0..4; one edit of a consistent bundle at a time, and combinations of defects | the five invariants, `SettledIsCanonical`, and refinement of the oracle; among the orders are two that agree in one index and two that agree in both |
| `merkle` | blocks of 1..7 transactions, claims of 0..8 with every branch length | no false branch, every genuine one |
| `codecs` | transactions: base 5, up to 3 inputs, 2 outputs, 2 witness items and 24 bytes; 315 of them, 72 also cut, prolonged, with every byte dropped, altered, preceded by another or written as a longer varint, and 6 that break a limit. Preimages: base 4, arrays and u64 of 2, addresses and u32 of 1; two neighbouring fields, or the two compared, at all their values. Mining: base 4, targets of 5 digits, every compact word with exponents 0..7, 8 hash values, 3 nonces | one encoding per transaction, always accepted; the txid fixes all but the witness; the encoding of a preimage gives every field back, and amounts compare as numbers; targets exact, work real, failure genuine |
| `http` | one client with each of 19 messages around the limits, another with two; chunks of 2, `MaxHead` 5, `MaxBody` 3 | answers independent of cuts, limits, drops only for cause, nobody starves |
| `verify_api` | the sample, and 12 variants of it in three spellings; every field of bytes spoilt in up to five ways, 9 documents with two spoilt fields, and one that is no JSON; real targets | judged as written, refused for a culprit, the sample settles, and refinement of the contract |
| `tunnel` | 2 operators with any sequence of commands, 3 pids | a tunnel is lost only for a cause, a stop that meets nobody stops it |
| `page` | both copies of the page; 3 calls, the first for the sample; the sample, an error page, and no text | the answer shown is the latest, the verdict is the answer's, the button comes back, loading ends on the published page |
| `supervisor` | 3 commands, 2 crashes, 8 pids | one watchdog, files that name what is at work, the service comes back |
| `claim_catalogue_order`, `page_sample`, `supervisor_stop`, `mining_zero` | as above | where a comment or a message of the repository says something else than the code does |

Why the bounds suffice. Claims are judged independently and the linkage loop only
looks at one header and the hash before it, so three blocks hold every pair of
neighbours, a first, an inner and a last one; heights 9..12 put the last `u32` before,
in and behind the chain. Blocks up to 7 transactions have every pattern of odd and
even levels up to depth 3, with odd levels at the leaves and inside. Base 5 leaves bytes 0 and 1 for
small counts, so that the segwit marker, each varint form at its smallest number and a
form no limit allows all occur. Base 4 keeps a
sign bit, three mantissa digits and exponents on both sides of 3 and of the
target's length. Two chunks of two units and a limit of five make the head end before,
at, one over and more than a chunk over the limit. Eight pids never run out
(`TypeOK` says so), and three commands are a start, a stop or restart and what
comes after it. Three calls of the page are two verifications beside a sample, or two
samples beside a verification. Two operators are every pair of overlapping commands,
and three pids the tunnels both launch and a process that has nothing to do with them.
The fields next to each other in the encoding are the ones that could run together.

### What the properties say

- `SettlementSound`, `LoopInvariant`: what settles rests on a chain verified down
  to the checkpoint, whose both ends are accepted, inside the claim window, and
  pays the order's script.
- `HeightArithmetic`: heights are counted and never wrap; block, depth and tip agree.
- `OneOutputOnePath`: the orders that one output settles are paid to one key and agree in
  both 31-bit indices of their order_ids. So an output settles two orders only where
  all 62 bits collide, and then it does.
- `SettledIsCanonical`: with honest registries, a settlement is true of Bitcoin.
- `AcceptedIsInBlock`, `GenuineAccepted`: Merkle proofs are sound and complete, also
  across duplicated last nodes and claimed transaction counts.
- `Canonical`, `GenuineRead`, `TxidCommits`: accepted bytes are the serialization of what
  they were read as, every transaction within the limits is read, and bytes accepted
  for a txid hold that transaction's inputs and outputs.
- `TargetIsExact`, `MiningIsHonest`: the target is the number its compact word denotes,
  zero among them, and fits its bytes; what is mined has its work, and mining gives up only
  where there is none.
- `AnsweredAsSent`, `LimitsPart` (`WithinLimits` and `DroppedForCause`), `EveryoneServed`: the
  server.
- `Unambiguous`, `ComparedAsNumbers`: two preimages never share an order id for their
  encoding, and the cap is compared by value.
- `JudgedAsWritten`, `RefusalNamesCulprit`, `SampleSettles`, `HonoursContract`: no field is
  lost or mixed up on the way in, a refusal names a field that cannot be read, the
  service's own sample is settled, and HTTP and command line tell the same.
- `AnswerIsLatest`, `VerdictAgrees`, `ButtonComesBack`, `LoadingEnds`: the page.
- `OrphanHasCause`, `StopStops`: the tunnel.
- `OneWatchdog`, `PidFilesTrue` (`WatchdogRecorded` and `AppRecorded`),
  `ServedWhileWanted`: the scripts.

### Disagreements found

Each with a run that shows it:

1. `reason.rs:54` calls the order of `ChallengeReason::ALL` the order of evaluation;
   the code reports `ReclaimPhaseStarted` where `ClaimExpired`, listed first, holds too.
2. `service.sh:55` prints "stopped" although a stop that runs between the watchdog's
   launch of the server and the write of its pid leaves that server running.
3. `docs/app.html:179` announces the sample as ready although the text may be an error
   page: `loadSample` does not look at `res.ok`.
4. `pow.rs:15` counts zero under `InvalidTarget`; `target_from_nbits` looks at the mantissa
   before an exponent below 3 shifts it out (`pow.rs:61-68`), so a word such as `0x00000001`
   passes for the target zero, and a header with it is told `BadHeaderPoW` unless its hash
   is zero.

Seen while modelling, and not the subject of a run:

- `evaluate.rs:12-14` puts the anchor before the depth; the claimed tip is looked up
  after it (line 185), so an unaccepted tip may be answered with a depth reason. The
  model has the order of the code.
- `pow.rs:54` lists negative, zero and overflowing words as the rejected ones; a word
  with an exponent of 33 and a small mantissa fits 256 bits and is rejected too.
- `main.rs:1135` gives `loadSample` itself to the load button: a clicked load that fails
  leaves "Carregando exemplo..." (line 1098) on the served page for good. The opening
  load, and both loads of `docs/app.html`, are caught, which is why `LoadingEnds` is
  about the published page.
- `tunnel.sh:13` prints "tunnel already running" for any process that has the pid of a
  tunnel that is gone.
- `tunnel.sh:62` escapes the dot twice in a raw string, so the pattern of `url` wants a
  backslash that no address has.

## Fairness

The evaluation and the Merkle loop are checked for safety, and for deadlock: one that
stops anywhere but at its end would be one. The codecs and mining are checked for safety.

`HttpServer`: weak fairness of the server's thread as a whole, which the operating
system schedules whenever a read can return. Nothing is assumed of clients; what
`EveryoneServed` needs of them is its hypothesis, that every waiting client in the
end has delivered its request or hangs up. Without it the property fails, because
there is no read timeout.

`VerifierPage`: weak fairness of every call: a browser's fetch ends in a response, a
text or an exception. Nothing is assumed of the user.

`Tunnel`: safety only; a script may stop anywhere.

`Supervisor`: weak fairness of every script, watchdog, server start and process
exit: each can always take its next step. Commands and crashes are never forced,
and crashes are bounded, so `ServedWhileWanted` speaks of the time after the last.

Deadlock is not checked in `HttpServer` and `Supervisor`, where idle clients or a stopped service may
remain so for ever, nor in `MCCodecs`, which ends with a verdict.

## Proofs

TLAPS proves what follows for every value of the constants: any requests, registries,
documents and messages, transactions and preimages, blocks of any size, any number of
clients, calls, operators and processes, and any bases, widths, chunks and limits.

| Module | Theorem | States |
|---|---|---|
| `ClaimVerifierProofs` | `TypeCorrect` | `TypeOK`: reasons come from the catalogue |
| | `LoopCorrect` | `LoopInvariant`, for chains of any length |
| | `SettlementIsSound` | `SettlementSound` |
| | `HeightsAreSound` | `HeightArithmetic` |
| | `OutputHasOnePath` | `OneOutputOnePath` |
| | `Refinement` | `RefinesOracle`: the evaluation implements `ClaimOracle` |
| `MerkleBranchProofs` | `TypeCorrect`, `ProofsAreSound`, `ProofsAreComplete` | `TypeOK`, `AcceptedIsInBlock`, `GenuineAccepted` |
| `CodecProofs` | `WithinLimits` | `TypeOK` of TxCodec |
| | `AcceptedAsWritten` | `Canonical`: a transaction has one encoding |
| | `TxidSaysAllButWitness` | `TxidCommits` |
| | `GenuineAreRead` | `GenuineRead`: nothing valid is refused or misread |
| | `WrittenInFull`, `OrderIsReadBack`, `AmountsAreCompared` | `OrderTypeOK`, `Unambiguous`, `ComparedAsNumbers` |
| | `TargetsAreBytes`, `TargetsAreExact`, `WorkIsReal` | `MiningTypeOK`, `TargetIsExact`, `MiningIsHonest` |
| `VerifyApiProofs` | `TypeCorrect`, `JudgedIsWritten` | `TypeOK`, `JudgedAsWritten` |
| | `Refinement` | `HonoursContract`: the service implements `VerifyContract` |
| | `SampleIsSettled` | `SampleSettles` |
| `HttpServerProofs` | `TypeCorrect`, `AnswersAreOfTheMessage`, `LimitsPartMessages` | `TypeOK`, `AnsweredAsSent`, `LimitsPart` |
| `VerifierPageProofs` | `TypeCorrect`, `LatestAnswer`, `VerdictsAgree` | `TypeOK`, `AnswerIsLatest`, `VerdictAgrees` |
| `SupervisorProofs` | `TypeCorrect`, `OnlyOneWatchdog`, `PidFilesAreTrue` | `Typed`, `OneWatchdog`, `PidFilesTrue` |
| `TunnelProofs` | `TypeCorrect`, `OrphansHaveCauses` | `TypeOK`, `OrphanHasCause` |
| | `StopsStop` | `StopStops`, an action property |

Each module also has `Invariance`, the inductive invariant `IInv` (`InitIInv`, and `NextIInv`
with a lemma for each action or kind of action) from which its theorems follow. In
`CodecProofs` there is one for each of its three machines: `IInv` (`ReadAsWritten`),
`OrderIInv` (`WrittenInPlace`) and `MiningIInv` (`MiningKeeps`).
The theorems are about each machine's own specification (`Spec`, `OrderSpec`, `MiningSpec`),
which `MCCodecs` runs side by side; the codec of preimages and the compact
format share `Base`, which is at least 4 for both.

### The inductive invariants

None of the properties is inductive by itself.

- `ClaimVerifier`: `SettlementSound` speaks of the end of an evaluation whose last step only
  checks the binding. `IInv` remembers for each stage that it answered "ok" if the
  evaluation is past it (`Past`), the Merkle proof among them, that the loop's hash is
  that of the last accepted header, and that the verdict is pending until the end.
  A `Check*` operator has a lemma that it answers "ok" or a reason of the catalogue,
  and one that says what an "ok" means. `OutputHasOnePath` goes from two settleable
  requests with one txid to one transaction (digests do not collide), to one script,
  one key and one path, whatever bits a path keeps.
- The oracle: stage by stage, a `Check*` that answers a reason found a defect of that
  stage, and one that answers "ok" found none; with `IInv` the stages before have none
  either. The linkage loop needs the invariant twice, since the oracle speaks of all
  headers at once. Every step then is the oracle's or a stutter.
- `MerkleBranch`: `Typed` says that the row claimed still holds the index and has as many
  levels above it as there are siblings left. `Traced` follows the running hash: if it
  is any node of the block's real tree, it is one of the row the loop has come to,
  it grew from the claimed txid, a leaf, and the claimed index is that leaf's if the
  loop's index is the node's. It cannot be a node of another row, since no digest of a
  pair is that of a transaction. `ProofsAreComplete` needs no invariant but the block's
  size: `BranchFold` says that the fold goes through the branch from its first sibling
  to its last, and `GenuineTurn` that a turn takes the running hash to its parent,
  since the nodes of a row are distinct (`RowDistinct`) and a place halves (`PlacesAre`).
- `TxCodec`: what the cursor has passed is what would be written for what has been read so
  far (`IInv`, with `Written` for each place of the parser), the count of the vector at
  work included, which is that of the elements read and of those still to come. A reader
  has a lemma that it takes what a writer gives, and no other bytes: a varint is accepted
  in its shortest form only. At the end of the bytes that is `Canonical`. For
  `TxidCommits` the legacy serialization is cut into the same pieces on both sides,
  varint by varint, vector by vector (`VarintCuts`, `InputCut`, `OutputCut`). For `GenuineRead`,
  the other direction, `Traced` says that on the bytes of a valid transaction the parser
  has read the beginning of that very transaction and has as many turns left as it has
  elements; it then cannot stop anywhere but at its end. That a marker is no count needs
  that a valid transaction has an input.
- `OrderCodec`: each field written stands at its `Offset` (`Placed`), which later ones do not
  disturb; read back, a number is its digits' sum. `validate`'s comparison decides at the
  first digit that differs, which outweighs all digits behind it.
- `Mining`: no nonce tried before this one would have done (`MiningIInv`). The rest is about
  a word: its three digits, put at their places among zeros, sum up to the number it
  denotes, and a hash whose bytes are reversed is the number they spell.
- `VerifyApi`: a document under evaluation is legible, every invariant of the evaluation
  holds of it (`Judge!IInv`), and a verdict or a reply is one the oracle allows. `Judge` is
  `ClaimVerifierProofs` instantiated with the meanings of the documents instead of what
  `DecodeRequest` makes of them. `SameRequest` shows that the two agree, field by field, from
  the texts `Reads` lists; so a step of the service's verifier is a step of `Judge`, whose
  theorems apply. The instance's own assumptions are proved (`JudgeAssumption`).
- `HttpServer`: what the server holds of a message, the socket and the buffers joined, is
  a prefix of what was sent, with the head's end at its place (`HoldsMessage`); a client
  is in the queue once, and is not the one served (`QueuedOnce`).
- `VerifierPage`: the disabled button stands for exactly one verification in flight, which
  is the latest (`OneInFlight`, `LatestInFlight`), and the answer shown is that of the latest
  but for the one in flight (`AnswerSettled`).
- `Supervisor`: from its test to its record a start has no watchdog in the pid file, nor
  has a stop between its kill and its rm (`SupervisorGone`), and a stop that goes on to the
  server has no watchdog left (`NoWatchdogLeft`).
- `Tunnel`: while the pid file names a tunnel nobody has an excuse for, no run is beyond
  its test, and whoever has read the file has read that pid (`FileGuards`); a run that met
  nobody is the only one (`AloneIsAlone`).

### What is assumed

The assumptions are named in the modules that declare the constants, and TLC evaluates
each on a run: `RequestsAssumption` (the Rust types of a request), `MaxU32Assumption` and
`PowAssumption` (widths are numbers, an even base, room for a mantissa), `MerkleBranchAssumption`
and `StrayAssumption` (the stray digest is none of the block's), `MessagesAssumption`,
`UnitsAssumption`, `ClientsAssumption` and `LimitsAssumption` (a head ends at its first empty
line, Content-Length is a `usize` or unreadable), `TextsAssumption` and `MaxCallsAssumption`,
`SupervisorAssumption` and `NoPidAssumption` (the mark for "no pid" is none),
`DocumentsAssumption` and `SampleAssumption` (documents and meanings belong together; the
sample's numbers fit and its key is a point), `SampleMined` (`mine_header` answered with a
header that has its work, which module Mining is about), `ByteBaseAssumption` (bytes hold the
three marks of a varint and both bytes of a segwit marker), TxCodec's `LimitsAssumption` (no
count within the limits outgrows a varint), `SubmissionsAssumption` (submissions are bytes),
`GenuineAssumption` (what they are compared with is within the limits), `OptionAssumption` (`None`
and `Err` are no values), `WidthsAssumption` (the four network tags are bytes) and
`PreimagesAssumption` (the Rust types of a preimage), `MiningAssumption` and `HashAssumption`
(hash values fit their bytes, and are those `HashBytes` reads). No theorem has a hypothesis beyond these.

Depths, rows, places, folds, weights, offsets, numerals and vectors joined one after the other
are recursive functions, of which nothing follows before one knows that such a function
exists. `MerkleBranchProofs`, `VerifyApiProofs` and `CodecProofs` give the function and show
that it satisfies its equation, from the least number at which it would not: a set of numbers has a least one, while an induction
principle would take a property as its parameter.

### Only model-checked

- Liveness: `ServedWhileWanted`, `ButtonComesBack`, `LoadingEnds`, `EveryoneServed`. They need
  ENABLED, which the prover has not.
- The part of `Supervisor!TypeOK` that a free pid is left: it depends on how many commands,
  crashes and pids there are, which is why the theorem is about `Typed`.
- `RefusalNamesCulprit`, which is about the texts of the run's own documents, and
  `SettledIsCanonical`, about the run's own chain.
- `CodecsTypeOK`, which puts three type invariants together for the run that has the codecs
  and mining in one state space; each of the three is proved of its own.

## Not modelled

serde's parsing of JSON (a document is a request or it is none), curve arithmetic, the
static site and the build, usage errors and `help` of the command line, `status` of
`service.sh`, both `logs`, and `url` of `tunnel.sh` (they print), `final_order_hash` and `wtxid_internal` (nothing
in the program calls them). A transaction of 64 bytes, whose digest could be that of a
pair of Merkle nodes, is outside the models: digests are symbolic. That the page's
verdict may stand beside a text edited since is no property: nothing on the page says
which text the verdict is about.

## Plan

1. done: claim evaluation with its oracle, Merkle, targets and mining, the codecs, the
   service with its contract, server, both pages, supervision and tunnel; the invariants
   of the evaluation proved.
2. done: the theorems above.
3. done: the proofs of both codecs, of the compact format and of mining, for which powers
   became a recursive function.
4. Two operators for `Supervisor` itself, beside its watchdog.
