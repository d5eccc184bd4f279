------------------------------ MODULE TxCodec ------------------------------
(***************************************************************************)
(* src/lib.rs: the wire format of a transaction, parse_tx over its cursor  *)
(* and verify_txid_internal, the first stage of every evaluation.          *)
(*                                                                         *)
(* A byte is a number below ByteBase, whose three largest announce the     *)
(* longer varints; a field of fixed width (version, txid, vout, sequence,  *)
(* value, lock time) is one byte.  A varint keeps its form: its first      *)
(* byte, then one, two or three more where the code has two, four or       *)
(* eight, each form for the values the shorter ones cannot hold.           *)
(*                                                                         *)
(* A transaction is [version, inputs, outputs, witnesses, lock_time], with *)
(* Absent for the witnesses of a legacy one.                               *)
(***************************************************************************)
EXTENDS Primitives, SequencesExt

CONSTANTS
    ByteBase,           \* 256
    MaxTxBytes, MaxInputs, MaxOutputs, MaxWitnessItems,
    Submissions,        \* what may be submitted: [raw, claimed]
    Genuine,            \* transactions a submission is compared with
    Error               \* what Err(BadTxEncoding) stands for

Octet == 0..(ByteBase - 1)

ASSUME ByteBaseAssumption == ByteBase \in Nat /\ ByteBase > 4

\* No length and no count that the limits allow outgrows the longest varint.
ASSUME LimitsAssumption ==
    {MaxTxBytes, MaxInputs, MaxOutputs, MaxWitnessItems}
        \subseteq 0..(ByteBase * ByteBase * ByteBase - 1)

ASSUME SubmissionsAssumption == \A s \in Submissions : s.raw \in Seq(Octet)

\* What a transaction is made of
InputType  == [prev : [1..2 -> Octet], script_sig : Seq(Octet), sequence : Octet]
OutputType == [value_sat : Octet, script_pubkey : Seq(Octet)]
Stack      == Seq(Seq(Octet))
Transaction ==
    [version : Octet, inputs : Seq(InputType), outputs : Seq(OutputType),
     witnesses : {Absent} \cup Seq(Stack), lock_time : Octet]

\* None is no vector, and Err holds nothing that was read.
ASSUME OptionAssumption ==
    /\ Absent \notin Seq(Stack)
    /\ Error \notin [value : Octet \cup Seq(Octet) \cup Nat \cup InputType \cup OutputType,
                    next : Nat]

VARIABLES
    raw,        \* the bytes submitted
    claimed,    \* the txid they are claimed to have
    p,          \* bytes consumed
    at,         \* the field parse_tx reads next, then "parsed" and the verdict
    left,       \* turns left of the loop it is in
    tx,         \* what has been read
    stack       \* the witness being read

vars == <<raw, claimed, p, at, left, tx, stack>>

----------------------------------------------------------------------------
(* Serialization.                                                          *)

\* The first byte of each longer form, and the bytes that follow it.
Marker(width) == ByteBase - 4 + width
Widths == 1..3

Power(n) == IF n = 0 THEN 1 ELSE IF n = 1 THEN ByteBase ELSE ByteBase * ByteBase

\* The least number that needs a form.
Least(width) == IF width = 1 THEN Marker(1) ELSE Power(width - 1)

LittleEndian(n, width) == [k \in 1..width |-> (n \div Power(k - 1)) % ByteBase]

WriteVarint(n) ==
    IF n < Least(1) THEN <<n>>
    ELSE LET width == CHOOSE w \in Widths :
                          n >= Least(w) /\ \A v \in Widths : v > w => n < Least(v)
         IN  <<Marker(width)>> \o LittleEndian(n, width)

WriteBytes(s) == WriteVarint(Len(s)) \o s

\* A vector: its length and what was written for each element.
WriteAll(parts) == WriteVarint(Len(parts)) \o FlattenSeq(parts)

WriteInput(in)   == in.prev \o WriteBytes(in.script_sig) \o <<in.sequence>>
WriteOutput(out) == <<out.value_sat>> \o WriteBytes(out.script_pubkey)
WriteWitness(w)  == WriteAll([k \in DOMAIN w |-> WriteBytes(w[k])])

WriteInputs(t)  == WriteAll([k \in DOMAIN t.inputs |-> WriteInput(t.inputs[k])])
WriteOutputs(t) == WriteAll([k \in DOMAIN t.outputs |-> WriteOutput(t.outputs[k])])

\* Deviation: a script_sig goes into the txid without its length.
LegacyUnframed(t) ==
    <<t.version>>
        \o WriteAll([k \in DOMAIN t.inputs |-> t.inputs[k].prev \o t.inputs[k].script_sig
                                                  \o <<t.inputs[k].sequence>>])
        \o WriteOutputs(t) \o <<t.lock_time>>

LegacySerialize(t) == <<t.version>> \o WriteInputs(t) \o WriteOutputs(t) \o <<t.lock_time>>

WireSerialize(t) ==
    IF t.witnesses = Absent THEN LegacySerialize(t)
    ELSE <<t.version, 0, 1>> \o WriteInputs(t) \o WriteOutputs(t)
             \o FlattenSeq([k \in DOMAIN t.witnesses |-> WriteWitness(t.witnesses[k])])
             \o <<t.lock_time>>

Txid(t) == Sha256d(LegacySerialize(t))

\* A transaction within the limits of parse_tx, with witness data if it has
\* witnesses at all.
Valid(t) ==
    /\ t \in Transaction
    /\ Len(WireSerialize(t)) <= MaxTxBytes
    /\ Len(t.inputs) \in 1..MaxInputs
    /\ Len(t.outputs) \in 1..MaxOutputs
    /\ t.witnesses # Absent =>
          /\ Len(t.witnesses) = Len(t.inputs)
          /\ \E k \in DOMAIN t.witnesses : t.witnesses[k] # <<>>
          /\ \A k \in DOMAIN t.witnesses : Len(t.witnesses[k]) <= MaxWitnessItems

ASSUME GenuineAssumption == \A t \in Genuine : Valid(t)

----------------------------------------------------------------------------
(* The cursor.  A reader answers [value, next], next being the position    *)
(* behind what it read, or Error.                                          *)

Remaining == Len(raw) - p

Take(from, n) ==
    IF Len(raw) - from < n THEN Error
    ELSE [value |-> SubSeq(raw, from + 1, from + n), next |-> from + n]

Number(bytes) == FoldRight(LAMBDA b, n : b + ByteBase * n, bytes, 0)

\* Deviation: the length of a longer form is not questioned.
MinimalAny(n, width) == TRUE

\* Deviation: the smallest number of a longer form is taken for too small.
MinimalStrict(n, width) == n > Least(width)

\* A longer form is refused for a number that a shorter one holds.
Minimal(n, width) == n >= Least(width)

Varint(from) ==
    IF Take(from, 1) = Error THEN Error
    ELSE IF raw[from + 1] < Marker(1) THEN [value |-> raw[from + 1], next |-> from + 1]
    ELSE LET width == raw[from + 1] - Marker(1) + 1
             rest  == Take(from + 1, width)
         IN  IF rest = Error THEN Error
             ELSE IF ~Minimal(Number(rest.value), width) THEN Error
             ELSE [value |-> Number(rest.value), next |-> rest.next]

VarBytes(from) ==
    LET n == Varint(from)
    IN  IF n = Error THEN Error
        ELSE IF n.value > MaxTxBytes THEN Error
        ELSE Take(n.next, n.value)

\* Deviation: a length of zero is let through.
CountOrNone(from, allowed) ==
    LET n == Varint(from)
    IN  IF n = Error THEN Error
        ELSE IF n.value \notin allowed \cup {0} THEN Error ELSE n

\* The length of a vector.
Count(from, allowed) ==
    LET n == Varint(from)
    IN  IF n = Error THEN Error ELSE IF n.value \notin allowed THEN Error ELSE n

----------------------------------------------------------------------------
Init ==
    /\ \E s \in Submissions : raw = s.raw /\ claimed = s.claimed
    /\ p = 0 /\ at = "version" /\ left = 0 /\ stack = <<>>
    /\ tx = [version |-> 0, inputs |-> <<>>, outputs |-> <<>>,
             witnesses |-> Absent, lock_time |-> 0]

Reject == at' = "rejected" /\ UNCHANGED <<raw, claimed, p, left, tx, stack>>

\* The step that reads what the reader found, or gives up.
Reading(reader, accept) ==
    \/ reader = Error /\ Reject
    \/ reader # Error /\ p' = reader.next /\ accept /\ UNCHANGED <<raw, claimed>>

ReadVersion ==
    /\ at = "version"
    /\ LET version == IF Len(raw) > MaxTxBytes THEN Error ELSE Take(0, 1)
       IN  Reading(version, /\ tx' = [tx EXCEPT !.version = version.value[1]]
                            /\ at' = "marker"
                            /\ UNCHANGED <<left, stack>>)

\* No input count is zero, so a zero byte here can only mark a segwit encoding.
ReadMarker ==
    /\ at = "marker"
    /\ \/ /\ Remaining > 0 /\ raw[p + 1] # 0
          /\ at' = "in_count" /\ UNCHANGED <<p, tx>>
       \/ /\ Remaining > 1 /\ raw[p + 1] = 0 /\ raw[p + 2] = 1
          /\ p' = p + 2 /\ at' = "in_count" /\ tx' = [tx EXCEPT !.witnesses = <<>>]
       \/ /\ IF Remaining > 0 THEN raw[p + 1] = 0 ELSE TRUE
          /\ IF Remaining > 1 THEN raw[p + 2] # 1 ELSE TRUE
          /\ at' = "rejected" /\ UNCHANGED <<p, tx>>
    /\ UNCHANGED <<raw, claimed, left, stack>>

CountInputs ==
    /\ at = "in_count"
    /\ LET n == Count(p, 1..MaxInputs)
       IN  Reading(n, left' = n.value /\ at' = "input" /\ UNCHANGED <<tx, stack>>)

Input ==
    LET prev     == Take(p, 2)
        script   == IF prev = Error THEN Error ELSE VarBytes(prev.next)
        sequence == IF script = Error THEN Error ELSE Take(script.next, 1)
    IN  IF sequence = Error THEN Error
        ELSE [value |-> [prev |-> prev.value, script_sig |-> script.value,
                         sequence |-> sequence.value[1]],
              next  |-> sequence.next]

ReadInput ==
    /\ at = "input"
    /\ Reading(Input, /\ tx' = [tx EXCEPT !.inputs = Append(@, Input.value)]
                      /\ left' = left - 1
                      /\ at' = IF left = 1 THEN "out_count" ELSE "input"
                      /\ UNCHANGED stack)

CountOutputs ==
    /\ at = "out_count"
    /\ LET n == Count(p, 1..MaxOutputs)
       IN  Reading(n, left' = n.value /\ at' = "output" /\ UNCHANGED <<tx, stack>>)

Output ==
    LET value  == Take(p, 1)
        script == IF value = Error THEN Error ELSE VarBytes(value.next)
    IN  IF script = Error THEN Error
        ELSE [value |-> [value_sat |-> value.value[1], script_pubkey |-> script.value],
              next  |-> script.next]

ReadOutput ==
    /\ at = "output"
    /\ Reading(Output, /\ tx' = [tx EXCEPT !.outputs = Append(@, Output.value)]
                       /\ left' = left - 1
                       /\ at' = IF left > 1 THEN "output"
                                ELSE IF tx.witnesses = Absent THEN "lock_time" ELSE "items"
                       /\ UNCHANGED stack)

\* Deviation: a segwit encoding without witness data is let through.
PushWitnessAny(w) ==
    LET all == Append(tx.witnesses, w)
    IN  /\ tx' = [tx EXCEPT !.witnesses = all]
        /\ stack' = <<>>
        /\ at' = IF Len(all) < Len(tx.inputs) THEN "items" ELSE "lock_time"

\* A witness is complete: the next input's follows, or the test that there is
\* witness data at all.
PushWitness(w) ==
    LET all == Append(tx.witnesses, w)
    IN  /\ tx' = [tx EXCEPT !.witnesses = all]
        /\ stack' = <<>>
        /\ at' = IF Len(all) < Len(tx.inputs) THEN "items"
                 ELSE IF \A k \in DOMAIN all : all[k] = <<>> THEN "rejected"
                 ELSE "lock_time"

CountItems ==
    /\ at = "items"
    /\ LET n == Count(p, 0..MaxWitnessItems)
       IN  Reading(n, /\ left' = n.value
                      /\ \/ n.value = 0 /\ PushWitness(<<>>)
                         \/ n.value > 0 /\ at' = "item" /\ UNCHANGED <<tx, stack>>)

ReadItem ==
    /\ at = "item"
    /\ LET item == VarBytes(p)
       IN  Reading(item, /\ left' = left - 1
                         /\ \/ left = 1 /\ PushWitness(Append(stack, item.value))
                            \/ /\ left > 1 /\ stack' = Append(stack, item.value)
                               /\ UNCHANGED <<at, tx>>)

\* The last field must end the input.
LockTime == IF Remaining # 1 THEN Error ELSE Take(p, 1)

ReadLockTime ==
    /\ at = "lock_time"
    /\ Reading(LockTime, /\ tx' = [tx EXCEPT !.lock_time = LockTime.value[1]]
                         /\ at' = "parsed"
                         /\ UNCHANGED <<left, stack>>)

VerifyTxidInternal ==
    /\ at = "parsed"
    /\ at' = IF Txid(tx) = claimed THEN "accepted" ELSE "mismatch"
    /\ UNCHANGED <<raw, claimed, p, left, tx, stack>>

Next ==
    \/ ReadVersion \/ ReadMarker \/ CountInputs \/ ReadInput
    \/ CountOutputs \/ ReadOutput \/ CountItems \/ ReadItem
    \/ ReadLockTime \/ VerifyTxidInternal

Spec == Init /\ [][Next]_vars

----------------------------------------------------------------------------
Limit == [input |-> MaxInputs, output |-> MaxOutputs, item |-> MaxWitnessItems]

\* The parser stays within the bytes and its loops within their limits: no
\* turn begins that was not announced (lib.rs:154-161, 249-297).
TypeOK ==
    /\ raw \in Seq(Octet)
    /\ p \in 0..Len(raw)
    /\ at \in {"version", "marker", "in_count", "input", "out_count", "output", "items",
               "item", "lock_time", "parsed", "accepted", "mismatch", "rejected"}
    /\ left \in Nat
    /\ at \in DOMAIN Limit => left \in 1..Limit[at]
    /\ at = "item" => Len(stack) + left <= MaxWitnessItems

\* Empty witnesses are no witnesses.
Plain(t) ==
    IF t.witnesses = Absent THEN t
    ELSE IF \A k \in DOMAIN t.witnesses : t.witnesses[k] = <<>>
    THEN [t EXCEPT !.witnesses = Absent]
    ELSE t

\* A transaction has one encoding: what parse_tx accepts (lib.rs:232) is, byte
\* for byte, what wire_serialize writes for it, and one without witness data is
\* in the legacy form.  So an accepted raw_tx cannot be altered into another
\* one that reads the same.
Canonical == at = "accepted" => WireSerialize(Plain(tx)) = raw

Encoded == {[tx |-> t, wire |-> WireSerialize(t), txid |-> Txid(t)] : t \in Genuine}

\* Every transaction the limits allow is read back from its own serialization
\* and verified under its own txid: neither the segwit marker, nor a count or a
\* length at the edge of a varint form is ever taken for something else.
GenuineRead ==
    at \in {"rejected", "mismatch"} =>
        \A e \in Encoded : ~(e.wire = raw /\ e.txid = claimed)

\* A txid says all but the witness: whatever bytes are accepted for the txid of
\* a transaction (lib.rs:323-336), they hold its very inputs and outputs.
TxidCommits ==
    at = "accepted" =>
        \A e \in Encoded :
            e.txid = claimed => [e.tx EXCEPT !.witnesses = Absent]
                                    = [tx EXCEPT !.witnesses = Absent]
=============================================================================
