----------------------------- MODULE MCTxCodec -----------------------------
(* Transactions around every limit and every edge of a varint, each sent   *)
(* as it is, cut short, prolonged and with one byte altered.               *)
EXTENDS TxCodec

In(script, sequence) == [prev |-> <<1, 0>>, script_sig |-> script, sequence |-> sequence]
Out(value, script)   == [value_sat |-> value, script_pubkey |-> script]
Tx(ins, outs, wits)  == [version |-> 1, inputs |-> ins, outputs |-> outs,
                         witnesses |-> wits, lock_time |-> 0]

Zeros(n) == [k \in 1..n |-> 0]
Wide     == ByteBase

Scripts == {<<>>, <<0>>, <<1>>, <<0, 1>>, <<1, 1>>}

\* One input and one output with every short script,
Small ==
    {Tx(<<In(s, q)>>, <<Out(v, z)>>, w) :
        s \in Scripts, q \in {0, 1}, v \in {0, 1}, z \in Scripts,
        w \in {Absent, <<<<<<>>>>>>, <<<<<<0>>>>>>}}

\* and more of everything, up to the limits.
Large ==
    {Tx([k \in 1..n |-> In(<<>>, 0)], [k \in 1..m |-> Out(1, <<>>)], w) :
        n \in 1..MaxInputs, m \in 1..MaxOutputs, w \in {Absent}}
    \cup {Tx(<<In(<<>>, 0)>>, <<Out(1, Zeros(n))>>, Absent) : n \in 3..(Wide + 1)}
    \cup {Tx(<<In(<<>>, 0)>>, <<Out(1, <<>>)>>, <<[k \in 1..n |-> <<>>]>>) :
            n \in 1..MaxWitnessItems}
    \cup {Tx(<<In(<<>>, 0), In(<<>>, 1)>>, <<Out(1, <<>>)>>, w) :
            w \in {<<<<>>, <<<<1>>>>>>, <<<<<<>>, <<0>>>>, <<>>>>}}
\* The longest transaction, and those next to it in length.
Long == {Tx(<<In(Zeros(n), 0)>>, <<Out(1, <<>>)>>, Absent) :
            n \in (MaxTxBytes - 14)..(MaxTxBytes - 10)}

MCGenuine == {t \in Small \cup Large \cup Long : Len(WireSerialize(t)) <= MaxTxBytes}

\* Transactions that are no transactions: nothing of something, or too much.
Beyond ==
    {Tx(<<>>, <<Out(1, <<>>)>>, Absent), Tx(<<In(<<>>, 0)>>, <<>>, Absent),
     Tx(<<In(<<>>, 0)>>, <<Out(1, <<>>)>>, <<<<>>>>),
     Tx([k \in 1..(MaxInputs + 1) |-> In(<<>>, 0)], <<Out(1, <<>>)>>, Absent),
     Tx(<<In(<<>>, 0)>>, [k \in 1..(MaxOutputs + 1) |-> Out(1, <<>>)], Absent),
     Tx(<<In(<<>>, 0)>>, <<Out(1, <<>>)>>, <<[k \in 1..(MaxWitnessItems + 1) |-> <<>>]>>)}

\* One byte missing, altered, preceded by another, or written as a longer
\* varint than it needs; or a byte more or any number fewer at the end.
Altered(bytes) ==
    LET Bytes == 0..(ByteBase - 1)
        Instead(k) == {<<>>} \cup {<<b>> : b \in Bytes} \cup {<<b, bytes[k]>> : b \in Bytes}
                      \cup {<<Marker(2), bytes[k], 0>>, <<Marker(3), bytes[k], 0, 0>>}
    IN  UNION {{SubSeq(bytes, 1, k - 1) \o s \o SubSeq(bytes, k + 1, Len(bytes)) :
                    s \in Instead(k)} : k \in DOMAIN bytes}
        \cup {SubSeq(bytes, 1, k) : k \in 0..Len(bytes)}
        \cup {Append(bytes, b) : b \in Bytes}

Edited ==
    {t \in MCGenuine : \/ t \in Large
                       \/ t.inputs[1].script_sig = t.outputs[1].script_pubkey}

MCSubmissions ==
    {[raw |-> WireSerialize(t), claimed |-> Txid(t)] : t \in MCGenuine \cup Beyond \cup Long}
    \cup {[raw |-> WireSerialize(t), claimed |-> Sha256d(WireSerialize(t))] : t \in Edited}
    \cup UNION {{[raw |-> r, claimed |-> Txid(t)] : r \in Altered(WireSerialize(t))} :
                    t \in Edited}
=============================================================================
