------------------------------ MODULE MCCodecs ------------------------------
(***************************************************************************)
(* The two encodings whose digests are identities, of transactions (txid)  *)
(* and of preimages (order_id), and that of targets, with the mining that  *)
(* meets them: one of the three is at work.                                *)
(*                                                                         *)
(* Preimages differ from a default in two fields that stand side by side   *)
(* in the encoding, or that validate compares, over all their values.      *)
(***************************************************************************)
EXTENDS MCTxCodec, OrderCodec, MCMining

Default ==
    [solver |-> <<1>>, recipient |-> <<2>>, btc_network |-> "regtest",
     solver_btc_key_id |-> <<1, 3>>, amount_sat |-> 5, destination_token |-> <<3>>,
     destination_amount |-> <<1, 1>>, min_confirmations |-> 1,
     max_btc_inclusion_height |-> 2, quote_expires_at_l2 |-> 4, claim_deadline_l2 |-> 5,
     reclaim_after_l2 |-> 7, max_destination_amount_cap |-> <<2, 0>>,
     replay_domain |-> <<0, 3>>, nonce |-> <<2, 1>>]

Neighbours == {<<OrderPreimage[n], OrderPreimage[n + 1]>> : n \in 1..(Len(OrderPreimage) - 1)}
Compared   == {<<OrderPreimage[7], OrderPreimage[13]>>}   \* the amount and its cap

MCPreimages ==
    UNION {{[Default EXCEPT ![two[1].name] = a, ![two[2].name] = b] :
                a \in Values(two[1].type), b \in Values(two[2].type)} :
           two \in Neighbours \cup Compared}

-----------------------------------------------------------------------------
NoTransaction ==
    /\ raw = <<>> /\ claimed = Absent
    /\ p = 0 /\ at = "version" /\ left = 0 /\ stack = <<>>
    /\ tx = Absent

NoOrder == /\ pre = Default
           /\ orderAt = "done"
           /\ o = <<>> /\ fields = 0
           /\ error = "none"

NoMining == /\ nbits = 0
            /\ values = [n \in 0..MaxNonce |-> 0]
            /\ nonce = 0
            /\ outcome = "failed"

MCInit == \/ Init /\ NoOrder /\ NoMining
          \/ NoTransaction /\ Call /\ NoMining
          \/ NoTransaction /\ NoOrder /\ MiningInit

MCNext == \/ tx # Absent /\ Next /\ UNCHANGED <<orderVars, miningVars>>
          \/ OrderNext /\ UNCHANGED <<vars, miningVars>>
          \/ MiningNext /\ UNCHANGED <<vars, orderVars>>

MCSpec == MCInit /\ [][MCNext]_<<vars, orderVars, miningVars>>

-----------------------------------------------------------------------------
\* The types of all three: the bytes written are those of the fields written
\* (order.rs:73-91), and every compact word expands to bytes (pow.rs:66-82).
CodecsTypeOK == TypeOK /\ OrderTypeOK /\ MiningTypeOK
=============================================================================
