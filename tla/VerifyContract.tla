--------------------------- MODULE VerifyContract ---------------------------
(***************************************************************************)
(* What the verification service promises whoever posts a document or runs *)
(* the command on one: a document that is no request is refused, and any   *)
(* other gets the verdict the claim oracle allows on what was written in   *)
(* it, whichever way it is spelled and asked.                              *)
(***************************************************************************)
EXTENDS ClaimOracle

CONSTANT Illegible   \* the documents that are no request

Refused == [kind |-> "refused"]

\* A client that has no answer yet may bring another document instead.
Ask == /\ verdict = Pending
       /\ req' \in Requests
       /\ UNCHANGED verdict

Answer == /\ verdict = Pending
          /\ IF req \in Illegible THEN verdict' = Refused ELSE Settle \/ Reject
          /\ UNCHANGED req

ContractSpec == OracleInit /\ [][Ask \/ Answer]_oracleVars
=============================================================================
