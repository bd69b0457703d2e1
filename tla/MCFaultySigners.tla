-------------------------- MODULE MCFaultySigners --------------------------
(* Instances of FaultySigners for TLC.                                      *)
EXTENDS FaultySigners

MCRequests == [program_cid : Programs, args : Args]

(* Both shipped validators compute the transaction from the request alone.  *)
OneOutput == [r \in MCRequests |-> {[tx |-> r, prev_hash |-> "h0"]}]
=============================================================================
