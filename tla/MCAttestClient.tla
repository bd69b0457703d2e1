--------------------------- MODULE MCAttestClient ---------------------------
(* Instances of AttestClient for TLC.                                       *)
EXTENDS AttestClient

MCRequests == [program_cid : Programs, args : Args]

(* Both shipped validators compute the transaction from the request alone.  *)
OneOutput == [r \in MCRequests |-> {[tx |-> r, prev_hash |-> "h0"]}]

(* A validator that puts what it reads from its node's CraftSQL into the    *)
(* transaction.                                                             *)
TwoOutputs == [r \in MCRequests |-> [tx : {r}, prev_hash : {"h0", "h1"}]]
=============================================================================
