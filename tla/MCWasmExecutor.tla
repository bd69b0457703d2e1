--------------------------- MODULE MCWasmExecutor ---------------------------
(* Instances of WasmExecutor for TLC.                                       *)
EXTENDS WasmExecutor

Transfer(from, to, amount) ==
  [program_cid |-> "wasm", requester |-> from, recipient |-> to, amount |-> amount,
   balance |-> None, optional |-> "given"]

(* Affordable or not, to a recipient who has an account or not, as the     *)
(* batches say; and not positive.                                           *)
MCCalls == {Transfer("alice", "bob", 1), Transfer("alice", "bob", 0)}

(* The setup of the tests; alice pays everything and then bob opens an      *)
(* account; a setup whose last statement fails, whatever came before it,    *)
(* and leaves the accounts of those that did not.                           *)
MCBatches == {<<Create, Insert("alice", 1)>>,
              <<Update("alice", 0), Insert("bob", 0)>>,
              <<Create, Insert("alice", 1), Insert("bob", None), Insert("bob", 1)>>}

MCGuestWrites == {Update("alice", 2)}
=============================================================================
