--------------------------- MODULE FaultySigners ---------------------------
(***************************************************************************)
(* The client of AttestClient with signers that do not follow the          *)
(* protocol: a faulty node approves like any other in round 1 and answers  *)
(* round 2 with something that is not its partial signature.               *)
(*                                                                         *)
(* attest() adds up the partials it is given and verifies only the sum; it *)
(* never calls verify_partial (crates/signing/src/frost.rs), which would   *)
(* tell it whose partial is wrong, and it always polls from node 0.        *)
(***************************************************************************)
EXTENDS AttestClient

CONSTANT Faulty   \* the nodes that may answer round 2 with anything

(* Nodes that hold the key between them could sign whatever they like.      *)
ASSUME FaultyNodes == Faulty \subseteq Nodes /\ Cardinality(Faulty) < SharingThreshold

ASSUME NoneIsNoMessage == \A tx \in Transactions : signing_bytes(tx) # None

(* Any scalar but the right one. *)
Garbled(partial) == [partial EXCEPT !.message = None]

(* LocalTransport::round2, served by a faulty node.                         *)
Round2Faulty ==
  /\ pc = "round2" /\ Len(partials) < Len(valid_responses)
  /\ Round2Node \in Faulty
  /\ nonces[Round2Node] # None
  /\ partials' = Append(partials,
       Garbled(sign(Round2Node, nonces[Round2Node], message, Commitments)))
  /\ UNCHANGED <<nonces, pc, request, i, valid_responses, transaction, result, approvals,
                 signed, node_vars, next_nonce>>

Culprits == {partials[k].index : k \in {l \in DOMAIN partials : partials[l].message = None}}

(* The shares at hand are those of one sharing of the client's key.         *)
SharesFit ==
  /\ \A k \in DOMAIN partials : partials[k].key = GroupPublicKey
  /\ \A j, k \in DOMAIN partials : partials[j].epoch = partials[k].epoch

(* attest() verifies the sum only, and errors can cancel in it: those of    *)
(* two signers, or one signer's with the misfit of shares of several        *)
(* sharings.  A single error among shares that fit never cancels, nor does  *)
(* any in a sum of fewer partials than the sharing demands.                 *)
FinishCompensated ==
  /\ pc = "round2" /\ Len(partials) = Len(valid_responses)
  /\ Culprits # {} /\ Len(partials) >= SharingThreshold
  /\ SharesFit => Cardinality(Culprits) > 1
  /\ Return([tag |-> "ok", tx |-> transaction])
  /\ UNCHANGED <<nonces, request, i, valid_responses, transaction, partials, approvals,
                 signed, node_vars, next_nonce>>

FaultyNext == Next \/ Round2Faulty \/ FinishCompensated

FaultySpec == Init /\ [][FaultyNext]_vars

----------------------------------------------------------------------------
(* When verification fails although nodes are faulty, crash, lose messages  *)
(* or are administered meanwhile, there is a culprit among the partials, or *)
(* the keys are to blame: the bookkeeping of the client never is.           *)
FailureHasACulprit ==
  result = [tag |-> "InvalidSignature"] =>
    Culprits # {} \/ Len(partials) < SharingThreshold \/ ~SharesFit

(* The nodes that signed this transaction, for this list of commitments, as *)
(* the protocol demands.                                                    *)
HonestSigners(tx) ==
  {p.index : p \in {q \in signed : q.message = signing_bytes(tx) /\ q.commitments = Commitments}}

(* What attest() returns was signed by as many nodes as the key demands,    *)
(* all but the culprits of them as the protocol demands, and one at least.  *)
(* A lone culprit fails the call if the shares fit; colluding ones can slip *)
(* in, because only the sum is verified.                                    *)
AttestedByHonestQuorum ==
  result # None /\ result.tag = "ok" =>
    /\ HonestSigners(result.tx) # {}
    /\ Cardinality(HonestSigners(result.tx)) + Cardinality(Culprits) >= SharingThreshold
    /\ SharesFit => Cardinality(Culprits) # 1

(* An invalid share is detected and excluded: it does not fail the call.    *)
InvalidShareExcluded ==
  result = [tag |-> "InvalidSignature"] => Culprits = {}
=============================================================================
