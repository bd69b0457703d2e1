------------------------ MODULE ThresholdAttestation ------------------------
(***************************************************************************)
(* What the attestation service promises its caller                        *)
(* (docs/CRAFTSEC_DESIGN.md, "Transaction Flow" and "Trust Model"): a call *)
(* for a request ends with an attested transaction only if a quorum of     *)
(* nodes approved that very transaction for that very request during the   *)
(* call; otherwise it fails.  How nodes are asked, which keys they hold    *)
(* and how the signature is put together does not appear here.             *)
(***************************************************************************)
EXTENDS Naturals, FiniteSets

CONSTANTS
  Voters,    \* the nodes
  Calls,     \* the requests a caller may make
  Approvable, \* Approvable[r]: the transactions a node may approve for r
  Quorum,    \* approvals an attestation stands for
  Nothing

VARIABLES
  call,      \* the request being served, or the last one served
  approved,  \* approvals given for it: [node, tx] records
  outcome    \* [tag, tx]: "none", "pending", "failed", or "attested" with the transaction

service_vars == <<call, approved, outcome>>

Outcome(tag) == [tag |-> tag, tx |-> Nothing]

ServiceInit ==
  /\ call = Nothing
  /\ approved = {}
  /\ outcome = Outcome("none")

Open(r) ==
  /\ outcome.tag # "pending"
  /\ call' = r
  /\ approved' = {}
  /\ outcome' = Outcome("pending")

Approve(n, r, tx) ==
  /\ outcome.tag = "pending"
  /\ call = r /\ tx \in Approvable[r]
  /\ approved' = approved \cup {[node |-> n, tx |-> tx]}
  /\ UNCHANGED <<call, outcome>>

ApproversOf(tx) == {n \in Voters : [node |-> n, tx |-> tx] \in approved}

Attest(tx) ==
  /\ outcome.tag = "pending"
  /\ Cardinality(ApproversOf(tx)) >= Quorum
  /\ outcome' = [tag |-> "attested", tx |-> tx]
  /\ UNCHANGED <<call, approved>>

Fail ==
  /\ outcome.tag = "pending"
  /\ outcome' = Outcome("failed")
  /\ UNCHANGED <<call, approved>>

ServiceNext ==
  \/ \E r \in Calls : Open(r)
  \/ \E n \in Voters, r \in Calls : \E tx \in Approvable[r] : Approve(n, r, tx)
  \/ \E a \in approved : Attest(a.tx)
  \/ Fail

ServiceSpec == ServiceInit /\ [][ServiceNext]_service_vars
=============================================================================
