------------------------- MODULE CraftSecNodeProofs -------------------------
(***************************************************************************)
(* What the proofs about AttestClient and ProgramMigration use of the      *)
(* nodes and of sequences.                                                 *)
(***************************************************************************)
EXTENDS CraftSecNode, SequenceTheorems, TLAPS

(* A function on 1..m is a sequence.                                        *)
LEMMA FunctionIsSeq ==
  ASSUME NEW S, NEW m \in Nat, NEW f \in [1..m -> S]
  PROVE  f \in Seq(S) /\ Len(f) = m
  OBVIOUS

(* What Append does to the elements of a sequence.                          *)
LEMMA AppendElements ==
  ASSUME NEW S, NEW seq \in Seq(S), NEW e \in S
  PROVE  /\ Len(seq) \in Nat /\ DOMAIN seq = 1..Len(seq)
         /\ Append(seq, e) \in Seq(S) /\ Len(Append(seq, e)) = Len(seq) + 1
         /\ DOMAIN Append(seq, e) = 1..(Len(seq) + 1)
         /\ \A k \in 1..Len(seq) : Append(seq, e)[k] = seq[k]
         /\ Append(seq, e)[Len(seq) + 1] = e
  <1>1. Len(seq) \in Nat /\ DOMAIN seq = 1..Len(seq)
    BY LenProperties
  <1>2. Append(seq, e) \in Seq(S) /\ Len(Append(seq, e)) = Len(seq) + 1
    BY AppendProperties
  <1>3. DOMAIN Append(seq, e) = 1..(Len(seq) + 1)
    BY <1>2, LenProperties
  <1> QED
    BY <1>1, <1>2, <1>3, AppendProperties

----------------------------------------------------------------------------
(* A node always has a share to sign with. *)
LEMMA GetKeyShareType ==
  ASSUME NodeTypeOK, NEW n \in Nodes, NEW p \in Programs
  PROVE  get_key_share(n, p) \in KeyShares
  BY DEF NodeTypeOK, get_key_share

(* The answers of round 1: only a valid one comes with a nonce, and that    *)
(* nonce is the next draw, for the index of the node's share.               *)
LEMMA ProcessRequestAnswers ==
  ASSUME NodeTypeOK, NEW n \in Nodes, NEW r \in Requests,
         NEW resp \in process_request(n, r)
  PROVE  \/ resp = [tag |-> "error"]
         \/ resp = [tag |-> "invalid"]
         \/ \E tx \in Outputs[r] :
              resp = [tag |-> "valid", tx |-> tx,
                      nonce |-> [index |-> get_key_share(n, r.program_cid).index,
                                 id |-> next_nonce]]
  <1>1. CASE is_frozen(n, r.program_cid)
    BY <1>1 DEF process_request
  <1>2. CASE ~is_frozen(n, r.program_cid)
    <2>1. \A res \in Execute(n, r) :
            \/ res = [tag |-> "error"]
            \/ res = [tag |-> "invalid"]
            \/ \E tx \in Outputs[r] : res = [tag |-> "valid", tx |-> tx]
      BY DEF Execute
    <2>2. CASE resp \in {res \in Execute(n, r) : res.tag # "valid"}
      BY <2>1, <2>2
    <2>3. CASE \E res \in Execute(n, r) :
                 /\ res.tag = "valid"
                 /\ resp = [tag |-> "valid", tx |-> res.tx,
                            nonce |-> generate_nonces(get_key_share(n, r.program_cid).index,
                                                      next_nonce)]
      BY <2>1, <2>3 DEF generate_nonces
    <2> QED
      BY <1>2, <2>2, <2>3 DEF process_request
  <1> QED
    BY <1>1, <1>2

(* The same, as far as types go. *)
LEMMA ProcessRequestType ==
  ASSUME NodeTypeOK, NEW n \in Nodes, NEW r \in Requests,
         NEW resp \in process_request(n, r)
  PROVE  /\ resp.tag \in {"error", "invalid", "valid"}
         /\ resp.tag = "valid" => resp.tx \in Outputs[r] /\ resp.tx \in Transactions
                                    /\ resp.nonce \in Nonces
  <1>1. get_key_share(n, r.program_cid).index \in Nodes
    BY GetKeyShareType DEF Requests, KeyShares
  <1>2. next_nonce \in Nat
    BY DEF NodeTypeOK
  <1>3. Outputs[r] \subseteq Transactions
    BY DEF Transactions
  <1> QED
    BY <1>1, <1>2, <1>3, ProcessRequestAnswers DEF Nonces

----------------------------------------------------------------------------
(* The administration keeps the types of the nodes. *)
LEMMA AdminType ==
  ASSUME NodeTypeOK, Admin
  PROVE  NodeTypeOK' /\ UNCHANGED next_nonce
  <1>1. ASSUME NEW n \in Nodes, install_rotated_share(n)
        PROVE  NodeTypeOK' /\ UNCHANGED next_nonce
    BY <1>1, NodeConstants DEF NodeTypeOK, install_rotated_share, AdminCall, KeyShares
  <1>2. ASSUME NEW n \in Nodes, NEW p \in Programs, freeze_program(n, p)
        PROVE  NodeTypeOK' /\ UNCHANGED next_nonce
    BY <1>2, NodeConstants DEF NodeTypeOK, freeze_program, AdminCall
  <1>3. ASSUME NEW n \in Nodes, NEW p \in Programs, register(n, p)
        PROVE  NodeTypeOK' /\ UNCHANGED next_nonce
    BY <1>3, NodeConstants DEF NodeTypeOK, register, AdminCall
  <1>4. ASSUME NEW n \in Nodes, NEW p \in Programs, NEW share \in KeyShares,
               register_key(n, p, share)
        PROVE  NodeTypeOK' /\ UNCHANGED next_nonce
    BY <1>4, NodeConstants DEF NodeTypeOK, register_key, AdminCall
  <1>5. ASSUME NEW n \in Nodes, NEW p \in Programs, NEW q \in Programs,
               migrate_program(n, p, q)
        PROVE  NodeTypeOK' /\ UNCHANGED next_nonce
    <2>1. get_key_share(n, p) \in KeyShares
      BY GetKeyShareType
    <2> QED
      BY <1>5, <2>1, NodeConstants DEF NodeTypeOK, migrate_program, AdminCall
  <1>6. \A n \in Nodes, key \in Keys, epoch \in 0..MaxEpoch :
          [index |-> n, key |-> key, epoch |-> epoch] \in KeyShares
    BY DEF KeyShares
  <1> QED
    BY <1>1, <1>2, <1>3, <1>4, <1>5, <1>6 DEF Admin

(* The shares of node n keep index n, whatever the administrators do.       *)
SharesIndexed ==
  \A n \in Nodes : /\ key_share[n].index = n
                   /\ \A p \in Programs : key_shares[n][p] # None => key_shares[n][p].index = n

(* Whichever share a node signs with has its index.                         *)
LEMMA GetKeyShareIndex ==
  ASSUME SharesIndexed, NEW n \in Nodes, NEW p \in Programs
  PROVE  get_key_share(n, p).index = n
  BY DEF SharesIndexed, get_key_share

(* No administrative call gives a node a share of another index.            *)
LEMMA AdminIndices == ASSUME NodeTypeOK, SharesIndexed, Admin PROVE SharesIndexed'
  <1> USE DEF SharesIndexed, NodeTypeOK
  <1>1. ASSUME NEW n \in Nodes, install_rotated_share(n) PROVE SharesIndexed'
    <2>1. \A m \in Nodes : key_share'[m].index = key_share[m].index
      BY <1>1 DEF install_rotated_share, KeyShares
    <2> QED
      BY <1>1, <2>1 DEF install_rotated_share
  <1>2. ASSUME NEW n \in Nodes, NEW p \in Programs, freeze_program(n, p) \/ register(n, p)
        PROVE  SharesIndexed'
    BY <1>2 DEF freeze_program, register
  <1>3. ASSUME NEW n \in Nodes, NEW p \in Programs, NEW share \in KeyShares,
               share.index = n, register_key(n, p, share)
        PROVE  SharesIndexed'
    BY <1>3 DEF register_key
  <1>4. ASSUME NEW n \in Nodes, NEW p \in Programs, NEW q \in Programs,
               migrate_program(n, p, q)
        PROVE  SharesIndexed'
    <2>1. get_key_share(n, p).index = n
      BY GetKeyShareIndex
    <2> QED
      BY <1>4, <2>1 DEF migrate_program
  <1>5. \A n \in Nodes, key \in Keys, epoch \in 0..MaxEpoch :
          LET share == [index |-> n, key |-> key, epoch |-> epoch]
          IN  share \in KeyShares /\ share.index = n
    BY DEF KeyShares
  <1> QED
    BY <1>1, <1>2, <1>3, <1>4, <1>5 DEF Admin
=============================================================================
