------------------------- MODULE AttestClientProofs -------------------------
(***************************************************************************)
(* Proofs about AttestClient, for any number of nodes, any thresholds, any *)
(* programs, and with or without a network.                                *)
(***************************************************************************)
EXTENDS AttestClient, CraftSecNodeProofs, SequenceTheorems, FiniteSetTheorems, TLAPS

----------------------------------------------------------------------------
(* The types, apart from what the client has been sent in round 2: a signer *)
(* may put anything in the place of its scalar.                             *)
AnyPartials == [index : Nodes, key : Keys, epoch : 0..MaxEpoch, nonce : Nat,
                message : {signing_bytes(tx) : tx \in Transactions} \cup {None},
                commitments : Seq(Nonces)]

ClientTypeOK ==
  /\ NodeTypeOK
  /\ nonces \in [Nodes -> Nonces \cup {None}]
  /\ pc \in {"idle", "round1", "collect", "round2"}
  /\ request \in Requests \cup {None}
  /\ pc # "idle" => request # None
  /\ i \in 1..(NodeCount + 1) /\ (pc = "round1" => i <= NodeCount)
  /\ valid_responses \in Seq([node : Nodes, commitment : Nonces])
  /\ transaction \in Transactions \cup {None} /\ (pc = "round2" => transaction # None)
  /\ partials \in Seq(AnyPartials) /\ Len(partials) <= Len(valid_responses)
  /\ result \in Results \cup {None}
  /\ approvals \subseteq [node : Nodes, tx : Transactions]
  /\ signed \subseteq Partials

(* A new client is well typed.                                              *)
LEMMA InitType == Init => ClientTypeOK
  <1> SUFFICES ASSUME Init PROVE ClientTypeOK
    OBVIOUS
  <1>1. NodeTypeOK
    <2>1. 0 \in 0..MaxEpoch /\ 0 \in 0..MaxAdmin
      BY NodeConstants
    <2> QED
      BY <2>1, NodeConstants DEF Init, NodeInit, NodeInitWith, NodeTypeOK, KeyShares
  <1>2. <<>> \in Seq([node : Nodes, commitment : Nonces]) /\ <<>> \in Seq(AnyPartials)
    BY EmptySeq
  <1> QED
    BY <1>1, <1>2, ClientConstants DEF Init, ClientTypeOK

(* The slots, whatever the node has answered. *)
LEMMA StoreNonceType ==
  ASSUME ClientTypeOK, NEW n \in Nodes, NEW r \in Requests, NEW resp \in process_request(n, r),
         StoreNonce(n, resp)
  PROVE  nonces' \in [Nodes -> Nonces \cup {None}]
  <1>1. NodeTypeOK
    BY DEF ClientTypeOK
  <1>2. resp.tag = "valid" => resp.nonce \in Nonces
    BY <1>1, ProcessRequestType
  <1>3. resp.tag \in {"error", "invalid", "valid"}
    BY <1>1, ProcessRequestType
  <1>4. CASE resp.tag = "valid"
    BY <1>2, <1>4 DEF StoreNonce, ClientTypeOK
  <1>5. CASE resp.tag = "invalid"
    BY <1>5 DEF StoreNonce, ClientTypeOK
  <1>6. CASE resp.tag = "error"
    BY <1>6 DEF StoreNonce, ClientTypeOK
  <1> QED
    BY <1>3, <1>4, <1>5, <1>6

(* The variables the body of the loop changes. *)
LEMMA HandleRound1Type ==
  ASSUME ClientTypeOK, pc = "round1", i \in Nodes, NEW resp, HandleRound1(resp),
         resp.tag = "valid" => resp.tx \in Transactions /\ resp.nonce \in Nonces
  PROVE  /\ i' \in 1..(NodeCount + 1) /\ (pc' = "round1" => i' <= NodeCount)
         /\ pc' \in {"round1", "collect"}
         /\ valid_responses' \in Seq([node : Nodes, commitment : Nonces])
         /\ Len(valid_responses) <= Len(valid_responses')
         /\ transaction' \in Transactions \cup {None}
  <1>1. i' = i + 1 /\ pc' \in {"round1", "collect"} /\ (i = NodeCount => pc' = "collect")
    BY DEF HandleRound1, TakeAnswer
  <1>2. i \in 1..NodeCount
    BY DEF ClientTypeOK
  <1>3. valid_responses \in Seq([node : Nodes, commitment : Nonces])
    BY DEF ClientTypeOK
  <1>4. CASE resp.tag = "valid"
    <2>1. [node |-> i, commitment |-> resp.nonce] \in [node : Nodes, commitment : Nonces]
      BY <1>4
    <2>2. valid_responses' = Append(valid_responses, [node |-> i, commitment |-> resp.nonce])
      BY <1>4 DEF HandleRound1, TakeAnswer
    <2>3. /\ valid_responses' \in Seq([node : Nodes, commitment : Nonces])
          /\ Len(valid_responses') = Len(valid_responses) + 1
      BY <1>3, <2>1, <2>2, AppendProperties
    <2>4. Len(valid_responses) \in Nat
      BY <1>3, LenProperties
    <2>5. transaction' \in Transactions \cup {None}
      BY <1>4 DEF HandleRound1, TakeAnswer, ClientTypeOK
    <2> QED
      BY <1>1, <1>2, <2>3, <2>4, <2>5, ClientConstants
  <1>5. CASE resp.tag # "valid"
    <2>1. Len(valid_responses) \in Nat
      BY <1>3, LenProperties
    <2> QED
      BY <1>1, <1>2, <1>3, <1>5, <2>1, ClientConstants DEF HandleRound1, TakeAnswer, ClientTypeOK
  <1> QED
    BY <1>4, <1>5

(* What a node returns in round 2. *)
LEMMA SignType ==
  ASSUME NodeTypeOK, NEW n \in Nodes, NEW nonce \in Nonces, NEW tx \in Transactions,
         NEW commitments \in Seq(Nonces)
  PROVE  sign(n, nonce, signing_bytes(tx), commitments) \in Partials
  <1>1. key_share[n] \in KeyShares
    BY DEF NodeTypeOK
  <1>2. signing_bytes(tx) \in {signing_bytes(t) : t \in Transactions}
    OBVIOUS
  <1> QED
    BY <1>1, <1>2 DEF sign, sign_partial, Partials, KeyShares, Nonces

(* The commitments sent in round 2 are a list of nonces.                    *)
LEMMA CommitmentsType ==
  ASSUME ClientTypeOK
  PROVE  Commitments \in Seq(Nonces) /\ Len(Commitments) = Len(valid_responses)
  <1>1. valid_responses \in Seq([node : Nodes, commitment : Nonces])
    BY DEF ClientTypeOK
  <1>2. DOMAIN valid_responses = 1..Len(valid_responses) /\ Len(valid_responses) \in Nat
    BY <1>1, LenProperties
  <1>3. \A k \in 1..Len(valid_responses) : valid_responses[k] \in [node : Nodes, commitment : Nonces]
    BY <1>1, ElementOfSeq
  <1>4. Commitments \in [1..Len(valid_responses) -> Nonces]
    BY <1>2, <1>3 DEF Commitments
  <1> QED
    BY <1>2, <1>4, FunctionIsSeq

(* One step of attest(), of its caller or of an administrator.              *)
LEMMA NextType == ClientTypeOK /\ [Next]_vars => ClientTypeOK'
  <1> SUFFICES ASSUME ClientTypeOK, [Next]_vars PROVE ClientTypeOK'
    OBVIOUS
  <1> USE ClientConstants
  <1>1. ASSUME NEW r \in Requests, Begin(r)
        PROVE  ClientTypeOK'
    <2>1. <<>> \in Seq([node : Nodes, commitment : Nonces]) /\ <<>> \in Seq(AnyPartials)
            /\ Len(<<>>) = 0
      BY EmptySeq
    <2>2. NodeTypeOK' /\ r # None
      BY <1>1, NodeConstants DEF Begin, ClientTypeOK, NodeTypeOK, node_vars
    <2> QED
      BY <1>1, <2>1, <2>2 DEF Begin, ClientTypeOK
  <1>2. CASE Round1
    <2>1. PICK resp \in process_request(i, request) :
            /\ StoreNonce(i, resp)
            /\ next_nonce' = IF resp.tag = "valid" THEN next_nonce + 1 ELSE next_nonce
            /\ approvals' = IF resp.tag = "valid"
                            THEN approvals \cup {[node |-> i, tx |-> resp.tx]} ELSE approvals
            /\ HandleRound1(resp) \/ HandleRound1([tag |-> "error"])
      BY <1>2 DEF Round1
    <2>2. i \in Nodes /\ pc = "round1" /\ request \in Requests /\ NodeTypeOK
      BY <1>2 DEF Round1, ClientTypeOK
    <2>3. resp.tag = "valid" => resp.tx \in Transactions /\ resp.nonce \in Nonces
      BY <2>2, ProcessRequestType
    <2>4. nonces' \in [Nodes -> Nonces \cup {None}]
      BY <2>1, <2>2, StoreNonceType
    <2>5. /\ i' \in 1..(NodeCount + 1) /\ (pc' = "round1" => i' <= NodeCount)
          /\ pc' \in {"round1", "collect"}
          /\ valid_responses' \in Seq([node : Nodes, commitment : Nonces])
          /\ Len(valid_responses) <= Len(valid_responses')
          /\ transaction' \in Transactions \cup {None}
      <3>1. CASE HandleRound1(resp)
        BY <3>1, <2>2, <2>3, HandleRound1Type
      <3>2. CASE HandleRound1([tag |-> "error"])
        <4>1. [tag |-> "error"].tag # "valid"
          OBVIOUS
        <4> QED
          BY <3>2, <4>1, <2>2, HandleRound1Type
      <3> QED
        BY <2>1, <3>1, <3>2
    <2>6. NodeTypeOK'
      BY <1>2, <2>1, <2>2 DEF Round1, NodeTypeOK, node_vars
    <2>7. approvals' \subseteq [node : Nodes, tx : Transactions]
      BY <2>1, <2>2, <2>3 DEF ClientTypeOK
    <2>8. Len(partials) <= Len(valid_responses')
      <3>1. Len(partials) \in Nat /\ Len(valid_responses) \in Nat /\ Len(valid_responses') \in Nat
        BY <2>5, LenProperties DEF ClientTypeOK
      <3> QED
        BY <2>5, <3>1 DEF ClientTypeOK
    <2> QED
      BY <1>2, <2>2, <2>4, <2>5, <2>6, <2>7, <2>8 DEF Round1, ClientTypeOK
  <1>3. CASE Round1OutOfBounds
    BY <1>3 DEF Round1OutOfBounds, Return, ClientTypeOK, NodeTypeOK, node_vars, Results, Failures
  <1>4. CASE Collect
    BY <1>4 DEF Collect, Return, ClientTypeOK, NodeTypeOK, node_vars, Results, Failures
  <1>5. CASE Round2
    <2>1. /\ pc = "round2" /\ Len(partials) < Len(valid_responses)
          /\ partials \in Seq(AnyPartials) /\ valid_responses \in Seq([node : Nodes, commitment : Nonces])
          /\ Len(partials) \in Nat /\ Len(valid_responses) \in Nat
      BY <1>5, LenProperties DEF Round2, ClientTypeOK
    <2>2. NodeTypeOK' /\ UNCHANGED <<nonces, request, i, valid_responses, transaction, approvals>>
      BY <1>5 DEF Round2, ClientTypeOK, NodeTypeOK, node_vars
    <2>3. CASE nonces[Round2Node] = None
      BY <1>5, <2>2, <2>3 DEF Round2, Return, ClientTypeOK, Results, Failures
    <2>4. CASE nonces[Round2Node] # None
      <3> DEFINE partial == sign(Round2Node, nonces[Round2Node], message, Commitments)
      <3>1. Len(partials) + 1 \in 1..Len(valid_responses)
        BY <2>1
      <3>2. Round2Node \in Nodes /\ nonces[Round2Node] \in Nonces
        <4>1. valid_responses[Len(partials) + 1] \in [node : Nodes, commitment : Nonces]
          BY <2>1, <3>1, ElementOfSeq
        <4>2. nonces \in [Nodes -> Nonces \cup {None}]
          BY DEF ClientTypeOK
        <4> QED
          BY <2>4, <4>1, <4>2 DEF Round2Node
      <3>3. transaction \in Transactions
        BY <2>1 DEF ClientTypeOK
      <3>4. partial \in Partials
        BY <3>2, <3>3, SignType, CommitmentsType DEF message, ClientTypeOK
      <3> HIDE DEF partial
      <3>5. /\ Append(partials, partial) \in Seq(AnyPartials)
            /\ Len(Append(partials, partial)) = Len(partials) + 1
        <4>1. partial \in AnyPartials
          BY <3>4 DEF Partials, AnyPartials
        <4> QED
          BY <2>1, <4>1, AppendProperties
      <3>6. /\ signed' = signed \cup {partial}
            /\ \/ partials' = Append(partials, partial) /\ UNCHANGED <<pc, result>>
               \/ Return([tag |-> "Unavailable"]) /\ UNCHANGED partials
        BY <1>5, <2>4 DEF Round2, partial
      <3>7. /\ pc' \in {"idle", "round2"} /\ partials' \in Seq(AnyPartials)
            /\ Len(partials') <= Len(valid_responses)
            /\ result' \in Failures \cup {result}
        BY <2>1, <3>5, <3>6 DEF Return, Failures
      <3>8. signed' \subseteq Partials
        BY <3>4, <3>6 DEF ClientTypeOK
      <3> QED
        BY <2>1, <2>2, <3>7, <3>8 DEF ClientTypeOK, Results
    <2> QED
      BY <2>3, <2>4
  <1>6. CASE Round2Lost
    BY <1>6 DEF Round2Lost, Return, ClientTypeOK, NodeTypeOK, node_vars, Results, Failures
  <1>7. CASE Finish
    <2>1. transaction \in Transactions
      BY <1>7 DEF Finish, ClientTypeOK
    <2> QED
      BY <1>7, <2>1 DEF Finish, Return, ClientTypeOK, NodeTypeOK, node_vars, Results, Failures
  <1>8. CASE Administer
    <2>1. NodeTypeOK' /\ UNCHANGED next_nonce
      BY <1>8, AdminType DEF Administer, ClientTypeOK
    <2> QED
      BY <1>8, <2>1 DEF Administer, client_vars, ClientTypeOK
  <1>9. CASE UNCHANGED vars
    BY <1>9 DEF vars, client_vars, node_vars, ClientTypeOK, NodeTypeOK
  <1> QED
    BY <1>1, <1>2, <1>3, <1>4, <1>5, <1>6, <1>7, <1>8, <1>9 DEF Next, Attesting

(* Nodes that follow the protocol send partial signatures.                  *)
LEMMA NextPartials ==
  ASSUME ClientTypeOK, partials \in Seq(Partials), [Next]_vars
  PROVE  partials' \in Seq(Partials)
  <1>1. CASE Round2
    <2>1. UNCHANGED partials \/ partials' =
            Append(partials, sign(Round2Node, nonces[Round2Node], message, Commitments))
      BY <1>1 DEF Round2
    <2>2. signed' \subseteq Partials
      BY NextType DEF ClientTypeOK
    <2>3. UNCHANGED partials
            \/ sign(Round2Node, nonces[Round2Node], message, Commitments) \in signed'
      BY <1>1 DEF Round2
    <2> QED
      BY <2>1, <2>2, <2>3, AppendProperties
  <1>2. ASSUME NEW r \in Requests, Begin(r) PROVE partials' \in Seq(Partials)
    BY <1>2, EmptySeq DEF Begin
  <1>3. CASE Round1 \/ Round1OutOfBounds \/ Collect \/ Round2Lost \/ Finish
    BY <1>3 DEF Round1, Round1OutOfBounds, Collect, Round2Lost, Finish
  <1>4. CASE Administer \/ UNCHANGED vars
    BY <1>4 DEF Administer, vars, client_vars
  <1> QED
    BY <1>1, <1>2, <1>3, <1>4 DEF Next, Attesting

(* Every variable keeps its type in every reachable state. *)
THEOREM TypeCorrect == Spec => []TypeOK
  <1> DEFINE Inv == ClientTypeOK /\ partials \in Seq(Partials)
  <1>1. Init => Inv
    BY InitType, EmptySeq DEF Init
  <1>2. Inv /\ [Next]_vars => Inv'
    BY NextType, NextPartials
  <1>3. Inv => TypeOK
    BY DEF ClientTypeOK, TypeOK
  <1> QED
    BY <1>1, <1>2, <1>3, PTL DEF Spec

----------------------------------------------------------------------------
(* The inductive invariant of the nonces.  Every nonce in sight was drawn,  *)
(* the answers come from nodes in ascending order with different nonces,    *)
(* and a committed nonce whose signer has not been called in round 2 is     *)
(* still in its slot and has signed nothing.                                *)
Unsent == {k \in DOMAIN valid_responses : k > Len(partials)}

NoncesDrawn ==
  /\ \A n \in Nodes : nonces[n] # None => nonces[n].id < next_nonce
  /\ \A k \in DOMAIN valid_responses : valid_responses[k].commitment.id < next_nonce
  /\ \A p \in signed : p.nonce < next_nonce

RespondersInOrder ==
  /\ \A k \in DOMAIN valid_responses : valid_responses[k].node < i
  /\ \A j, k \in DOMAIN valid_responses : j < k =>
       /\ valid_responses[j].node < valid_responses[k].node
       /\ valid_responses[j].commitment.id # valid_responses[k].commitment.id

UnsentHeld ==
  pc # "idle" => \A k \in Unsent :
    /\ nonces[valid_responses[k].node] = valid_responses[k].commitment
    /\ \A p \in signed : p.nonce # valid_responses[k].commitment.id

RoundsInOrder == pc \in {"round1", "collect"} => partials = <<>>

NonceInv == NoncesDrawn /\ RespondersInOrder /\ UnsentHeld /\ RoundsInOrder /\ NonceSignsOnce

(* Each partial signature made so far answers the commitment in its place.  *)
PartialsAnswer ==
  \A k \in DOMAIN partials :
    /\ partials[k].index = valid_responses[k].node
    /\ partials[k].nonce = valid_responses[k].commitment.id
    /\ partials[k].message = message
    /\ partials[k].commitments = Commitments

----------------------------------------------------------------------------
(* What a round 1 call leaves behind: the node's slot is as before, empty,  *)
(* or holds the next draw; and either the client learns nothing or it       *)
(* appends the answer whose nonce is in the slot.                           *)
LEMMA Round1Effect ==
  ASSUME ClientTypeOK, Round1
  PROVE  /\ pc = "round1" /\ pc' \in {"round1", "collect"}
         /\ i \in Nodes /\ i' = i + 1 /\ request \in Requests
         /\ UNCHANGED <<request, partials, result, signed, node_vars>>
         /\ \A n \in Nodes \ {i} : nonces'[n] = nonces[n]
         /\ next_nonce' \in {next_nonce, next_nonce + 1}
         /\ \/ approvals' = approvals
            \/ \E tx \in Outputs[request] : approvals' = approvals \cup {[node |-> i, tx |-> tx]}
         /\ \/ nonces'[i] \in {nonces[i], None}
            \/ /\ next_nonce' = next_nonce + 1
               /\ nonces'[i] = [index |-> get_key_share(i, request.program_cid).index,
                                id |-> next_nonce]
         /\ \/ UNCHANGED <<valid_responses, transaction>>
            \/ \E tx \in Outputs[request] :
                 /\ next_nonce' = next_nonce + 1
                 /\ nonces'[i] = [index |-> get_key_share(i, request.program_cid).index,
                                  id |-> next_nonce]
                 /\ valid_responses' =
                      Append(valid_responses, [node |-> i, commitment |-> nonces'[i]])
                 /\ transaction' = IF transaction = None THEN tx ELSE transaction
                 /\ approvals' = approvals \cup {[node |-> i, tx |-> tx]}
  <1>1. PICK resp \in process_request(i, request) :
          /\ StoreNonce(i, resp)
          /\ next_nonce' = IF resp.tag = "valid" THEN next_nonce + 1 ELSE next_nonce
          /\ approvals' = IF resp.tag = "valid"
                          THEN approvals \cup {[node |-> i, tx |-> resp.tx]} ELSE approvals
          /\ HandleRound1(resp) \/ HandleRound1([tag |-> "error"])
    BY DEF Round1
  <1>2. /\ i \in Nodes /\ pc = "round1" /\ request \in Requests /\ NodeTypeOK
        /\ nonces \in [Nodes -> Nonces \cup {None}]
    BY DEF Round1, ClientTypeOK
  <1>3. UNCHANGED <<request, partials, result, signed, node_vars>>
    BY DEF Round1
  <1>4. i' = i + 1 /\ pc' \in {"round1", "collect"}
    BY <1>1 DEF HandleRound1, TakeAnswer
  <1>5. CASE resp.tag = "valid"
    <2> DEFINE nonce == [index |-> get_key_share(i, request.program_cid).index,
                         id |-> next_nonce]
    <2>1. resp.nonce = nonce /\ resp.tx \in Outputs[request]
      BY <1>2, <1>5, ProcessRequestAnswers
    <2>2. nonces' = [nonces EXCEPT ![i] = nonce]
      BY <1>1, <1>5, <2>1 DEF StoreNonce
    <2>3. CASE HandleRound1(resp)
      <3>1. /\ valid_responses' = Append(valid_responses, [node |-> i, commitment |-> nonce])
            /\ transaction' = IF transaction = None THEN resp.tx ELSE transaction
        BY <1>5, <2>1, <2>3 DEF HandleRound1, TakeAnswer
      <3> QED
        BY <1>1, <1>2, <1>3, <1>4, <1>5, <2>1, <2>2, <3>1
    <2>4. CASE HandleRound1([tag |-> "error"])
      <3>1. UNCHANGED <<valid_responses, transaction>>
        BY <2>4 DEF HandleRound1, TakeAnswer
      <3> QED
        BY <1>1, <1>2, <1>3, <1>4, <1>5, <2>1, <2>2, <3>1
    <2> QED
      BY <1>1, <2>3, <2>4
  <1>6. CASE resp.tag # "valid"
    <2>1. UNCHANGED <<valid_responses, transaction>>
      BY <1>1, <1>6 DEF HandleRound1, TakeAnswer
    <2>2. resp.tag \in {"error", "invalid"}
      BY <1>2, <1>6, ProcessRequestType
    <2>3. nonces' = nonces \/ nonces' = [nonces EXCEPT ![i] = None]
      BY <1>1, <2>2 DEF StoreNonce
    <2> QED
      BY <1>1, <1>2, <1>3, <1>4, <1>6, <2>1, <2>3
  <1> QED
    BY <1>5, <1>6

(* The element types of the answers and of the partial signatures.          *)
LEMMA ResponsesType ==
  ASSUME ClientTypeOK
  PROVE  /\ Len(valid_responses) \in Nat /\ DOMAIN valid_responses = 1..Len(valid_responses)
         /\ Len(partials) \in Nat /\ DOMAIN partials = 1..Len(partials)
         /\ Len(partials) <= Len(valid_responses)
         /\ \A k \in DOMAIN valid_responses :
              valid_responses[k].node \in Nodes /\ valid_responses[k].commitment \in Nonces
  <1>1. /\ valid_responses \in Seq([node : Nodes, commitment : Nonces])
        /\ partials \in Seq(AnyPartials) /\ Len(partials) <= Len(valid_responses)
    BY DEF ClientTypeOK
  <1>2. /\ Len(valid_responses) \in Nat /\ DOMAIN valid_responses = 1..Len(valid_responses)
        /\ Len(partials) \in Nat /\ DOMAIN partials = 1..Len(partials)
    BY <1>1, LenProperties
  <1>3. \A k \in 1..Len(valid_responses) :
          valid_responses[k] \in [node : Nodes, commitment : Nonces]
    BY <1>1, ElementOfSeq
  <1> QED
    BY <1>1, <1>2, <1>3

(* Round 2 signs with the committed nonce of the next responder.            *)
LEMMA Round2Effect ==
  ASSUME ClientTypeOK, UnsentHeld, Round2
  PROVE  LET m       == Len(partials) + 1
             partial == sign(valid_responses[m].node, valid_responses[m].commitment,
                             message, Commitments)
         IN  /\ pc = "round2" /\ m \in Unsent
             /\ signed' = signed \cup {partial}
             /\ UNCHANGED <<nonces, request, i, valid_responses, transaction, approvals,
                            node_vars, next_nonce>>
             /\ \/ /\ pc' = "round2" /\ result' = result
                   /\ partials' = Append(partials, partial)
                \/ pc' = "idle" /\ result' = [tag |-> "Unavailable"] /\ partials' = partials
  <1> DEFINE m == Len(partials) + 1
  <1>1. pc = "round2" /\ Len(partials) < Len(valid_responses)
    BY DEF Round2
  <1>2. m \in Unsent
    BY <1>1, ResponsesType DEF Unsent
  <1>3. nonces[valid_responses[m].node] = valid_responses[m].commitment
    BY <1>1, <1>2 DEF UnsentHeld
  <1>4. valid_responses[m].commitment # None
    <2>1. valid_responses[m].commitment \in Nonces
      BY <1>2, ResponsesType DEF Unsent
    <2> QED
      BY <2>1, NodeConstants
  <1> QED
    BY <1>1, <1>2, <1>3, <1>4 DEF Round2, Round2Node, Return

(* A new client has drawn and signed nothing.                               *)
LEMMA InitNonceInv == Init => NonceInv
  BY DEF Init, NonceInv, NoncesDrawn, RespondersInOrder, UnsentHeld, Unsent, RoundsInOrder,
         NonceSignsOnce

(* Round 1 draws a nonce never seen before.                                 *)
LEMMA Round1NonceInv == ASSUME ClientTypeOK, NonceInv, Round1 PROVE NonceInv'
  <1>1. /\ pc = "round1" /\ pc' \in {"round1", "collect"} /\ i \in Nodes /\ i' = i + 1
        /\ UNCHANGED <<partials, signed>>
        /\ \A n \in Nodes \ {i} : nonces'[n] = nonces[n]
        /\ next_nonce' \in {next_nonce, next_nonce + 1} /\ next_nonce \in Nat
        /\ i \in Nat
    <2>1. i \in Nodes
      BY Round1Effect
    <2>2. i \in Nat /\ next_nonce \in Nat
      BY <2>1, ThresholdConfig DEF Nodes, ClientTypeOK, NodeTypeOK
    <2> QED
      BY <2>1, <2>2, Round1Effect
  <1>2. partials = <<>> /\ Len(partials) = 0
    BY <1>1, EmptySeq DEF NonceInv, RoundsInOrder
  <1>3. \A n \in Nodes : nonces[n] # None => nonces[n].id \in Nat
    BY DEF ClientTypeOK, Nonces
  <1>4. \A p \in signed : p.nonce \in Nat
    BY DEF ClientTypeOK, Partials
  <1>5. \A k \in DOMAIN valid_responses :
          /\ valid_responses[k].node \in Nodes /\ valid_responses[k].commitment.id \in Nat
          /\ valid_responses[k].node \in Nat /\ valid_responses[k].node < i
    BY ResponsesType, ThresholdConfig DEF Nonces, Nodes, NonceInv, RespondersInOrder
  <1>6. CASE UNCHANGED valid_responses
    <2>1. NoncesDrawn'
      <3>1. \A n \in Nodes : nonces'[n] # None => nonces'[n].id < next_nonce'
        BY <1>1, <1>3, Round1Effect DEF NonceInv, NoncesDrawn
      <3>2. /\ \A k \in DOMAIN valid_responses : valid_responses[k].commitment.id < next_nonce'
            /\ \A p \in signed : p.nonce < next_nonce'
        BY <1>1, <1>4, <1>5 DEF NonceInv, NoncesDrawn
      <3> QED
        BY <1>1, <1>6, <3>1, <3>2 DEF NoncesDrawn
    <2>2. RespondersInOrder'
      BY <1>1, <1>5, <1>6 DEF NonceInv, RespondersInOrder
    <2>3. UnsentHeld'
      BY <1>1, <1>5, <1>6 DEF NonceInv, UnsentHeld, Unsent
    <2> QED
      BY <1>1, <1>2, <2>1, <2>2, <2>3 DEF NonceInv, RoundsInOrder, NonceSignsOnce
  <1>7. CASE /\ next_nonce' = next_nonce + 1
             /\ nonces'[i] = [index |-> get_key_share(i, request.program_cid).index,
                              id |-> next_nonce]
             /\ valid_responses' =
                  Append(valid_responses, [node |-> i, commitment |-> nonces'[i]])
    <2> DEFINE m == Len(valid_responses)
    <2>0. m \in Nat /\ DOMAIN valid_responses = 1..m
      BY ResponsesType
    <2>1. /\ DOMAIN valid_responses' = 1..(m + 1)
          /\ \A k \in 1..m : valid_responses'[k] = valid_responses[k]
          /\ valid_responses'[m + 1] = [node |-> i, commitment |-> nonces'[i]]
      <3>1. nonces'[i] \in Nonces
        <4>1. get_key_share(i, request.program_cid).index \in Nodes
          BY Round1Effect, GetKeyShareType DEF Requests, KeyShares, ClientTypeOK
        <4> QED
          BY <1>1, <1>7, <4>1 DEF Nonces
      <3>2. [node |-> i, commitment |-> nonces'[i]] \in [node : Nodes, commitment : Nonces]
        BY <1>1, <3>1
      <3> QED
        BY <1>7, <3>2, AppendElements DEF ClientTypeOK
    <2> HIDE DEF m
    <2>2. nonces'[i].id = next_nonce
      BY <1>7
    <2>3. NoncesDrawn'
      <3>1. \A n \in Nodes : nonces'[n] # None => nonces'[n].id < next_nonce'
        BY <1>1, <1>3, <1>7, <2>2 DEF NonceInv, NoncesDrawn
      <3>2. \A k \in DOMAIN valid_responses' : valid_responses'[k].commitment.id < next_nonce'
        BY <1>1, <1>5, <1>7, <2>0, <2>1, <2>2 DEF NonceInv, NoncesDrawn
      <3>3. \A p \in signed' : p.nonce < next_nonce'
        BY <1>1, <1>4, <1>7 DEF NonceInv, NoncesDrawn
      <3> QED
        BY <3>1, <3>2, <3>3 DEF NoncesDrawn
    <2>4. RespondersInOrder'
      <3>1. \A k \in DOMAIN valid_responses' : valid_responses'[k].node < i'
        BY <1>1, <1>5, <2>0, <2>1
      <3>2. \A j, k \in DOMAIN valid_responses' : j < k =>
              /\ valid_responses'[j].node < valid_responses'[k].node
              /\ valid_responses'[j].commitment.id # valid_responses'[k].commitment.id
        <4> SUFFICES ASSUME NEW j \in 1..(m + 1), NEW k \in 1..(m + 1), j < k
                     PROVE  /\ valid_responses'[j].node < valid_responses'[k].node
                            /\ valid_responses'[j].commitment.id
                                 # valid_responses'[k].commitment.id
          BY <2>1
        <4>1. j \in 1..m /\ (k \in 1..m \/ k = m + 1)
          BY <2>0
        <4>2. CASE k \in 1..m
          BY <2>0, <2>1, <4>1, <4>2 DEF NonceInv, RespondersInOrder
        <4>3. CASE k = m + 1
          BY <1>1, <1>5, <2>0, <2>1, <2>2, <4>1, <4>3 DEF NonceInv, NoncesDrawn
        <4> QED
          BY <4>1, <4>2, <4>3
      <3> QED
        BY <3>1, <3>2 DEF RespondersInOrder
    <2>5. UnsentHeld'
      <3> SUFFICES ASSUME NEW k \in 1..(m + 1)
                   PROVE  /\ nonces'[valid_responses'[k].node] = valid_responses'[k].commitment
                          /\ \A p \in signed : p.nonce # valid_responses'[k].commitment.id
        BY <1>1, <2>1 DEF UnsentHeld, Unsent
      <3>1. CASE k \in 1..m
        <4>1. k \in Unsent
          BY <1>2, <2>0, <3>1 DEF Unsent
        <4>2. valid_responses[k].node \in Nodes \ {i}
          BY <1>1, <1>5, <2>0, <3>1
        <4> QED
          BY <1>1, <2>1, <3>1, <4>1, <4>2 DEF NonceInv, UnsentHeld
      <3>2. CASE k = m + 1
        BY <1>1, <1>4, <2>1, <2>2, <3>2 DEF NonceInv, NoncesDrawn
      <3> QED
        BY <2>0, <3>1, <3>2
    <2> QED
      BY <1>1, <1>2, <2>3, <2>4, <2>5 DEF NonceInv, RoundsInOrder, NonceSignsOnce
  <1> QED
    BY <1>6, <1>7, Round1Effect

(* Round 2 uses up the committed nonce of one responder.                    *)
LEMMA Round2NonceInv == ASSUME ClientTypeOK, NonceInv, Round2 PROVE NonceInv'
  <1> DEFINE m       == Len(partials) + 1
             partial == sign(valid_responses[m].node, valid_responses[m].commitment,
                             message, Commitments)
  <1>1. /\ pc = "round2" /\ m \in Unsent /\ signed' = signed \cup {partial}
        /\ UNCHANGED <<nonces, request, i, valid_responses, transaction, approvals, node_vars,
                       next_nonce>>
        /\ \/ pc' = "round2" /\ partials' = Append(partials, partial)
           \/ pc' = "idle" /\ partials' = partials
    BY Round2Effect DEF NonceInv
  <1>2. partial.nonce = valid_responses[m].commitment.id
    BY DEF sign, sign_partial
  <1> HIDE DEF partial
  <1>3. m \in DOMAIN valid_responses
    BY <1>1 DEF Unsent
  <1>4. NoncesDrawn'
    BY <1>1, <1>2, <1>3 DEF NonceInv, NoncesDrawn
  <1>5. RespondersInOrder'
    BY <1>1 DEF NonceInv, RespondersInOrder
  <1>6. NonceSignsOnce'
    <2>1. \A p \in signed : p.nonce # partial.nonce
      BY <1>1, <1>2 DEF NonceInv, UnsentHeld
    <2> QED
      BY <1>1, <2>1 DEF NonceInv, NonceSignsOnce
  <1>7. UnsentHeld'
    <2>1. CASE pc' = "idle"
      BY <2>1 DEF UnsentHeld
    <2>2. CASE pc' = "round2" /\ partials' = Append(partials, partial)
      <3>1. Len(partials') = m
        BY <2>2 DEF ClientTypeOK
      <3>2. ASSUME NEW k \in Unsent'
            PROVE  k \in Unsent /\ m < k /\ k \in DOMAIN valid_responses
        BY <1>1, <3>1, <3>2, ResponsesType DEF Unsent
      <3>3. ASSUME NEW k \in Unsent'
            PROVE  valid_responses[k].commitment.id # partial.nonce
        BY <1>2, <1>3, <3>2 DEF NonceInv, RespondersInOrder
      <3> QED
        BY <1>1, <3>2, <3>3 DEF NonceInv, UnsentHeld
    <2> QED
      BY <1>1, <2>1, <2>2
  <1>8. RoundsInOrder'
    BY <1>1 DEF RoundsInOrder
  <1> QED
    BY <1>4, <1>5, <1>6, <1>7, <1>8 DEF NonceInv

(* Only the two rounds touch nonces; the others keep the invariant.         *)
LEMMA NextNonceInv == ClientTypeOK /\ NonceInv /\ [Next]_vars => NonceInv'
  <1> SUFFICES ASSUME ClientTypeOK, NonceInv, [Next]_vars PROVE NonceInv'
    OBVIOUS
  <1> USE DEF NonceInv, NoncesDrawn, RespondersInOrder, UnsentHeld, Unsent, RoundsInOrder,
              NonceSignsOnce
  <1>1. ASSUME NEW r \in Requests, Begin(r) PROVE NonceInv'
    BY <1>1 DEF Begin
  <1>2. CASE Round1
    BY <1>2, Round1NonceInv
  <1>3. CASE Round1OutOfBounds
    BY <1>3 DEF Round1OutOfBounds, Return
  <1>4. CASE Collect
    BY <1>4 DEF Collect, Return
  <1>5. CASE Round2
    BY <1>5, Round2NonceInv
  <1>6. CASE Round2Lost
    BY <1>6 DEF Round2Lost, Return
  <1>7. CASE Finish
    BY <1>7 DEF Finish, Return
  <1>8. CASE Administer
    BY <1>8, AdminType DEF Administer, client_vars, ClientTypeOK
  <1>9. CASE UNCHANGED vars
    BY <1>9 DEF vars, client_vars
  <1> QED
    BY <1>1, <1>2, <1>3, <1>4, <1>5, <1>6, <1>7, <1>8, <1>9 DEF Next, Attesting

(* No nonce pair ever produces two different partial signatures.            *)
THEOREM NoNonceReuse == Spec => []NonceSignsOnce
  <1>1. Init => ClientTypeOK /\ NonceInv
    BY InitType, InitNonceInv
  <1>2. ClientTypeOK /\ NonceInv /\ [Next]_vars => (ClientTypeOK /\ NonceInv)'
    BY NextType, NextNonceInv
  <1>3. NonceInv => NonceSignsOnce
    BY DEF NonceInv
  <1> QED
    BY <1>1, <1>2, <1>3, PTL DEF Spec

(* Round 2 signs with the nonces round 1 committed to.                      *)
THEOREM SlotsHoldCommitments == Spec => []SlotHoldsCommittedNonce
  <1>1. Init => ClientTypeOK /\ NonceInv
    BY InitType, InitNonceInv
  <1>2. ClientTypeOK /\ NonceInv /\ [Next]_vars => (ClientTypeOK /\ NonceInv)'
    BY NextType, NextNonceInv
  <1>3. ClientTypeOK /\ NonceInv => SlotHoldsCommittedNonce
    <2> SUFFICES ASSUME ClientTypeOK, NonceInv, pc = "round2",
                        NEW k \in (Len(partials) + 1)..Len(valid_responses)
                 PROVE  nonces[valid_responses[k].node] = valid_responses[k].commitment
      BY DEF SlotHoldsCommittedNonce
    <2>1. k \in Unsent
      BY ResponsesType DEF Unsent
    <2> QED
      BY <2>1 DEF NonceInv, UnsentHeld
  <1> QED
    BY <1>1, <1>2, <1>3, PTL DEF Spec

----------------------------------------------------------------------------
(* An answer carries a commitment for the index of its node, and a call has *)
(* no result before it ends.                                                *)
AnswersInv ==
  /\ SharesIndexed
  /\ \A k \in DOMAIN valid_responses :
       valid_responses[k].commitment.index = valid_responses[k].node
  /\ pc # "idle" => result = None

(* The whole invariant of a signature in the making.                        *)
SignatureInv == AnswersInv /\ PartialsAnswer

(* New nodes hold default shares of their own index only.                   *)
LEMMA InitSignatureInv == Init => SignatureInv
  BY DEF Init, NodeInit, NodeInitWith, SignatureInv, AnswersInv, SharesIndexed, PartialsAnswer

(* Round 1 adds at most the answer of the node it asks.                     *)
LEMMA Round1AnswersInv ==
  ASSUME ClientTypeOK, AnswersInv, Round1 PROVE AnswersInv'
  <1>1. /\ pc = "round1" /\ i \in Nodes /\ request.program_cid \in Programs
        /\ UNCHANGED <<result, node_vars>>
    BY Round1Effect DEF Requests
  <1>2. SharesIndexed' /\ (pc' # "idle" => result' = None)
    BY <1>1 DEF AnswersInv, SharesIndexed, node_vars
  <1>3. CASE UNCHANGED valid_responses
    BY <1>2, <1>3 DEF AnswersInv
  <1>4. CASE /\ nonces'[i] = [index |-> get_key_share(i, request.program_cid).index,
                              id |-> next_nonce]
             /\ valid_responses' =
                  Append(valid_responses, [node |-> i, commitment |-> nonces'[i]])
    <2>1. get_key_share(i, request.program_cid).index = i
      BY <1>1, GetKeyShareIndex DEF AnswersInv
    <2>2. [node |-> i, commitment |-> nonces'[i]] \in [node : Nodes, commitment : Nonces]
      BY <1>1, <1>4, <2>1 DEF Nonces, ClientTypeOK, NodeTypeOK
    <2>3. /\ Len(valid_responses) \in Nat /\ DOMAIN valid_responses = 1..Len(valid_responses)
          /\ DOMAIN valid_responses' = 1..(Len(valid_responses) + 1)
          /\ \A k \in 1..Len(valid_responses) : valid_responses'[k] = valid_responses[k]
          /\ valid_responses'[Len(valid_responses) + 1] =
               [node |-> i, commitment |-> nonces'[i]]
      BY <1>4, <2>2, AppendElements DEF ClientTypeOK
    <2>4. \A k \in DOMAIN valid_responses' :
            valid_responses'[k].commitment.index = valid_responses'[k].node
      BY <1>4, <2>1, <2>3 DEF AnswersInv
    <2> QED
      BY <1>2, <2>4 DEF AnswersInv
  <1> QED
    BY <1>3, <1>4, Round1Effect

(* All other steps leave the answers alone.                                 *)
LEMMA NextAnswersInv == ClientTypeOK /\ AnswersInv /\ [Next]_vars => AnswersInv'
  <1> SUFFICES ASSUME ClientTypeOK, AnswersInv, [Next]_vars PROVE AnswersInv'
    OBVIOUS
  <1> USE DEF AnswersInv, SharesIndexed, node_vars
  <1>1. ASSUME NEW r \in Requests, Begin(r) PROVE AnswersInv'
    BY <1>1 DEF Begin
  <1>2. CASE Round1
    BY <1>2, Round1AnswersInv
  <1>3. CASE Round1OutOfBounds
    BY <1>3 DEF Round1OutOfBounds, Return
  <1>4. CASE Collect
    BY <1>4 DEF Collect, Return
  <1>5. CASE Round2
    <2>1. UNCHANGED <<pc, result>> \/ pc' = "idle"
      BY <1>5 DEF Round2, Return
    <2> QED
      BY <1>5, <2>1 DEF Round2
  <1>6. CASE Round2Lost
    BY <1>6 DEF Round2Lost, Return
  <1>7. CASE Finish
    BY <1>7 DEF Finish, Return
  <1>8. CASE Administer
    <2>1. SharesIndexed'
      BY <1>8, AdminIndices DEF Administer, ClientTypeOK
    <2> QED
      BY <1>8, <2>1 DEF Administer, client_vars
  <1>9. CASE UNCHANGED vars
    BY <1>9 DEF vars, client_vars
  <1> QED
    BY <1>1, <1>2, <1>3, <1>4, <1>5, <1>6, <1>7, <1>8, <1>9 DEF Next, Attesting

(* What a node that follows the protocol sends for the next commitment.     *)
LEMMA PartialSigned ==
  ASSUME ClientTypeOK, AnswersInv, pc = "round2", NEW m \in Unsent
  PROVE  LET partial == sign(valid_responses[m].node, valid_responses[m].commitment,
                             message, Commitments)
         IN  /\ partial \in Partials
             /\ partial.index = valid_responses[m].node
             /\ partial.nonce = valid_responses[m].commitment.id
             /\ partial.message = message /\ partial.commitments = Commitments
  <1> DEFINE partial == sign(valid_responses[m].node, valid_responses[m].commitment,
                             message, Commitments)
  <1>1. m \in DOMAIN valid_responses /\ valid_responses[m].node \in Nodes
          /\ valid_responses[m].commitment \in Nonces
    BY ResponsesType DEF Unsent
  <1>2. /\ partial.index = valid_responses[m].node
        /\ partial.nonce = valid_responses[m].commitment.id
        /\ partial.message = message /\ partial.commitments = Commitments
    BY <1>1 DEF sign, sign_partial, AnswersInv, SharesIndexed
  <1>3. transaction \in Transactions
    BY DEF ClientTypeOK
  <1>4. partial \in Partials
    BY <1>1, <1>3, SignType, CommitmentsType DEF message, ClientTypeOK
  <1> QED
    BY <1>2, <1>4

(* The next partial signature answers the next commitment.                  *)
LEMMA Round2PartialsAnswer ==
  ASSUME ClientTypeOK, NonceInv, SignatureInv, Round2 PROVE PartialsAnswer'
  <1> DEFINE m       == Len(partials) + 1
             partial == sign(valid_responses[m].node, valid_responses[m].commitment,
                             message, Commitments)
  <1>1. /\ pc = "round2" /\ m \in Unsent
        /\ UNCHANGED <<valid_responses, transaction>>
        /\ partials' = Append(partials, partial) \/ partials' = partials
    BY Round2Effect DEF NonceInv
  <1>2. /\ partial \in AnyPartials
        /\ partial.index = valid_responses[m].node
        /\ partial.nonce = valid_responses[m].commitment.id
        /\ partial.message = message /\ partial.commitments = Commitments
    <2>1. Partials \subseteq AnyPartials
      BY DEF Partials, AnyPartials
    <2> QED
      BY <1>1, <2>1, PartialSigned DEF SignatureInv
  <1>3. message' = message /\ Commitments' = Commitments
    BY <1>1 DEF message, Commitments
  <1> HIDE DEF partial
  <1>4. CASE partials' = Append(partials, partial)
    <2>1. /\ DOMAIN partials' = 1..m /\ DOMAIN partials = 1..Len(partials)
          /\ \A k \in 1..Len(partials) : partials'[k] = partials[k]
          /\ partials'[m] = partial /\ Len(partials) \in Nat
      BY <1>2, <1>4, AppendElements DEF ClientTypeOK
    <2>2. \A k \in 1..m : k \in DOMAIN partials \/ k = m
      BY <2>1
    <2> QED
      BY <1>1, <1>2, <1>3, <2>1, <2>2 DEF SignatureInv, PartialsAnswer
  <1>5. CASE partials' = partials
    BY <1>1, <1>3, <1>5 DEF SignatureInv, PartialsAnswer
  <1> QED
    BY <1>1, <1>4, <1>5

(* All other steps leave answers and partial signatures alone.              *)
LEMMA NextSignatureInv == ClientTypeOK /\ NonceInv /\ SignatureInv /\ [Next]_vars => SignatureInv'
  <1> SUFFICES ASSUME ClientTypeOK, NonceInv, SignatureInv, [Next]_vars PROVE PartialsAnswer'
    BY NextAnswersInv DEF SignatureInv
  <1> USE DEF SignatureInv, PartialsAnswer, message, Commitments
  <1>1. ASSUME NEW r \in Requests, Begin(r) PROVE PartialsAnswer'
    BY <1>1 DEF Begin
  <1>2. CASE Round1
    BY <1>2, Round1Effect DEF NonceInv, RoundsInOrder
  <1>3. CASE Round1OutOfBounds
    BY <1>3 DEF Round1OutOfBounds
  <1>4. CASE Collect
    BY <1>4 DEF Collect
  <1>5. CASE Round2
    BY <1>5, Round2PartialsAnswer
  <1>6. CASE Round2Lost
    BY <1>6 DEF Round2Lost
  <1>7. CASE Finish
    BY <1>7 DEF Finish
  <1>8. CASE Administer
    BY <1>8 DEF Administer, client_vars
  <1>9. CASE UNCHANGED vars
    BY <1>9 DEF vars, client_vars
  <1> QED
    BY <1>1, <1>2, <1>3, <1>4, <1>5, <1>6, <1>7, <1>8, <1>9 DEF Next, Attesting

----------------------------------------------------------------------------
(* The nonces always open R, so that a complete signature verifies exactly  *)
(* when the shares behind it interpolate to the client's key.               *)
LEMMA VerifyTurnsOnShares ==
  ASSUME ClientTypeOK, NonceInv, SignatureInv, Len(partials) = Len(valid_responses)
  PROVE  /\ verify(aggregate(message, Commitments, partials), GroupPublicKey, message)
              <=> SharesInterpolate(partials, GroupPublicKey)
         /\ \A j, k \in DOMAIN partials : partials[j].index = partials[k].index => j = k
  <1> DEFINE sig == aggregate(message, Commitments, partials)
  <1>1. /\ Len(valid_responses) \in Nat /\ DOMAIN valid_responses = 1..Len(valid_responses)
        /\ DOMAIN partials = DOMAIN valid_responses
        /\ \A k \in DOMAIN valid_responses : valid_responses[k].node \in Nat
    BY ResponsesType, ThresholdConfig DEF Nodes
  <1>2. sig = [message |-> message, commitments |-> Commitments, partials |-> partials]
    BY DEF aggregate
  <1>3. DOMAIN Commitments = DOMAIN partials
          /\ \A k \in DOMAIN partials : Commitments[k] = valid_responses[k].commitment
    BY <1>1 DEF Commitments
  <1>4. \A k \in DOMAIN partials :
          /\ partials[k].index = Commitments[k].index /\ partials[k].nonce = Commitments[k].id
          /\ partials[k].index = valid_responses[k].node
          /\ partials[k].message = message /\ partials[k].commitments = Commitments
    BY <1>1, <1>3 DEF SignatureInv, AnswersInv, PartialsAnswer
  <1>5. {<<p.index, p.nonce>> : p \in Range(partials)} =
          {<<c.index, c.id>> : c \in Range(Commitments)}
    BY <1>3, <1>4 DEF Range
  <1>6. \A p \in Range(partials) : p.message = message /\ p.commitments = Commitments
    BY <1>4 DEF Range
  <1>7. Len(partials) = Len(Commitments)
    BY CommitmentsType
  <1>8. NoncesOpenR(sig)
    BY <1>2, <1>5, <1>6, <1>7 DEF NoncesOpenR
  <1>9. \A j, k \in DOMAIN partials : partials[j].index = partials[k].index => j = k
    <2> SUFFICES ASSUME NEW j \in DOMAIN partials, NEW k \in DOMAIN partials,
                        valid_responses[j].node = valid_responses[k].node
                 PROVE  j = k
      BY <1>4
    <2>1. j \in Nat /\ k \in Nat /\ (j < k \/ k < j \/ j = k)
      BY <1>1
    <2> QED
      BY <1>1, <2>1 DEF NonceInv, RespondersInOrder
  <1> HIDE DEF sig
  <1>10. verify(sig, GroupPublicKey, message) <=> SharesInterpolate(partials, GroupPublicKey)
    BY <1>2, <1>8 DEF verify
  <1> QED
    BY <1>9, <1>10 DEF sig

(* Only Finish returns InvalidSignature, and only over the shares.          *)
LEMMA NextBlame ==
  ASSUME ClientTypeOK, NonceInv, SignatureInv, VerificationFailsOnlyOnKeys, [Next]_vars
  PROVE  VerificationFailsOnlyOnKeys'
  <1> USE NoneIsNoResult DEF VerificationFailsOnlyOnKeys, Results, Failures
  <1>1. ASSUME NEW r \in Requests, Begin(r) PROVE VerificationFailsOnlyOnKeys'
    BY <1>1 DEF Begin
  <1>2. CASE Round1
    BY <1>2, Round1Effect
  <1>3. CASE Round1OutOfBounds
    BY <1>3 DEF Round1OutOfBounds, Return
  <1>4. CASE Collect
    BY <1>4 DEF Collect, Return
  <1>5. CASE Round2
    BY <1>5 DEF Round2, Return, SignatureInv, AnswersInv
  <1>6. CASE Round2Lost
    BY <1>6 DEF Round2Lost, Return
  <1>7. CASE Finish
    <2>1. CASE SharesInterpolate(partials, GroupPublicKey)
      BY <1>7, <2>1, VerifyTurnsOnShares DEF Finish, Return
    <2>2. CASE ~SharesInterpolate(partials, GroupPublicKey)
      <3>1. \/ ~(Len(partials) >= SharingThreshold)
            \/ \E k \in DOMAIN partials : partials[k].key # GroupPublicKey
            \/ \E j, k \in DOMAIN partials : partials[j].epoch # partials[k].epoch
        BY <1>7, <2>2, VerifyTurnsOnShares DEF Finish, SharesInterpolate
      <3>2. Len(partials) \in Nat /\ SharingThreshold \in Nat
        BY ResponsesType, ThresholdConfig
      <3> QED
        BY <1>7, <3>1, <3>2 DEF Finish
    <2> QED
      BY <2>1, <2>2
  <1>8. CASE Administer
    BY <1>8 DEF Administer, client_vars
  <1>9. CASE UNCHANGED vars
    BY <1>9 DEF vars, client_vars
  <1> QED
    BY <1>1, <1>2, <1>3, <1>4, <1>5, <1>6, <1>7, <1>8, <1>9 DEF Next, Attesting

(* When the aggregate fails to verify, the keys are to blame.               *)
THEOREM OnlyKeysFailVerification == Spec => []VerificationFailsOnlyOnKeys
  <1> DEFINE Inv == ClientTypeOK /\ NonceInv /\ SignatureInv /\ VerificationFailsOnlyOnKeys
  <1>1. Init => Inv
    <2>1. Init => VerificationFailsOnlyOnKeys
      <3> SUFFICES ASSUME Init PROVE result # [tag |-> "InvalidSignature"]
        BY DEF VerificationFailsOnlyOnKeys
      <3> QED
        BY NoneIsNoResult DEF Init, Results, Failures
    <2> QED
      BY <2>1, InitType, InitNonceInv, InitSignatureInv
  <1>2. Inv /\ [Next]_vars => Inv'
    BY NextType, NextNonceInv, NextSignatureInv, NextBlame
  <1>3. Inv => VerificationFailsOnlyOnKeys
    OBVIOUS
  <1> QED
    BY <1>1, <1>2, <1>3, PTL DEF Spec

----------------------------------------------------------------------------
(* Validators that compute the transaction from the request alone, as the   *)
(* ones in the repository do.                                               *)
DeterministicVerdicts == \A r \in Requests : \A t, u \in Outputs[r] : t = u

(* Every responder has approved the transaction.                            *)
ApprovalInv ==
  /\ transaction # None => transaction \in Outputs[request]
  /\ \A k \in DOMAIN valid_responses :
       transaction # None /\ [node |-> valid_responses[k].node, tx |-> transaction] \in approvals

(* A deterministic validator approves the transaction already chosen.       *)
LEMMA NextApprovalInv ==
  DeterministicVerdicts /\ ClientTypeOK /\ UnsentHeld /\ ApprovalInv /\ [Next]_vars => ApprovalInv'
  <1> SUFFICES ASSUME DeterministicVerdicts, ClientTypeOK, UnsentHeld, ApprovalInv, [Next]_vars
               PROVE  ApprovalInv'
    OBVIOUS
  <1> USE DEF ApprovalInv
  <1>1. ASSUME NEW r \in Requests, Begin(r) PROVE ApprovalInv'
    BY <1>1 DEF Begin
  <1>2. CASE Round1
    <2>1. /\ i \in Nodes /\ request' = request /\ request \in Requests
          /\ approvals \subseteq approvals'
      BY <1>2, Round1Effect
    <2>2. CASE UNCHANGED <<valid_responses, transaction>>
      BY <2>1, <2>2
    <2>3. ASSUME NEW tx \in Outputs[request], nonces'[i] \in Nonces,
                 valid_responses' =
                   Append(valid_responses, [node |-> i, commitment |-> nonces'[i]]),
                 transaction' = IF transaction = None THEN tx ELSE transaction,
                 approvals' = approvals \cup {[node |-> i, tx |-> tx]}
          PROVE  ApprovalInv'
      <3>1. tx # None
        BY <2>1, NodeConstants DEF Transactions
      <3>2. transaction' = tx /\ (transaction # None => transaction = tx)
        BY <2>1, <2>3 DEF DeterministicVerdicts
      <3>3. [node |-> i, commitment |-> nonces'[i]] \in [node : Nodes, commitment : Nonces]
        BY <2>1, <2>3
      <3>4. /\ DOMAIN valid_responses = 1..Len(valid_responses) /\ Len(valid_responses) \in Nat
            /\ DOMAIN valid_responses' = 1..(Len(valid_responses) + 1)
            /\ \A k \in 1..Len(valid_responses) : valid_responses'[k] = valid_responses[k]
            /\ valid_responses'[Len(valid_responses) + 1].node = i
        BY <2>3, <3>3, AppendElements DEF ClientTypeOK
      <3>5. \A k \in DOMAIN valid_responses' :
              k \in DOMAIN valid_responses \/ k = Len(valid_responses) + 1
        BY <3>4
      <3> QED
        BY <2>1, <2>3, <3>1, <3>2, <3>4, <3>5
    <2>4. [index |-> get_key_share(i, request.program_cid).index, id |-> next_nonce] \in Nonces
      BY <2>1, GetKeyShareType DEF ClientTypeOK, NodeTypeOK, Nonces, Requests, KeyShares
    <2> QED
      BY <1>2, <2>2, <2>3, <2>4, Round1Effect
  <1>3. CASE Round1OutOfBounds
    BY <1>3 DEF Round1OutOfBounds
  <1>4. CASE Collect
    BY <1>4 DEF Collect
  <1>5. CASE Round2
    BY <1>5, Round2Effect
  <1>6. CASE Round2Lost
    BY <1>6 DEF Round2Lost
  <1>7. CASE Finish
    BY <1>7 DEF Finish
  <1>8. CASE Administer
    BY <1>8 DEF Administer, client_vars
  <1>9. CASE UNCHANGED vars
    BY <1>9 DEF vars, client_vars
  <1> QED
    BY <1>1, <1>2, <1>3, <1>4, <1>5, <1>6, <1>7, <1>8, <1>9 DEF Next, Attesting

(* Distinct responders are as many approvers.                               *)
LEMMA RespondersApprove ==
  ASSUME ClientTypeOK, NonceInv, ApprovalInv
  PROVE  Cardinality(Approvers(transaction)) >= Len(valid_responses)
  <1> DEFINE node == [k \in 1..Len(valid_responses) |-> valid_responses[k].node]
  <1>1. Len(valid_responses) \in Nat /\ DOMAIN valid_responses = 1..Len(valid_responses)
    BY ResponsesType
  <1>2. node \in [1..Len(valid_responses) -> Approvers(transaction)]
    BY <1>1, ResponsesType DEF Approvers, ApprovalInv
  <1>3. \A j, k \in 1..Len(valid_responses) : node[j] = node[k] => j = k
    <2> SUFFICES ASSUME NEW j \in 1..Len(valid_responses), NEW k \in 1..Len(valid_responses),
                        valid_responses[j].node = valid_responses[k].node
                 PROVE  j = k
      OBVIOUS
    <2>1. valid_responses[j].node \in Nat
      BY <1>1, ResponsesType, ThresholdConfig DEF Nodes
    <2>2. j < k \/ k < j \/ j = k
      BY <1>1
    <2> QED
      BY <1>1, <2>1, <2>2 DEF NonceInv, RespondersInOrder
  <1>4. node \in Injection(1..Len(valid_responses), Approvers(transaction))
    BY <1>2, <1>3 DEF Injection, IsInjective
  <1> HIDE DEF node
  <1>5. IsFiniteSet(Approvers(transaction))
    <2>1. IsFiniteSet(Nodes)
      BY ThresholdConfig, FS_Interval DEF Nodes
    <2>2. Approvers(transaction) \in SUBSET Nodes
      BY DEF Approvers
    <2> QED
      BY <2>1, <2>2, FS_Subset
  <1>6. /\ Cardinality(1..Len(valid_responses)) <= Cardinality(Approvers(transaction))
        /\ Cardinality(Approvers(transaction)) \in Nat
    BY <1>4, <1>5, FS_Injection, FS_CardinalityType
  <1>7. Cardinality(1..Len(valid_responses)) = Len(valid_responses)
    <2>1. Cardinality(1..Len(valid_responses)) =
            IF 1 > Len(valid_responses) THEN 0 ELSE Len(valid_responses) - 1 + 1
      BY <1>1, FS_Interval
    <2> QED
      BY <1>1, <2>1
  <1> QED
    BY <1>1, <1>6, <1>7

(* Finish succeeds only with a quorum of approvals.                         *)
QuorumOrInvalid ==
  \/ /\ result' = [tag |-> "ok", tx |-> transaction] /\ transaction \in Transactions
     /\ Len(valid_responses) >= SharingThreshold
     /\ Cardinality(Approvers(transaction)) >= SharingThreshold
  \/ result' = [tag |-> "InvalidSignature"]

LEMMA FinishHasQuorum ==
  ASSUME ClientTypeOK, NonceInv, SignatureInv, ApprovalInv, Finish
  PROVE  QuorumOrInvalid
  <1> USE DEF QuorumOrInvalid
  <1>1. Len(partials) = Len(valid_responses) /\ transaction \in Transactions
    BY DEF Finish, ClientTypeOK
  <1>2. CASE SharesInterpolate(partials, GroupPublicKey)
    <2>1. Len(valid_responses) >= SharingThreshold
      BY <1>1, <1>2 DEF SharesInterpolate
    <2>2. Cardinality(Approvers(transaction)) \in Nat
      <3>1. IsFiniteSet(Nodes) /\ Approvers(transaction) \in SUBSET Nodes
        BY ThresholdConfig, FS_Interval DEF Nodes, Approvers
      <3> QED
        BY <3>1, FS_Subset, FS_CardinalityType
    <2>3. Cardinality(Approvers(transaction)) >= SharingThreshold
      BY <2>1, <2>2, RespondersApprove, ResponsesType, ThresholdConfig
    <2> QED
      BY <1>1, <1>2, <2>1, <2>3, VerifyTurnsOnShares DEF Finish, Return
  <1>3. CASE ~SharesInterpolate(partials, GroupPublicKey)
    BY <1>1, <1>3, VerifyTurnsOnShares DEF Finish, Return
  <1> QED
    BY <1>2, <1>3

(* Only Finish returns ok, and then with a quorum.                          *)
LEMMA NextAttested ==
  ASSUME ClientTypeOK, NonceInv, SignatureInv, ApprovalInv, AttestedByThreshold, [Next]_vars
  PROVE  AttestedByThreshold'
  <1> USE DEF AttestedByThreshold, Approvers
  <1>1. ASSUME NEW r \in Requests, Begin(r) PROVE AttestedByThreshold'
    BY <1>1 DEF Begin
  <1>2. CASE Round1
    BY <1>2, Round1Effect DEF SignatureInv, AnswersInv
  <1>3. CASE Round1OutOfBounds
    BY <1>3 DEF Round1OutOfBounds, Return
  <1>4. CASE Collect
    <2>1. approvals' = approvals
      BY <1>4 DEF Collect
    <2>2. result' = result \/ result' = [tag |-> "InsufficientShares"]
            \/ result' = [tag |-> "Panic"]
      BY <1>4 DEF Collect, Return
    <2>3. CASE result' = result
      BY <2>1, <2>3
    <2>4. CASE result' = [tag |-> "InsufficientShares"] \/ result' = [tag |-> "Panic"]
      <3>1. result'.tag # "ok"
        BY <2>4
      <3> QED
        BY <3>1
    <2> QED
      BY <2>2, <2>3, <2>4
  <1>5. CASE Round2
    <2>1. approvals' = approvals
      BY <1>5 DEF Round2
    <2>2. result' = result \/ result' = [tag |-> "NoNonce"] \/ result' = [tag |-> "Unavailable"]
      BY <1>5 DEF Round2, Return
    <2>3. CASE result' = result
      BY <2>1, <2>3
    <2>4. CASE result' = [tag |-> "NoNonce"] \/ result' = [tag |-> "Unavailable"]
      <3>1. result'.tag # "ok"
        BY <2>4
      <3> QED
        BY <3>1
    <2> QED
      BY <2>2, <2>3, <2>4
  <1>6. CASE Round2Lost
    BY <1>6 DEF Round2Lost, Return
  <1>7. CASE Finish
    <2>1. approvals' = approvals
      BY <1>7 DEF Finish
    <2>2. CASE result' = [tag |-> "InvalidSignature"]
      BY <2>2
    <2>3. CASE /\ result' = [tag |-> "ok", tx |-> transaction]
               /\ Cardinality(Approvers(transaction)) >= SharingThreshold
      BY <2>1, <2>3
    <2> QED
      BY <1>7, <2>2, <2>3, FinishHasQuorum DEF QuorumOrInvalid
  <1>8. CASE Administer
    BY <1>8 DEF Administer, client_vars
  <1>9. CASE UNCHANGED vars
    BY <1>9 DEF vars, client_vars
  <1> QED
    BY <1>1, <1>2, <1>3, <1>4, <1>5, <1>6, <1>7, <1>8, <1>9 DEF Next, Attesting

(* With deterministic validators, a transaction is returned as attested     *)
(* only if as many nodes as the sharing demands approved it during the      *)
(* call, whatever the client's own threshold.                               *)
THEOREM QuorumApproved ==
  ASSUME DeterministicVerdicts
  PROVE  Spec => []AttestedByThreshold
  <1> DEFINE Inv == ClientTypeOK /\ NonceInv /\ SignatureInv /\ ApprovalInv /\ AttestedByThreshold
  <1>1. Init => Inv
    <2>1. Init => ApprovalInv /\ AttestedByThreshold
      BY DEF Init, ApprovalInv, AttestedByThreshold
    <2> QED
      BY <2>1, InitType, InitNonceInv, InitSignatureInv
  <1>2. Inv /\ [Next]_vars => Inv'
    <2>1. NonceInv => UnsentHeld
      BY DEF NonceInv
    <2> QED
      BY <2>1, NextType, NextNonceInv, NextSignatureInv, NextApprovalInv, NextAttested
  <1>3. Inv => AttestedByThreshold
    OBVIOUS
  <1> QED
    BY <1>1, <1>2, <1>3, PTL DEF Spec

----------------------------------------------------------------------------
(* The state the caller sees, step by step.                                 *)
LEMMA OutcomeSeen ==
  /\ pc # "idle" => ServiceOutcome = [tag |-> "pending", tx |-> None]
  /\ pc = "idle" /\ result = None => ServiceOutcome = [tag |-> "none", tx |-> None]
  /\ pc = "idle" /\ result # None => ServiceOutcome =
       IF result.tag = "ok" THEN [tag |-> "attested", tx |-> result.tx]
       ELSE [tag |-> "failed", tx |-> None]
  BY DEF ServiceOutcome

(* The same of the next state.                                              *)
LEMMA OutcomeSeenNext ==
  /\ pc' # "idle" => ServiceOutcome' = [tag |-> "pending", tx |-> None]
  /\ pc' = "idle" /\ result' # None => ServiceOutcome' =
       IF result'.tag = "ok" THEN [tag |-> "attested", tx |-> result'.tx]
       ELSE [tag |-> "failed", tx |-> None]
  BY DEF ServiceOutcome

(* A call that ends with an error is a failure of the service.              *)
LEMMA FailureIsFail ==
  ASSUME pc # "idle", pc' = "idle", result' \in Failures, UNCHANGED <<request, approvals>>
  PROVE  Service!Fail
  <1>1. result' # None /\ result'.tag # "ok"
    BY NoneIsNoResult DEF Results, Failures
  <1>2. ServiceOutcome.tag = "pending" /\ ServiceOutcome' = [tag |-> "failed", tx |-> None]
    BY <1>1, OutcomeSeen, OutcomeSeenNext
  <1> QED
    BY <1>2 DEF Service!Fail, Service!Outcome

(* A step inside a call that touches no approval is invisible.              *)
LEMMA InnerStepStutters ==
  ASSUME pc # "idle", pc' # "idle", UNCHANGED <<request, approvals>>
  PROVE  UNCHANGED Service!service_vars
  BY OutcomeSeen, OutcomeSeenNext DEF Service!service_vars

(* Every step of the client is a step of the service, or none.              *)
LEMMA RefinementStep ==
  ASSUME ClientTypeOK, NonceInv, ApprovalInv, Finish => QuorumOrInvalid, [Next]_vars
  PROVE  [Service!ServiceNext]_(Service!service_vars)
  <1> USE DEF Service!ServiceNext
  <1>1. ASSUME NEW r \in Requests, Begin(r)
        PROVE  Service!Open(r)
    <2>1. pc = "idle" /\ pc' # "idle" /\ request' = r /\ approvals' = {}
      BY <1>1 DEF Begin
    <2>2. ServiceOutcome.tag # "pending"
      BY <2>1, OutcomeSeen
    <2> QED
      BY <2>1, <2>2, OutcomeSeenNext DEF Service!Open, Service!Outcome
  <1>2. CASE Round1
    <2>1. /\ pc # "idle" /\ pc' # "idle" /\ UNCHANGED request /\ i \in Nodes
          /\ request \in Requests
      BY <1>2, Round1Effect
    <2>2. CASE approvals' = approvals
      BY <2>1, <2>2, InnerStepStutters
    <2>3. ASSUME NEW tx \in Outputs[request], approvals' = approvals \cup {[node |-> i, tx |-> tx]}
          PROVE  Service!Approve(i, request, tx)
      BY <2>1, <2>3, OutcomeSeen, OutcomeSeenNext DEF Service!Approve
    <2> QED
      BY <1>2, <2>1, <2>2, <2>3, Round1Effect
  <1>3. CASE Round1OutOfBounds
    BY <1>3, FailureIsFail DEF Round1OutOfBounds, Return, Failures
  <1>4. CASE Collect
    <2>1. pc # "idle" /\ UNCHANGED <<request, approvals>>
      BY <1>4 DEF Collect
    <2>2. \/ pc' = "idle" /\ result' \in Failures
          \/ pc' = "round2"
      BY <1>4 DEF Collect, Return, Failures
    <2> QED
      BY <2>1, <2>2, FailureIsFail, InnerStepStutters
  <1>5. CASE Round2
    <2>1. pc # "idle" /\ UNCHANGED <<request, approvals>>
      BY <1>5 DEF Round2
    <2>2. \/ pc' = "idle" /\ result' \in Failures
          \/ pc' = "round2"
      BY <1>5, Round2Effect DEF NonceInv, Failures
    <2> QED
      BY <2>1, <2>2, FailureIsFail, InnerStepStutters
  <1>6. CASE Round2Lost
    BY <1>6, FailureIsFail DEF Round2Lost, Return, Failures
  <1>7. CASE Finish
    <2>1. pc # "idle" /\ pc' = "idle" /\ UNCHANGED <<request, approvals, valid_responses>>
      BY <1>7 DEF Finish, Return
    <2>2. CASE result' = [tag |-> "InvalidSignature"]
      BY <2>1, <2>2, FailureIsFail DEF Failures
    <2>3. CASE /\ result' = [tag |-> "ok", tx |-> transaction] /\ transaction \in Transactions
               /\ Len(valid_responses) >= SharingThreshold
               /\ Cardinality(Approvers(transaction)) >= SharingThreshold
      <3>1. 1 \in DOMAIN valid_responses
        BY <2>3, ResponsesType, ThresholdConfig
      <3>2. [node |-> valid_responses[1].node, tx |-> transaction] \in approvals
        BY <3>1 DEF ApprovalInv
      <3>3. result' # None
        <4>1. result' \in Results
          BY <2>3 DEF Results
        <4> QED
          BY <4>1, NoneIsNoResult
      <3>4. ServiceOutcome' = [tag |-> "attested", tx |-> transaction]
        BY <2>1, <2>3, <3>3, OutcomeSeenNext
      <3>5. Service!Attest(transaction)
        <4>1. Service!ApproversOf(transaction) = Approvers(transaction)
          BY DEF Service!ApproversOf, Approvers
        <4>2. ServiceOutcome.tag = "pending"
          BY <2>1, OutcomeSeen
        <4>3. Service!Cardinality(Approvers(transaction)) = Cardinality(Approvers(transaction))
          BY DEF Service!Cardinality, Cardinality
        <4> QED
          BY <2>1, <2>3, <3>4, <4>1, <4>2, <4>3 DEF Service!Attest
      <3> QED
        BY <3>2, <3>5
    <2> QED
      BY <1>7, <2>2, <2>3 DEF QuorumOrInvalid
  <1>8. CASE Administer
    BY <1>8 DEF Administer, client_vars, ServiceOutcome, Service!service_vars
  <1>9. CASE UNCHANGED vars
    BY <1>9 DEF vars, client_vars, ServiceOutcome, Service!service_vars
  <1> QED
    BY <1>1, <1>2, <1>3, <1>4, <1>5, <1>6, <1>7, <1>8, <1>9 DEF Next, Attesting

(* With deterministic validators, the client implements the attestation     *)
(* service: it never reports as attested what no quorum approved.           *)
THEOREM ServiceImplemented ==
  ASSUME DeterministicVerdicts
  PROVE  Spec => ImplementsService
  <1> DEFINE Inv == ClientTypeOK /\ NonceInv /\ SignatureInv /\ ApprovalInv
  <1>1. Init => Inv
    <2>1. Init => ApprovalInv
      BY DEF Init, ApprovalInv
    <2> QED
      BY <2>1, InitType, InitNonceInv, InitSignatureInv
  <1>2. Inv /\ [Next]_vars => Inv'
    <2>1. NonceInv => UnsentHeld
      BY DEF NonceInv
    <2> QED
      BY <2>1, NextType, NextNonceInv, NextSignatureInv, NextApprovalInv
  <1>3. Init => Service!ServiceInit
    BY OutcomeSeen DEF Init, Service!ServiceInit, Service!Outcome
  <1>4. Inv /\ [Next]_vars => [Service!ServiceNext]_(Service!service_vars)
    BY RefinementStep, FinishHasQuorum
  <1> QED
    BY <1>1, <1>2, <1>3, <1>4, PTL DEF Spec, ImplementsService, Service!ServiceSpec

----------------------------------------------------------------------------
(* A client with a threshold and no more nodes than there are stays within  *)
(* the nodes in round 1 and has a transaction once it has an answer.        *)
TransactionKnown == \A k \in DOMAIN valid_responses : transaction # None

(* The two panics, and the steps that cannot panic.                         *)
LEMMA NextNoPanic ==
  ASSUME ClientTypeOK, NonceInv, SignatureInv, TransactionKnown, PanicOnlyOnMisconfiguration, [Next]_vars
  PROVE  TransactionKnown' /\ PanicOnlyOnMisconfiguration'
  <1> USE NoneIsNoResult DEF TransactionKnown, PanicOnlyOnMisconfiguration, Results, Failures
  <1>1. ASSUME NEW r \in Requests, Begin(r)
        PROVE  TransactionKnown' /\ PanicOnlyOnMisconfiguration'
    BY <1>1 DEF Begin
  <1>2. CASE Round1
    <2>1. request \in Requests /\ result' = result
      BY <1>2, Round1Effect
    <2>2. \A tx \in Outputs[request] : tx # None
      BY <2>1, NodeConstants DEF Transactions
    <2>3. \/ UNCHANGED <<valid_responses, transaction>>
          \/ \E tx \in Outputs[request] : transaction' = IF transaction = None THEN tx ELSE transaction
      BY <1>2, Round1Effect
    <2> QED
      BY <2>1, <2>2, <2>3
  <1>3. CASE Round1OutOfBounds
    <2>1. i \in 1..NodeCount /\ i \notin 1..SharingTotal
      BY <1>3 DEF Round1OutOfBounds, ClientTypeOK, Nodes
    <2>2. NodeCount > SharingTotal
      BY <2>1, ClientConstants, ThresholdConfig
    <2> QED
      BY <1>3, <2>2 DEF Round1OutOfBounds
  <1>4. CASE Collect
    <2>1. TransactionKnown'
      BY <1>4 DEF Collect
    <2>2. CASE Len(valid_responses) >= Threshold /\ transaction = None
      <3>1. ~(1 \in DOMAIN valid_responses)
        BY <2>2
      <3>2. Threshold = 0
        BY <2>2, <3>1, ResponsesType, ClientConstants
      <3> QED
        BY <2>1, <3>2
    <2>3. CASE ~(Len(valid_responses) >= Threshold /\ transaction = None)
      <3>1. result' # [tag |-> "Panic"] \/ result' = result
        BY <1>4, <2>3 DEF Collect, Return
      <3> QED
        BY <2>1, <3>1
    <2> QED
      BY <2>2, <2>3
  <1>5. CASE Round2
    BY <1>5, Round2Effect DEF NonceInv
  <1>6. CASE Round2Lost
    BY <1>6 DEF Round2Lost, Return
  <1>7. CASE Finish
    BY <1>7 DEF Finish, Return
  <1>8. CASE Administer
    BY <1>8 DEF Administer, client_vars
  <1>9. CASE UNCHANGED vars
    BY <1>9 DEF vars, client_vars
  <1> QED
    BY <1>1, <1>2, <1>3, <1>4, <1>5, <1>6, <1>7, <1>8, <1>9 DEF Next, Attesting

(* attest() panics only in a client configured with threshold 0 or with     *)
(* more nodes than there are.                                               *)
THEOREM NoPanic == Spec => []PanicOnlyOnMisconfiguration
  <1> DEFINE Inv == /\ ClientTypeOK /\ NonceInv /\ SignatureInv
                    /\ TransactionKnown /\ PanicOnlyOnMisconfiguration
  <1>1. Init => Inv
    <2>1. Init => TransactionKnown /\ PanicOnlyOnMisconfiguration
      BY NoneIsNoResult DEF Init, TransactionKnown, PanicOnlyOnMisconfiguration, Results, Failures
    <2> QED
      BY <2>1, InitType, InitNonceInv, InitSignatureInv
  <1>2. Inv /\ [Next]_vars => Inv'
    BY NextType, NextNonceInv, NextSignatureInv, NextNoPanic
  <1>3. Inv => PanicOnlyOnMisconfiguration
    OBVIOUS
  <1> QED
    BY <1>1, <1>2, <1>3, PTL DEF Spec

----------------------------------------------------------------------------
(* A client that owns its nodes knows of every approval, and leaves the     *)
(* poll only at its end or with enough answers.                             *)
ApproversAnswered ==
  \A a \in approvals : \E k \in DOMAIN valid_responses : a.node = valid_responses[k].node

PollInv ==
  ~Networked =>
    /\ ApproversAnswered
    /\ pc = "collect" => i = NodeCount + 1 \/ Len(valid_responses) >= Threshold

(* As many nodes approved, at most, as answered.                            *)
LEMMA ApproversCounted ==
  ASSUME ClientTypeOK, ApproversAnswered
  PROVE  /\ Cardinality({a.node : a \in approvals}) \in Nat
         /\ Cardinality({a.node : a \in approvals}) <= Len(valid_responses)
  <1> DEFINE S == 1..Len(valid_responses)
             T == {valid_responses[k].node : k \in S}
             node == [k \in S |-> valid_responses[k].node]
  <1>1. Len(valid_responses) \in Nat /\ DOMAIN valid_responses = S
    BY ResponsesType
  <1>2. node \in [S -> T] /\ \A e \in T : \E k \in S : node[k] = e
    OBVIOUS
  <1>3. node \in Surjection(S, T)
    BY <1>2 DEF Surjection
  <1>4. {a.node : a \in approvals} \in SUBSET T
    BY <1>1 DEF ApproversAnswered
  <1> HIDE DEF node, T
  <1>5. IsFiniteSet(S) /\ Cardinality(S) = Len(valid_responses)
    <2>1. IsFiniteSet(S) /\ Cardinality(S) = IF 1 > Len(valid_responses) THEN 0
                                            ELSE Len(valid_responses) - 1 + 1
      BY <1>1, FS_Interval
    <2> QED
      BY <1>1, <2>1
  <1>6. IsFiniteSet(T) /\ Cardinality(T) <= Len(valid_responses)
    BY <1>3, <1>5, FS_Surjection
  <1>7. /\ Cardinality({a.node : a \in approvals}) <= Cardinality(T)
        /\ Cardinality({a.node : a \in approvals}) \in Nat /\ Cardinality(T) \in Nat
    BY <1>4, <1>6, FS_Subset, FS_CardinalityType
  <1> QED
    BY <1>1, <1>6, <1>7

(* One answer of a poll that nothing can lose.                              *)
LEMMA Round1PollInv ==
  ASSUME ClientTypeOK, PollInv, Round1 PROVE PollInv'
  <1> SUFFICES ASSUME ~Networked PROVE ApproversAnswered' /\
                (pc' = "collect" => i' = NodeCount + 1 \/ Len(valid_responses') >= Threshold)
    BY DEF PollInv
  <1>1. PICK resp \in process_request(i, request) :
          /\ approvals' = IF resp.tag = "valid"
                          THEN approvals \cup {[node |-> i, tx |-> resp.tx]} ELSE approvals
          /\ HandleRound1(resp)
    BY DEF Round1
  <1>2. pc' = "collect" => i' = NodeCount + 1 \/ Len(valid_responses') >= Threshold
    BY <1>1 DEF HandleRound1
  <1>3. NodeTypeOK /\ i \in Nodes /\ request \in Requests
    BY Round1Effect DEF ClientTypeOK
  <1>4. CASE resp.tag # "valid"
    BY <1>1, <1>2, <1>4 DEF HandleRound1, TakeAnswer, PollInv, ApproversAnswered
  <1>5. CASE resp.tag = "valid"
    <2>1. resp.nonce \in Nonces
      BY <1>3, <1>5, ProcessRequestType
    <2>2. /\ valid_responses' = Append(valid_responses, [node |-> i, commitment |-> resp.nonce])
          /\ approvals' = approvals \cup {[node |-> i, tx |-> resp.tx]}
      BY <1>1, <1>5 DEF HandleRound1, TakeAnswer
    <2>3. [node |-> i, commitment |-> resp.nonce] \in [node : Nodes, commitment : Nonces]
      BY <1>3, <2>1
    <2>4. /\ DOMAIN valid_responses = 1..Len(valid_responses) /\ Len(valid_responses) \in Nat
          /\ DOMAIN valid_responses' = 1..(Len(valid_responses) + 1)
          /\ \A k \in 1..Len(valid_responses) : valid_responses'[k] = valid_responses[k]
          /\ valid_responses'[Len(valid_responses) + 1].node = i
      BY <2>2, <2>3, AppendElements DEF ClientTypeOK
    <2>5. ASSUME NEW a \in approvals
          PROVE  \E k \in DOMAIN valid_responses' : a.node = valid_responses'[k].node
      <3>1. PICK k \in DOMAIN valid_responses : a.node = valid_responses[k].node
        BY DEF PollInv, ApproversAnswered
      <3> QED
        BY <2>4, <3>1
    <2>6. Len(valid_responses) + 1 \in DOMAIN valid_responses'
      BY <2>4
    <2> QED
      BY <1>2, <2>2, <2>4, <2>5, <2>6 DEF ApproversAnswered
  <1> QED
    BY <1>4, <1>5

(* The other steps leave the approvals and the answers alone.               *)
LEMMA NextPollInv ==
  ASSUME ClientTypeOK, NonceInv, SignatureInv, PollInv, InsufficientOnlyAfterAllAsked, [Next]_vars
  PROVE  PollInv' /\ InsufficientOnlyAfterAllAsked'
  <1> DEFINE Inv == PollInv /\ InsufficientOnlyAfterAllAsked
  <1> SUFFICES Inv'
    OBVIOUS
  <1> USE NoneIsNoResult DEF PollInv, ApproversAnswered, InsufficientOnlyAfterAllAsked, Results,
                             Failures
  <1>1. ASSUME NEW r \in Requests, Begin(r) PROVE Inv'
    <2>1. NodeCount = 0 => i' = NodeCount + 1
      BY <1>1 DEF Begin
    <2>2. approvals' = {} /\ result' = None /\ (pc' = "collect" => NodeCount = 0)
      BY <1>1 DEF Begin
    <2> QED
      BY <2>1, <2>2
  <1>2. CASE Round1
    <2>1. result' = None
      BY <1>2, Round1Effect DEF SignatureInv, AnswersInv
    <2>2. PollInv'
      BY <1>2, Round1PollInv
    <2> QED
      BY <2>1, <2>2
  <1>3. CASE Round1OutOfBounds
    BY <1>3 DEF Round1OutOfBounds, Return
  <1>4. CASE Collect
    <2>1. /\ pc = "collect" /\ pc' # "collect"
          /\ UNCHANGED <<i, valid_responses, approvals>>
      BY <1>4 DEF Collect, Return
    <2>2. CASE Len(valid_responses) < Threshold
      <3>1. ~Networked => i = NodeCount + 1
        BY <2>1, <2>2, ResponsesType, ClientConstants
      <3>2. ~Networked => Cardinality({a.node : a \in approvals}) < Threshold
        BY <2>2, ApproversCounted, ResponsesType, ClientConstants
      <3> QED
        BY <2>1, <3>1, <3>2
    <2>3. CASE ~(Len(valid_responses) < Threshold)
      <3>1. result' = [tag |-> "Panic"] \/ result' = result
        BY <1>4, <2>3, ResponsesType, ClientConstants DEF Collect, Return
      <3> QED
        BY <2>1, <3>1 DEF SignatureInv, AnswersInv
    <2> QED
      BY <2>2, <2>3
  <1>5. CASE Round2
    BY <1>5, Round2Effect DEF NonceInv
  <1>6. CASE Round2Lost
    BY <1>6 DEF Round2Lost, Return
  <1>7. CASE Finish
    BY <1>7 DEF Finish, Return
  <1>8. CASE Administer
    BY <1>8 DEF Administer, client_vars
  <1>9. CASE UNCHANGED vars
    BY <1>9 DEF vars, client_vars
  <1> QED
    BY <1>1, <1>2, <1>3, <1>4, <1>5, <1>6, <1>7, <1>8, <1>9 DEF Next, Attesting

(* A client that owns its nodes is told InsufficientShares only after every *)
(* node was asked and fewer than the threshold approved.                    *)
THEOREM NoEarlyRefusal == Spec => []InsufficientOnlyAfterAllAsked
  <1> DEFINE Inv == /\ ClientTypeOK /\ NonceInv /\ SignatureInv
                    /\ PollInv /\ InsufficientOnlyAfterAllAsked
  <1>1. Init => Inv
    <2>1. Init => PollInv /\ InsufficientOnlyAfterAllAsked
      BY NoneIsNoResult DEF Init, PollInv, ApproversAnswered, InsufficientOnlyAfterAllAsked,
                            Results, Failures
    <2> QED
      BY <2>1, InitType, InitNonceInv, InitSignatureInv
  <1>2. Inv /\ [Next]_vars => Inv'
    BY NextType, NextNonceInv, NextSignatureInv, NextPollInv
  <1>3. Inv => InsufficientOnlyAfterAllAsked
    OBVIOUS
  <1> QED
    BY <1>1, <1>2, <1>3, PTL DEF Spec

=============================================================================
