------------------------ MODULE FaultySignersProofs ------------------------
(***************************************************************************)
(* Proofs about FaultySigners, for any set of fewer faulty nodes than the  *)
(* sharing demands, colluding or not.  The invariants of                   *)
(* AttestClientProofs hold, but for what the partial signatures say: those *)
(* of faulty signers may fit no message.                                   *)
(***************************************************************************)
EXTENDS FaultySigners, AttestClientProofs

(* Every partial has the place of its signer, whoever sent it; it is one    *)
(* the signer made for this message and these commitments, or a faulty      *)
(* signer garbled it.                                                       *)
PartialsPlaced ==
  \A k \in DOMAIN partials :
    /\ partials[k].index = valid_responses[k].node
    /\ partials[k].nonce = valid_responses[k].commitment.id
    /\ partials[k].commitments = Commitments
    /\ \/ partials[k].message = None /\ partials[k].index \in Faulty
       \/ partials[k].message = message /\ partials[k] \in signed

FaultyInv == ClientTypeOK /\ NonceInv /\ AnswersInv /\ PartialsPlaced

----------------------------------------------------------------------------
(* A faulty node garbles what it would have sent.                           *)
LEMMA Round2FaultyEffect ==
  ASSUME FaultyInv, Round2Faulty
  PROVE  LET m       == Len(partials) + 1
             partial == Garbled(sign(valid_responses[m].node, valid_responses[m].commitment,
                                     message, Commitments))
         IN  /\ pc = "round2" /\ m \in Unsent /\ m \in DOMAIN valid_responses
             /\ partials' = Append(partials, partial)
             /\ UNCHANGED <<nonces, pc, request, i, valid_responses, transaction, result,
                            approvals, signed, node_vars, next_nonce>>
             /\ partial \in AnyPartials
             /\ partial.index = valid_responses[m].node /\ partial.index \in Faulty
             /\ partial.nonce = valid_responses[m].commitment.id
             /\ partial.message = None /\ partial.commitments = Commitments
  <1> DEFINE m      == Len(partials) + 1
             honest == sign(valid_responses[m].node, valid_responses[m].commitment,
                            message, Commitments)
  <1>1. pc = "round2" /\ Len(partials) < Len(valid_responses)
    BY DEF Round2Faulty
  <1>2. m \in Unsent /\ m \in DOMAIN valid_responses
    BY <1>1, ResponsesType DEF Unsent, FaultyInv
  <1>3. nonces[valid_responses[m].node] = valid_responses[m].commitment
    BY <1>1, <1>2 DEF UnsentHeld, NonceInv, FaultyInv
  <1>4. partials' = Append(partials, Garbled(honest)) /\ valid_responses[m].node \in Faulty
    BY <1>3 DEF Round2Faulty, Round2Node
  <1>5. /\ honest \in Partials
        /\ honest.index = valid_responses[m].node
        /\ honest.nonce = valid_responses[m].commitment.id
        /\ honest.commitments = Commitments
    BY <1>1, <1>2, PartialSigned DEF FaultyInv
  <1> HIDE DEF honest
  <1>6. /\ Garbled(honest) \in AnyPartials
        /\ Garbled(honest).index = honest.index /\ Garbled(honest).nonce = honest.nonce
        /\ Garbled(honest).message = None
        /\ Garbled(honest).commitments = honest.commitments
    BY <1>5 DEF Garbled, Partials, AnyPartials
  <1>7. UNCHANGED <<nonces, pc, request, i, valid_responses, transaction, result, approvals,
                    signed, node_vars, next_nonce>>
    BY DEF Round2Faulty
  <1> QED
    BY <1>1, <1>2, <1>4, <1>5, <1>6, <1>7 DEF honest

(* One more partial, in the place of its signer.                            *)
LEMMA PlacedAppend ==
  ASSUME FaultyInv, NEW partial \in AnyPartials,
         LET m == Len(partials) + 1
         IN  /\ partial.index = valid_responses[m].node
             /\ partial.nonce = valid_responses[m].commitment.id
             /\ partial.commitments = Commitments
             /\ \/ partial.message = None /\ partial.index \in Faulty
                \/ partial.message = message /\ partial \in signed',
         partials' = Append(partials, partial),
         UNCHANGED <<valid_responses, transaction>>, signed \subseteq signed'
  PROVE  PartialsPlaced'
  <1> DEFINE m == Len(partials) + 1
  <1>1. /\ DOMAIN partials' = 1..m /\ DOMAIN partials = 1..Len(partials)
        /\ \A k \in 1..Len(partials) : partials'[k] = partials[k]
        /\ partials'[m] = partial /\ Len(partials) \in Nat
    BY AppendElements DEF FaultyInv, ClientTypeOK
  <1>2. message' = message /\ Commitments' = Commitments
    BY DEF message, Commitments
  <1>3. \A k \in 1..m : k \in DOMAIN partials \/ k = m
    BY <1>1
  <1> QED
    BY <1>1, <1>2, <1>3 DEF FaultyInv, PartialsPlaced

(* The partial of a signer that follows the protocol takes its place too.   *)
LEMMA Round2Placed == ASSUME FaultyInv, Round2 PROVE PartialsPlaced'
  <1> DEFINE m       == Len(partials) + 1
             partial == sign(valid_responses[m].node, valid_responses[m].commitment,
                             message, Commitments)
  <1>1. /\ pc = "round2" /\ m \in Unsent /\ signed' = signed \cup {partial}
        /\ UNCHANGED <<valid_responses, transaction>>
        /\ partials' = Append(partials, partial) \/ partials' = partials
    BY Round2Effect DEF NonceInv, FaultyInv
  <1>2. /\ partial \in Partials
        /\ partial.index = valid_responses[m].node
        /\ partial.nonce = valid_responses[m].commitment.id
        /\ partial.message = message /\ partial.commitments = Commitments
    BY <1>1, PartialSigned DEF FaultyInv
  <1>3. partial \in AnyPartials
    BY <1>2 DEF Partials, AnyPartials
  <1> HIDE DEF partial
  <1>4. CASE partials' = Append(partials, partial)
    BY <1>1, <1>2, <1>3, <1>4, PlacedAppend
  <1>5. CASE partials' = partials
    BY <1>1, <1>5 DEF FaultyInv, PartialsPlaced, message, Commitments
  <1> QED
    BY <1>1, <1>4, <1>5

(* A faulty answer in round 2 moves the call on like any other.             *)
LEMMA Round2FaultyInv == ASSUME FaultyInv, Round2Faulty PROVE FaultyInv'
  <1> DEFINE m       == Len(partials) + 1
             partial == Garbled(sign(valid_responses[m].node, valid_responses[m].commitment,
                                     message, Commitments))
  <1>1. /\ pc = "round2" /\ m \in Unsent /\ m \in DOMAIN valid_responses
        /\ partials' = Append(partials, partial)
        /\ UNCHANGED <<nonces, pc, request, i, valid_responses, transaction, result,
                       approvals, signed, node_vars, next_nonce>>
        /\ partial \in AnyPartials
        /\ partial.index = valid_responses[m].node /\ partial.index \in Faulty
        /\ partial.nonce = valid_responses[m].commitment.id
        /\ partial.message = None /\ partial.commitments = Commitments
    BY Round2FaultyEffect
  <1> HIDE DEF partial
  <1>2. /\ partials' \in Seq(AnyPartials) /\ Len(partials') = m
        /\ Len(partials) \in Nat /\ m <= Len(valid_responses)
    BY <1>1, AppendElements, ResponsesType DEF FaultyInv, ClientTypeOK
  <1>3. ClientTypeOK'
    BY <1>1, <1>2 DEF FaultyInv, ClientTypeOK, NodeTypeOK, node_vars
  <1>4. Unsent' \subseteq Unsent
    BY <1>1, <1>2, ResponsesType DEF Unsent, FaultyInv
  <1>5. NonceInv'
    BY <1>1, <1>4 DEF FaultyInv, NonceInv, NoncesDrawn, RespondersInOrder, UnsentHeld,
                      RoundsInOrder, NonceSignsOnce
  <1>6. AnswersInv'
    BY <1>1 DEF FaultyInv, AnswersInv, SharesIndexed, node_vars
  <1>7. PartialsPlaced'
    BY <1>1, PlacedAppend
  <1> QED
    BY <1>3, <1>5, <1>6, <1>7 DEF FaultyInv

(* A call whose errors cancel ends like any other.                          *)
LEMMA CompensatedInv == ASSUME FaultyInv, FinishCompensated PROVE FaultyInv'
  <1>1. /\ pc' = "idle" /\ result' = [tag |-> "ok", tx |-> transaction]
        /\ transaction \in Transactions
        /\ UNCHANGED <<nonces, request, i, valid_responses, transaction, partials, approvals,
                       signed, node_vars, next_nonce>>
    BY DEF FinishCompensated, Return, FaultyInv, ClientTypeOK
  <1>2. ClientTypeOK'
    BY <1>1 DEF FaultyInv, ClientTypeOK, NodeTypeOK, node_vars, Results
  <1>3. NonceInv'
    BY <1>1 DEF FaultyInv, NonceInv, NoncesDrawn, RespondersInOrder, UnsentHeld, RoundsInOrder,
                NonceSignsOnce
  <1>4. AnswersInv'
    BY <1>1 DEF FaultyInv, AnswersInv, SharesIndexed, node_vars
  <1>5. PartialsPlaced'
    BY <1>1 DEF FaultyInv, PartialsPlaced, message, Commitments
  <1> QED
    BY <1>2, <1>3, <1>4, <1>5 DEF FaultyInv

(* A new client has no partials.                                            *)
LEMMA InitFaultyInv == Init => FaultyInv
  <1>1. Init => PartialsPlaced
    BY DEF Init, PartialsPlaced
  <1> QED
    BY <1>1, InitType, InitNonceInv, InitSignatureInv DEF FaultyInv, SignatureInv

(* The invariant of the client and its signers.                             *)
LEMMA NextFaultyInv == FaultyInv /\ [FaultyNext]_vars => FaultyInv'
  <1> SUFFICES ASSUME FaultyInv, [FaultyNext]_vars PROVE FaultyInv'
    OBVIOUS
  <1>1. CASE Round2Faulty
    BY <1>1, Round2FaultyInv
  <1>2. CASE [Next]_vars
    <2>1. ClientTypeOK' /\ NonceInv' /\ AnswersInv'
      BY <1>2, NextType, NextNonceInv, NextAnswersInv DEF FaultyInv
    <2>2. PartialsPlaced'
      <3> USE DEF PartialsPlaced, message, Commitments
      <3>1. ASSUME NEW r \in Requests, Begin(r) PROVE PartialsPlaced'
        BY <3>1 DEF Begin
      <3>2. CASE Round1
        BY <3>2, Round1Effect DEF FaultyInv, NonceInv, RoundsInOrder
      <3>3. CASE Round1OutOfBounds \/ Collect \/ Round2Lost \/ Finish
        BY <3>3 DEF Round1OutOfBounds, Collect, Round2Lost, Finish, FaultyInv
      <3>4. CASE Round2
        BY <3>4, Round2Placed
      <3>5. CASE Administer \/ UNCHANGED vars
        BY <3>5 DEF Administer, vars, client_vars, FaultyInv
      <3> QED
        BY <1>2, <3>1, <3>2, <3>3, <3>4, <3>5 DEF Next, Attesting
    <2> QED
      BY <2>1, <2>2 DEF FaultyInv
  <1>3. CASE FinishCompensated
    BY <1>3, CompensatedInv
  <1> QED
    BY <1>1, <1>2, <1>3 DEF FaultyNext

----------------------------------------------------------------------------
(* Without a culprit, the partials are those of an honest call.             *)
LEMMA NoCulprit ==
  ASSUME FaultyInv, \A k \in DOMAIN partials : partials[k].message # None
  PROVE  SignatureInv
  BY DEF FaultyInv, SignatureInv, PartialsPlaced, PartialsAnswer

(* A garbled partial spoils the signature.                                  *)
LEMMA VerifiedHasNoCulprit ==
  ASSUME FaultyInv, transaction \in Transactions,
         verify(aggregate(message, Commitments, partials), GroupPublicKey, message)
  PROVE  \A k \in DOMAIN partials : partials[k].message # None
  <1>1. \A p \in Range(partials) : p.message = message
    BY DEF verify, aggregate, NoncesOpenR
  <1>2. message # None
    BY NoneIsNoMessage DEF message
  <1> QED
    BY <1>1, <1>2 DEF Range

(* Partials have different signers.                                         *)
LEMMA SignersDiffer ==
  ASSUME FaultyInv
  PROVE  \A j, k \in DOMAIN partials : partials[j].index = partials[k].index => j = k
  <1> SUFFICES ASSUME NEW j \in DOMAIN partials, NEW k \in DOMAIN partials,
                      partials[j].index = partials[k].index
               PROVE  j = k
    OBVIOUS
  <1>1. /\ j \in DOMAIN valid_responses /\ k \in DOMAIN valid_responses
        /\ j \in Nat /\ k \in Nat
    BY ResponsesType DEF FaultyInv
  <1>2. valid_responses[j].node = valid_responses[k].node
    BY DEF FaultyInv, PartialsPlaced
  <1>3. valid_responses[j].node \in Nat
    BY <1>1, ResponsesType, ThresholdConfig DEF FaultyInv, Nodes
  <1>4. j < k \/ k < j \/ j = k
    BY <1>1
  <1> QED
    BY <1>1, <1>2, <1>3, <1>4 DEF FaultyInv, NonceInv, RespondersInOrder

(* Every partial has a signer that follows the protocol or a culprit, and   *)
(* the culprits are fewer than the sharing demands.                         *)
LEMMA SignersCounted ==
  ASSUME FaultyInv, Len(partials) >= SharingThreshold
  PROVE  /\ HonestSigners(transaction) # {}
         /\ Cardinality(HonestSigners(transaction)) + Cardinality(Culprits) >= SharingThreshold
  <1> DEFINE S     == 1..Len(partials)
             H     == HonestSigners(transaction)
             C     == Culprits
             index == [k \in S |-> partials[k].index]
  <1>1. Len(partials) \in Nat /\ DOMAIN partials = S
    BY ResponsesType DEF FaultyInv
  <1>2. index \in [S -> H \cup C]
    BY <1>1 DEF FaultyInv, PartialsPlaced, HonestSigners, Culprits, message
  <1>3. index \in Injection(S, H \cup C)
    BY <1>1, <1>2, SignersDiffer DEF Injection, IsInjective
  <1>4. IsFiniteSet(Nodes)
    BY ThresholdConfig, FS_Interval DEF Nodes
  <1>5. IsFiniteSet(H) /\ IsFiniteSet(Faulty)
    <2>1. H \in SUBSET Nodes
      BY DEF FaultyInv, ClientTypeOK, Partials, HonestSigners
    <2> QED
      BY <1>4, <2>1, FaultyNodes, FS_Subset
  <1>6. C \in SUBSET Faulty
    <2>1. None \notin {signing_bytes(tx) : tx \in Transactions}
      BY NoneIsNoMessage
    <2>2. ASSUME NEW k \in DOMAIN partials, partials[k].message = None
          PROVE  partials[k].index \in Faulty
      <3>1. CASE partials[k] \in signed
        BY <2>1, <2>2, <3>1 DEF FaultyInv, ClientTypeOK, Partials
      <3> QED
        BY <3>1 DEF FaultyInv, PartialsPlaced
    <2> QED
      BY <2>2 DEF Culprits
  <1> HIDE DEF index, H, C
  <1>7. /\ IsFiniteSet(C) /\ Cardinality(C) \in Nat /\ Cardinality(H) \in Nat
        /\ Cardinality(C) <= Cardinality(Faulty) /\ Cardinality(Faulty) \in Nat
    BY <1>5, <1>6, FS_Subset, FS_CardinalityType
  <1>8. /\ IsFiniteSet(H \cup C) /\ Cardinality(H \cap C) \in Nat
        /\ Cardinality(H \cup C) = Cardinality(H) + Cardinality(C) - Cardinality(H \cap C)
    <2>1. IsFiniteSet(H \cap C)
      <3>1. H \cap C \in SUBSET H
        OBVIOUS
      <3> QED
        BY <1>5, <3>1, FS_Subset
    <2> QED
      BY <1>5, <1>7, <2>1, FS_Union, FS_CardinalityType
  <1>9. Cardinality(S) <= Cardinality(H \cup C)
    BY <1>3, <1>8, FS_Injection
  <1>10. Cardinality(S) = Len(partials)
    <2> HIDE DEF S
    <2>1. Cardinality(1..Len(partials)) = IF 1 > Len(partials) THEN 0 ELSE Len(partials) - 1 + 1
      BY <1>1, FS_Interval
    <2> QED
      BY <1>1, <2>1 DEF S
  <1>11. Cardinality(H) + Cardinality(C) >= SharingThreshold
    BY <1>1, <1>7, <1>8, <1>9, <1>10, ThresholdConfig
  <1>12. H # {}
    <2>1. Cardinality({}) = 0
      BY FS_EmptySet
    <2>2. Cardinality(H) # 0
      BY <1>7, <1>11, FaultyNodes, ThresholdConfig
    <2>3. H = {} => Cardinality(H) = Cardinality({})
      OBVIOUS
    <2> QED
      BY <2>1, <2>2, <2>3
  <1> QED
    BY <1>11, <1>12 DEF H, C

----------------------------------------------------------------------------
(* The steps other than the two ends of a call leave what it returned, or   *)
(* return an error that is not about the signature.                         *)
OtherOutcome ==
  \/ UNCHANGED <<result, partials, signed, valid_responses>>
  \/ result' \in {None, [tag |-> "InsufficientShares"], [tag |-> "NoNonce"],
                  [tag |-> "Unavailable"], [tag |-> "Panic"]}

LEMMA OutcomeOrFinish ==
  ASSUME FaultyInv, [FaultyNext]_vars
  PROVE  Finish \/ FinishCompensated \/ OtherOutcome
  <1> USE DEF OtherOutcome
  <1>1. ASSUME NEW r \in Requests, Begin(r) PROVE OtherOutcome
    BY <1>1 DEF Begin
  <1>2. CASE Round1
    BY <1>2, Round1Effect DEF FaultyInv, AnswersInv
  <1>3. CASE Round1OutOfBounds
    BY <1>3 DEF Round1OutOfBounds, Return
  <1>4. CASE Collect
    BY <1>4 DEF Collect, Return
  <1>5. CASE Round2
    BY <1>5, Round2Effect DEF FaultyInv, NonceInv, AnswersInv
  <1>6. CASE Round2Lost
    BY <1>6 DEF Round2Lost, Return
  <1>7. CASE Administer \/ UNCHANGED vars
    BY <1>7 DEF Administer, vars, client_vars
  <1>8. CASE Round2Faulty
    BY <1>8, Round2FaultyEffect DEF FaultyInv, AnswersInv
  <1> QED
    BY <1>1, <1>2, <1>3, <1>4, <1>5, <1>6, <1>7, <1>8 DEF FaultyNext, Next, Attesting

(* Only the ends of a call blame or attest.                                 *)
LEMMA NextFaultyOutcome ==
  ASSUME FaultyInv, FailureHasACulprit, AttestedByHonestQuorum, [FaultyNext]_vars
  PROVE  FailureHasACulprit' /\ AttestedByHonestQuorum'
  <1>1. CASE OtherOutcome
    <2>1. CASE UNCHANGED <<result, partials, signed, valid_responses>>
      BY <2>1 DEF FailureHasACulprit, AttestedByHonestQuorum, Culprits, Commitments, SharesFit,
                  HonestSigners
    <2>2. CASE result' = None
      BY <2>2, NoneIsNoResult DEF FailureHasACulprit, AttestedByHonestQuorum, Results, Failures
    <2>3. CASE result' \in {[tag |-> "InsufficientShares"], [tag |-> "NoNonce"],
                            [tag |-> "Unavailable"], [tag |-> "Panic"]}
      <3>1. result'.tag \notin {"ok", "InvalidSignature"}
        BY <2>3
      <3> QED
        BY <3>1 DEF FailureHasACulprit, AttestedByHonestQuorum
    <2> QED
      BY <1>1, <2>1, <2>2, <2>3 DEF OtherOutcome
  <1>2. CASE Finish
    <2>1. /\ Len(partials) = Len(valid_responses) /\ transaction \in Transactions
          /\ UNCHANGED <<partials, signed, valid_responses, transaction>>
      BY <1>2 DEF Finish, FaultyInv, ClientTypeOK
    <2>2. Commitments' = Commitments /\ Culprits' = Culprits /\ (SharesFit' <=> SharesFit)
      BY <2>1 DEF Commitments, Culprits, SharesFit
    <2>3. CASE verify(aggregate(message, Commitments, partials), GroupPublicKey, message)
      <3>1. result' = [tag |-> "ok", tx |-> transaction]
        BY <1>2, <2>3 DEF Finish, Return
      <3>2. FailureHasACulprit'
        BY <3>1 DEF FailureHasACulprit
      <3>3. \A k \in DOMAIN partials : partials[k].message # None
        BY <2>1, <2>3, VerifiedHasNoCulprit
      <3>4. Len(partials) >= SharingThreshold
        BY <2>3 DEF verify, aggregate, SharesInterpolate
      <3>5. Cardinality(Culprits) # 1
        <4>1. Culprits = {}
          BY <3>3 DEF Culprits
        <4> QED
          BY <4>1, FS_EmptySet
      <3>6. AttestedByHonestQuorum'
        BY <2>1, <2>2, <3>1, <3>4, <3>5, SignersCounted DEF AttestedByHonestQuorum, HonestSigners
      <3> QED
        BY <3>2, <3>6
    <2>4. CASE ~verify(aggregate(message, Commitments, partials), GroupPublicKey, message)
      <3>1. result' = [tag |-> "InvalidSignature"]
        BY <1>2, <2>4 DEF Finish, Return
      <3>2. AttestedByHonestQuorum'
        BY <3>1 DEF AttestedByHonestQuorum
      <3>3. ASSUME Culprits # {} PROVE FailureHasACulprit'
        BY <2>2, <3>3 DEF FailureHasACulprit
      <3>4. ASSUME Culprits = {} PROVE FailureHasACulprit'
        <4>1. SignatureInv
          BY <3>4, NoCulprit DEF Culprits
        <4>2. ~SharesInterpolate(partials, GroupPublicKey)
          BY <2>1, <2>4, <4>1, VerifyTurnsOnShares DEF FaultyInv
        <4>3. ~(Len(partials) >= SharingThreshold) \/ ~SharesFit
          BY <4>2, SignersDiffer DEF SharesInterpolate, SharesFit
        <4>4. Len(partials) \in Nat /\ SharingThreshold \in Nat
          BY ResponsesType, ThresholdConfig DEF FaultyInv
        <4> QED
          BY <2>1, <2>2, <4>3, <4>4 DEF FailureHasACulprit
      <3> QED
        BY <3>2, <3>3, <3>4
    <2> QED
      BY <2>3, <2>4
  <1>3. CASE FinishCompensated
    <2>1. /\ result' = [tag |-> "ok", tx |-> transaction]
          /\ Len(partials) >= SharingThreshold
          /\ SharesFit => Cardinality(Culprits) > 1
          /\ UNCHANGED <<partials, signed, valid_responses, transaction>>
      BY <1>3 DEF FinishCompensated, Return
    <2>2. Commitments' = Commitments /\ Culprits' = Culprits /\ (SharesFit' <=> SharesFit)
      BY <2>1 DEF Commitments, Culprits, SharesFit
    <2>3. HonestSigners(transaction)' = HonestSigners(transaction)
      BY <2>1, <2>2 DEF HonestSigners
    <2>4. FailureHasACulprit'
      BY <2>1 DEF FailureHasACulprit
    <2>5. SharesFit => Cardinality(Culprits) # 1
      BY <2>1
    <2>6. AttestedByHonestQuorum'
      BY <2>1, <2>2, <2>3, <2>5, SignersCounted DEF AttestedByHonestQuorum, HonestSigners
    <2> QED
      BY <2>4, <2>6
  <1> QED
    BY <1>1, <1>2, <1>3, OutcomeOrFinish

----------------------------------------------------------------------------
(* Round 2 signs with the nonces round 1 committed to, faulty or not.       *)
THEOREM FaultySlots == FaultySpec => []SlotHoldsCommittedNonce
  <1>1. FaultyInv => SlotHoldsCommittedNonce
    <2> SUFFICES ASSUME FaultyInv, pc = "round2",
                        NEW k \in (Len(partials) + 1)..Len(valid_responses)
                 PROVE  nonces[valid_responses[k].node] = valid_responses[k].commitment
      BY DEF SlotHoldsCommittedNonce
    <2>1. k \in Unsent
      BY ResponsesType DEF Unsent, FaultyInv
    <2> QED
      BY <2>1 DEF FaultyInv, NonceInv, UnsentHeld
  <1> QED
    BY <1>1, InitFaultyInv, NextFaultyInv, PTL DEF FaultySpec

(* No nonce pair signs twice, although a faulty signer may leave a call     *)
(* with its nonce still in the slot.                                        *)
THEOREM FaultyNonces == FaultySpec => []NonceSignsOnce
  <1>1. FaultyInv => NonceSignsOnce
    BY DEF FaultyInv, NonceInv
  <1> QED
    BY <1>1, InitFaultyInv, NextFaultyInv, PTL DEF FaultySpec

(* When verification fails there is a culprit among the partials, or the    *)
(* keys are to blame.                                                       *)
THEOREM CulpritOrKeys == FaultySpec => []FailureHasACulprit
  <1> DEFINE Inv == FaultyInv /\ FailureHasACulprit /\ AttestedByHonestQuorum
  <1>1. Init => Inv
    <2>1. Init => FailureHasACulprit /\ AttestedByHonestQuorum
      BY NoneIsNoResult DEF Init, FailureHasACulprit, AttestedByHonestQuorum, Results, Failures
    <2> QED
      BY <2>1, InitFaultyInv
  <1>2. Inv /\ [FaultyNext]_vars => Inv'
    BY NextFaultyInv, NextFaultyOutcome
  <1>3. Inv => FailureHasACulprit
    OBVIOUS
  <1> QED
    BY <1>1, <1>2, <1>3, PTL DEF FaultySpec

(* Whatever is returned as attested was signed by as many nodes as the      *)
(* key's sharing demands, all but the culprits of them as the protocol      *)
(* demands, and one at least; a lone culprit never slips in if shares fit.  *)
THEOREM HonestQuorumSigned == FaultySpec => []AttestedByHonestQuorum
  <1> DEFINE Inv == FaultyInv /\ FailureHasACulprit /\ AttestedByHonestQuorum
  <1>1. Init => Inv
    <2>1. Init => FailureHasACulprit /\ AttestedByHonestQuorum
      BY NoneIsNoResult DEF Init, FailureHasACulprit, AttestedByHonestQuorum, Results, Failures
    <2> QED
      BY <2>1, InitFaultyInv
  <1>2. Inv /\ [FaultyNext]_vars => Inv'
    BY NextFaultyInv, NextFaultyOutcome
  <1>3. Inv => AttestedByHonestQuorum
    OBVIOUS
  <1> QED
    BY <1>1, <1>2, <1>3, PTL DEF FaultySpec

----------------------------------------------------------------------------
(* Approvals are given in round 1, where a faulty node is like any other.   *)
LEMMA NextFaultyApprovalInv ==
  DeterministicVerdicts /\ FaultyInv /\ ApprovalInv /\ [FaultyNext]_vars => ApprovalInv'
  <1> SUFFICES ASSUME DeterministicVerdicts, FaultyInv, ApprovalInv, [FaultyNext]_vars
               PROVE  ApprovalInv'
    OBVIOUS
  <1>1. CASE Round2Faulty
    BY <1>1 DEF Round2Faulty, ApprovalInv
  <1>2. CASE [Next]_vars
    BY <1>2, NextApprovalInv DEF FaultyInv, NonceInv
  <1>3. CASE FinishCompensated
    BY <1>3 DEF FinishCompensated, ApprovalInv
  <1> QED
    BY <1>1, <1>2, <1>3 DEF FaultyNext

(* Finish attests only what verified, hence what no faulty signer touched.  *)
LEMMA FaultyFinish ==
  ASSUME FaultyInv, ApprovalInv, Finish
  PROVE  QuorumOrInvalid
  <1>1. transaction \in Transactions
    BY DEF Finish, FaultyInv, ClientTypeOK
  <1>2. CASE verify(aggregate(message, Commitments, partials), GroupPublicKey, message)
    <2>1. SignatureInv
      BY <1>1, <1>2, VerifiedHasNoCulprit, NoCulprit
    <2> QED
      BY <2>1, FinishHasQuorum DEF FaultyInv
  <1>3. CASE ~verify(aggregate(message, Commitments, partials), GroupPublicKey, message)
    BY <1>3 DEF Finish, Return, QuorumOrInvalid
  <1> QED
    BY <1>2, <1>3

(* Errors cancel only in the sum of as many partials as the key demands,    *)
(* each of a node that approved.                                            *)
LEMMA CompensatedHasQuorum ==
  ASSUME FaultyInv, ApprovalInv, FinishCompensated
  PROVE  Service!Attest(transaction) /\ \E a \in approvals : a.tx = transaction
  <1>1. /\ pc # "idle" /\ pc' = "idle" /\ UNCHANGED <<request, approvals>>
        /\ result' = [tag |-> "ok", tx |-> transaction] /\ transaction \in Transactions
        /\ Len(partials) = Len(valid_responses) /\ Len(partials) >= SharingThreshold
    BY DEF FinishCompensated, Return, FaultyInv, ClientTypeOK
  <1>2. Cardinality(Approvers(transaction)) >= SharingThreshold
    <2>1. IsFiniteSet(Nodes) /\ Approvers(transaction) \in SUBSET Nodes
      BY ThresholdConfig, FS_Interval DEF Nodes, Approvers
    <2>2. Cardinality(Approvers(transaction)) \in Nat
      BY <2>1, FS_Subset, FS_CardinalityType
    <2> QED
      BY <1>1, <2>2, RespondersApprove, ResponsesType, ThresholdConfig DEF FaultyInv
  <1>3. result' # None
    <2>1. result' \in Results
      BY <1>1 DEF Results
    <2> QED
      BY <2>1, NoneIsNoResult
  <1>4. ServiceOutcome' = [tag |-> "attested", tx |-> transaction]
    BY <1>1, <1>3, OutcomeSeenNext
  <1>5. Service!ApproversOf(transaction) = Approvers(transaction)
    BY DEF Service!ApproversOf, Approvers
  <1>6. ServiceOutcome.tag = "pending"
    BY <1>1, OutcomeSeen
  <1>7. Service!Cardinality(Approvers(transaction)) = Cardinality(Approvers(transaction))
    BY DEF Service!Cardinality, Cardinality
  <1>8. [node |-> valid_responses[1].node, tx |-> transaction] \in approvals
    <2>1. 1 \in DOMAIN valid_responses
      BY <1>1, ResponsesType, ThresholdConfig DEF FaultyInv
    <2> QED
      BY <2>1 DEF ApprovalInv
  <1> QED
    BY <1>1, <1>2, <1>4, <1>5, <1>6, <1>7, <1>8 DEF Service!Attest

(* With deterministic validators, the client implements the attestation     *)
(* service although its signers are faulty.                                 *)
THEOREM ServiceSurvivesFaults ==
  ASSUME DeterministicVerdicts
  PROVE  FaultySpec => ImplementsService
  <1> DEFINE Inv == FaultyInv /\ ApprovalInv
  <1>1. Init => Inv
    BY InitFaultyInv DEF Init, ApprovalInv
  <1>2. Inv /\ [FaultyNext]_vars => Inv'
    BY NextFaultyInv, NextFaultyApprovalInv
  <1>3. Init => Service!ServiceInit
    BY OutcomeSeen DEF Init, Service!ServiceInit, Service!Outcome
  <1>4. Inv /\ [FaultyNext]_vars => [Service!ServiceNext]_(Service!service_vars)
    <2> SUFFICES ASSUME FaultyInv, ApprovalInv, [FaultyNext]_vars
                 PROVE  [Service!ServiceNext]_(Service!service_vars)
      OBVIOUS
    <2>1. CASE Round2Faulty
      BY <2>1 DEF Round2Faulty, ServiceOutcome, Service!service_vars
    <2>2. CASE [Next]_vars
      BY <2>2, RefinementStep, FaultyFinish DEF FaultyInv
    <2>3. ASSUME FinishCompensated PROVE Service!ServiceNext
      <3>1. \E a \in approvals : Service!Attest(a.tx)
        BY <2>3, CompensatedHasQuorum
      <3> QED
        BY <3>1 DEF Service!ServiceNext
    <2> QED
      BY <2>1, <2>2, <2>3 DEF FaultyNext
  <1> QED
    BY <1>1, <1>2, <1>3, <1>4, PTL DEF FaultySpec, ImplementsService, Service!ServiceSpec
=============================================================================
