----------------------- MODULE ProgramMigrationProofs -----------------------
(***************************************************************************)
(* Proofs about ProgramMigration, for any number of nodes and sessions,    *)
(* any threshold, programs, keys and rotations.                            *)
(***************************************************************************)
EXTENDS ProgramMigration, CraftSecNodeProofs, SequenceTheorems, FiniteSetTheorems, TLAPS

Signers  == [node : Nodes, nonce : Nonces]
Messages == {signing_bytes(tx) : tx \in Transactions}
Partials == [index : Nodes, key : Keys, epoch : 0..MaxEpoch, nonce : Nat,
             message : Messages, commitments : Seq(Nonces)]
SessionRecords ==
  [tag : {"unused", "open", "attested", "rejected"}, request : Requests \cup {None},
   signers : Seq(Signers), tx : Transactions \cup {None}, partials : Seq(Partials),
   superseded : BOOLEAN, rolled_out : BOOLEAN]

(* A session goes through its rounds in order. *)
Ordered(session) ==
  /\ session.tag # "unused" => session.request \in Requests
  /\ Len(session.partials) <= Len(session.signers)
  /\ Len(session.signers) <= SharingThreshold
  /\ Len(session.partials) > 0 => Len(session.signers) = SharingThreshold
  /\ session.tag \in {"attested", "rejected"} => Len(session.partials) = SharingThreshold
  /\ Len(session.signers) > 0 => session.tx # None

TypeInv ==
  /\ NodeTypeOK
  /\ SharesIndexed
  /\ new_attested \in BOOLEAN
  /\ sessions \in [Sessions -> SessionRecords]
  /\ \A s \in Sessions : Ordered(sessions[s])

----------------------------------------------------------------------------
(* The records the steps of a session make of it. *)
Opened(r) == [Unused EXCEPT !.tag = "open", !.request = r, !.superseded = new_attested,
                            !.rolled_out = RolledOut]
WithSigner(session, signer, tx) ==
  [session EXCEPT !.signers = Append(session.signers, signer),
                  !.tx = IF session.tx = None THEN tx ELSE session.tx]
WithPartial(session, partial) == [session EXCEPT !.partials = Append(session.partials, partial)]
Valid(session) ==
  verify(aggregate(signing_bytes(session.tx), CommitmentsOf(session), session.partials),
         ProgramKey, signing_bytes(session.tx))
Closed(session) == [session EXCEPT !.tag = IF Valid(session) THEN "attested" ELSE "rejected"]

LEMMA UnusedType == Unused \in SessionRecords /\ Ordered(Unused)
  <1>1. <<>> \in Seq(Signers) /\ <<>> \in Seq(Partials) /\ Len(<<>>) = 0
    BY EmptySeq
  <1> QED
    BY <1>1, ThresholdConfig DEF Unused, SessionRecords, Ordered

LEMMA OpenedFields ==
  ASSUME new_attested \in BOOLEAN, NEW r \in Requests
  PROVE  /\ Opened(r) \in SessionRecords
         /\ Opened(r).tag = "open" /\ Opened(r).request = r /\ Opened(r).signers = <<>>
         /\ Opened(r).tx = None /\ Opened(r).partials = <<>>
         /\ Opened(r).superseded = new_attested /\ Opened(r).rolled_out = RolledOut
  <1>1. RolledOut \in BOOLEAN
    BY DEF RolledOut
  <1>2. Unused.signers = <<>> /\ Unused.tx = None /\ Unused.partials = <<>>
    BY DEF Unused
  <1> QED
    BY <1>1, <1>2, UnusedType DEF Opened, SessionRecords

LEMMA WithSignerFields ==
  ASSUME NEW session \in SessionRecords, NEW signer \in Signers, NEW tx \in Transactions
  PROVE  LET after == WithSigner(session, signer, tx)
         IN  /\ after \in SessionRecords
             /\ after.tag = session.tag /\ after.request = session.request
             /\ after.signers = Append(session.signers, signer)
             /\ after.tx = (IF session.tx = None THEN tx ELSE session.tx) /\ after.tx # None
             /\ after.partials = session.partials
             /\ after.superseded = session.superseded /\ after.rolled_out = session.rolled_out
  <1>1. Append(session.signers, signer) \in Seq(Signers)
    BY AppendElements DEF SessionRecords
  <1>2. tx # None
    BY NodeConstants
  <1> QED
    BY <1>1, <1>2 DEF WithSigner, SessionRecords

LEMMA WithPartialFields ==
  ASSUME NEW session \in SessionRecords, NEW partial \in Partials
  PROVE  LET after == WithPartial(session, partial)
         IN  /\ after \in SessionRecords
             /\ after.tag = session.tag /\ after.request = session.request
             /\ after.signers = session.signers /\ after.tx = session.tx
             /\ after.partials = Append(session.partials, partial)
             /\ after.superseded = session.superseded /\ after.rolled_out = session.rolled_out
  <1>1. Append(session.partials, partial) \in Seq(Partials)
    BY AppendElements DEF SessionRecords
  <1> QED
    BY <1>1 DEF WithPartial, SessionRecords

LEMMA ClosedFields ==
  ASSUME NEW session \in SessionRecords
  PROVE  LET after == Closed(session)
         IN  /\ after \in SessionRecords
             /\ after.tag = IF Valid(session) THEN "attested" ELSE "rejected"
             /\ after.request = session.request
             /\ after.signers = session.signers /\ after.tx = session.tx
             /\ after.partials = session.partials
             /\ after.superseded = session.superseded /\ after.rolled_out = session.rolled_out
  BY DEF Closed, SessionRecords

(* What each step does to the sessions and the nodes. *)
LEMMA OpenEffect ==
  ASSUME NEW s \in Sessions, NEW r \in Requests, Open(s, r)
  PROVE  /\ sessions[s].tag = "unused"
         /\ sessions' = [sessions EXCEPT ![s] = Opened(r)]
         /\ UNCHANGED <<new_attested, node_vars, next_nonce>>
  BY DEF Open, Opened

LEMMA Round1Effect ==
  ASSUME TypeInv, NEW s \in Sessions, NEW n \in Nodes, Round1(s, n)
  PROVE  \E tx \in Transactions :
           /\ sessions[s].tag = "open" /\ sessions[s].request \in Requests
           /\ Len(sessions[s].signers) < SharingThreshold
           /\ \A k \in DOMAIN sessions[s].signers : sessions[s].signers[k].node # n
           /\ ~is_frozen(n, sessions[s].request.program_cid)
           /\ sessions' = [sessions EXCEPT
                ![s] = WithSigner(sessions[s],
                                  [node |-> n, nonce |-> [index |-> n, id |-> next_nonce]], tx)]
           /\ next_nonce' = next_nonce + 1
           /\ UNCHANGED <<new_attested, node_vars>>
  <1> DEFINE session == sessions[s]
  <1>1. session \in SessionRecords /\ session.tag = "open" /\ session.request \in Requests
    BY DEF TypeInv, Ordered, Round1
  <1>2. PICK resp \in process_request(n, session.request) :
          /\ resp.tag = "valid"
          /\ sessions' = [sessions EXCEPT
               ![s].signers = Append(@, [node |-> n, nonce |-> resp.nonce]),
               ![s].tx = IF @ = None THEN resp.tx ELSE @]
    BY DEF Round1
  <1>3. NodeTypeOK /\ SharesIndexed
    BY DEF TypeInv
  <1>4. session.request.program_cid \in Programs
    BY <1>1 DEF Requests
  <1>5. resp.tx \in Transactions
    BY <1>1, <1>2, <1>3, ProcessRequestType
  <1>6. resp.nonce = [index |-> n, id |-> next_nonce]
    <2>1. get_key_share(n, session.request.program_cid).index = n
      BY <1>3, <1>4, GetKeyShareIndex
    <2>2. \/ resp = [tag |-> "error"]
          \/ resp = [tag |-> "invalid"]
          \/ \E tx \in Outputs[session.request] :
               resp = [tag |-> "valid", tx |-> tx,
                       nonce |-> [index |-> get_key_share(n, session.request.program_cid).index,
                                  id |-> next_nonce]]
      BY <1>1, <1>3, ProcessRequestAnswers
    <2> QED
      BY <1>2, <2>1, <2>2
  <1>7. ~is_frozen(n, session.request.program_cid)
    <2> SUFFICES ASSUME is_frozen(n, session.request.program_cid) PROVE FALSE
      OBVIOUS
    <2>1. resp = [tag |-> "error"]
      BY DEF process_request
    <2> QED
      BY <1>2, <2>1
  <1>8. sessions' = [sessions EXCEPT
          ![s] = WithSigner(session, [node |-> n, nonce |-> [index |-> n, id |-> next_nonce]],
                            resp.tx)]
    BY <1>1, <1>2, <1>6 DEF TypeInv, SessionRecords, WithSigner
  <1> QED
    BY <1>1, <1>5, <1>7, <1>8 DEF Round1

LEMMA Round2Effect ==
  ASSUME TypeInv, NEW s \in Sessions, Round2(s)
  PROVE  LET session == sessions[s]
             signer  == session.signers[Len(session.partials) + 1]
             share   == get_key_share(signer.node, session.request.program_cid)
             partial == [index |-> share.index, key |-> share.key, epoch |-> share.epoch,
                         nonce |-> signer.nonce.id, message |-> signing_bytes(session.tx),
                         commitments |-> CommitmentsOf(session)]
         IN  /\ session.tag = "open" /\ session.request \in Requests
             /\ Len(session.signers) = SharingThreshold
             /\ Len(session.partials) < SharingThreshold
             /\ signer \in Signers /\ share \in KeyShares /\ share.index = signer.node
             /\ partial \in Partials
             /\ sessions' = [sessions EXCEPT
                  ![s] = WithPartial(session, partial)]
             /\ UNCHANGED <<new_attested, node_vars, next_nonce>>
  <1> DEFINE session == sessions[s]
             signer  == session.signers[Len(session.partials) + 1]
             share   == get_key_share(signer.node, session.request.program_cid)
             partial == [index |-> share.index, key |-> share.key, epoch |-> share.epoch,
                         nonce |-> signer.nonce.id, message |-> signing_bytes(session.tx),
                         commitments |-> CommitmentsOf(session)]
  <1>1. /\ session \in SessionRecords /\ session.tag = "open" /\ session.request \in Requests
        /\ Len(session.signers) = SharingThreshold
        /\ Len(session.partials) < SharingThreshold
    BY DEF TypeInv, Ordered, Round2
  <1>2. /\ session.signers \in Seq(Signers) /\ session.partials \in Seq(Partials)
        /\ Len(session.partials) \in Nat /\ Len(session.signers) \in Nat
        /\ DOMAIN session.signers = 1..Len(session.signers)
    BY <1>1, LenProperties DEF SessionRecords
  <1>3. Len(session.partials) + 1 \in 1..Len(session.signers)
    BY <1>1, <1>2
  <1>4. signer \in Signers
    BY <1>2, <1>3, ElementOfSeq
  <1>5. session.request.program_cid \in Programs /\ signer.node \in Nodes
          /\ signer.nonce.id \in Nat /\ NodeTypeOK /\ SharesIndexed
    BY <1>1, <1>4 DEF Requests, Signers, Nonces, TypeInv
  <1>6. share \in KeyShares /\ share.index = signer.node
    BY <1>5, GetKeyShareType, GetKeyShareIndex
  <1>7. CommitmentsOf(session) \in Seq(Nonces)
    <2>1. \A k \in 1..Len(session.signers) : session.signers[k] \in Signers
      BY <1>2, ElementOfSeq
    <2>2. CommitmentsOf(session) \in [1..Len(session.signers) -> Nonces]
      BY <1>2, <2>1 DEF CommitmentsOf, Signers
    <2> QED
      BY <1>2, <2>2, FunctionIsSeq
  <1>8. signing_bytes(session.tx) \in Messages
    <2>1. session.tx # None /\ session.tx \in Transactions \cup {None}
      BY <1>1, <1>2, <1>3 DEF TypeInv, Ordered, SessionRecords
    <2> QED
      BY <2>1 DEF Messages
  <1>9. partial \in Partials
    BY <1>5, <1>6, <1>7, <1>8 DEF Partials, KeyShares
  <1>10. sign_for_program(signer.node, session.request.program_cid, signer.nonce,
                          signing_bytes(session.tx), CommitmentsOf(session)) = partial
    BY DEF sign_for_program, sign_partial
  <1>11. sessions' = [sessions EXCEPT
           ![s] = WithPartial(session, partial)]
    <2>1. sessions' = [sessions EXCEPT ![s].partials = Append(@, partial)]
      BY <1>10 DEF Round2
    <2> HIDE DEF partial
    <2> QED
      BY <2>1 DEF WithPartial
  <1> QED
    BY <1>1, <1>4, <1>6, <1>9, <1>11 DEF Round2

LEMMA CloseEffect ==
  ASSUME TypeInv, NEW s \in Sessions, Close(s)
  PROVE  /\ sessions[s].tag = "open" /\ Len(sessions[s].partials) = SharingThreshold
         /\ sessions' = [sessions EXCEPT ![s] = Closed(sessions[s])]
         /\ new_attested' = (new_attested \/ (Valid(sessions[s])
                                                /\ sessions[s].request.program_cid = NewCid))
         /\ UNCHANGED <<node_vars, next_nonce>>
  BY DEF Close, Closed, Valid

----------------------------------------------------------------------------
(* Types. *)
LEMMA InitTypeInv == Init => TypeInv
  <1> SUFFICES ASSUME Init PROVE TypeInv
    OBVIOUS
  <1>1. 0 \in 0..MaxEpoch /\ 0 \in 0..MaxAdmin
    BY NodeConstants
  <1>2. SetupShares \in [Nodes -> [Programs -> KeyShares \cup {None}]]
    BY <1>1, MigrationConstants DEF SetupShares, KeyShares
  <1>3. NodeTypeOK
    BY <1>1, <1>2, NodeConstants DEF Init, NodeInitWith, NodeTypeOK, KeyShares
  <1>4. SharesIndexed
    BY NodeConstants DEF Init, NodeInitWith, SharesIndexed, SetupShares
  <1> QED
    BY <1>3, <1>4, UnusedType DEF Init, TypeInv

(* A step of one session that leaves the nodes alone. *)
LEMMA OneSessionType ==
  ASSUME TypeInv, NEW s \in Sessions, NEW record \in SessionRecords, Ordered(record),
         sessions' = [sessions EXCEPT ![s] = record], UNCHANGED node_vars,
         next_nonce' \in Nat, new_attested' \in BOOLEAN
  PROVE  TypeInv'
  <1>1. NodeTypeOK' /\ SharesIndexed'
    BY DEF TypeInv, NodeTypeOK, SharesIndexed, node_vars
  <1>2. sessions' \in [Sessions -> SessionRecords]
    BY DEF TypeInv
  <1>3. \A t \in Sessions : Ordered(sessions'[t])
    BY DEF TypeInv
  <1> QED
    BY <1>1, <1>2, <1>3 DEF TypeInv, Ordered

LEMMA OperateNodes ==
  ASSUME TypeInv, Operate
  PROVE  NodeTypeOK' /\ SharesIndexed' /\ UNCHANGED <<next_nonce, sessions, new_attested>>
  <1>1. Admin
    BY MigrationConstants DEF Operate, Admin
  <1> QED
    BY <1>1, AdminType, AdminIndices DEF TypeInv, Operate

LEMMA NextTypeInv == TypeInv /\ [Next]_vars => TypeInv'
  <1> SUFFICES ASSUME TypeInv, [Next]_vars PROVE TypeInv'
    OBVIOUS
  <1> USE ThresholdConfig
  <1>1. next_nonce \in Nat /\ new_attested \in BOOLEAN /\ node_vars = node_vars
    BY DEF TypeInv, NodeTypeOK
  <1>2. ASSUME NEW s \in Sessions, NEW r \in Requests, Open(s, r) PROVE TypeInv'
    <2>1. Opened(r) \in SessionRecords /\ Ordered(Opened(r))
      BY <1>1, OpenedFields DEF Ordered
    <2> QED
      BY <1>1, <1>2, <2>1, OpenEffect, OneSessionType
  <1>3. ASSUME NEW s \in Sessions, NEW n \in Nodes, Round1(s, n) PROVE TypeInv'
    <2> DEFINE session == sessions[s]
               signer  == [node |-> n, nonce |-> [index |-> n, id |-> next_nonce]]
    <2>1. PICK tx \in Transactions :
            /\ session.tag = "open" /\ session.request \in Requests
            /\ Len(session.signers) < SharingThreshold
            /\ sessions' = [sessions EXCEPT ![s] = WithSigner(session, signer, tx)]
            /\ next_nonce' = next_nonce + 1
            /\ UNCHANGED <<new_attested, node_vars>>
      BY <1>3, Round1Effect
    <2> DEFINE after == WithSigner(session, signer, tx)
    <2>2. session \in SessionRecords /\ Ordered(session)
      BY DEF TypeInv
    <2>3. signer \in Signers
      BY <1>1 DEF Signers, Nonces
    <2> HIDE DEF signer
    <2>4. /\ Len(Append(session.signers, signer)) = Len(session.signers) + 1
          /\ Len(session.signers) \in Nat /\ Len(session.partials) \in Nat
      BY <2>2, <2>3, AppendElements, LenProperties DEF SessionRecords
    <2>5. /\ after \in SessionRecords /\ after.tag = session.tag
          /\ after.request = session.request /\ after.partials = session.partials
          /\ after.signers = Append(session.signers, signer) /\ after.tx # None
      BY <2>2, <2>3, WithSignerFields
    <2>6. sessions' = [sessions EXCEPT ![s] = after]
      BY <2>1
    <2> HIDE DEF after
    <2>7. Ordered(after)
      <3>1. Len(session.partials) = 0
        BY <2>1, <2>2, <2>4 DEF Ordered
      <3> QED
        BY <2>1, <2>4, <2>5, <3>1 DEF Ordered
    <2>8. next_nonce' \in Nat /\ new_attested' \in BOOLEAN /\ UNCHANGED node_vars
      BY <1>1, <2>1
    <2> QED
      BY <2>5, <2>6, <2>7, <2>8, OneSessionType
  <1>4. ASSUME NEW s \in Sessions, Round2(s) PROVE TypeInv'
    <2> DEFINE session == sessions[s]
    <2>1. PICK partial \in Partials :
            /\ session.tag = "open" /\ session.request \in Requests
            /\ Len(session.signers) = SharingThreshold
            /\ Len(session.partials) < SharingThreshold
            /\ sessions' = [sessions EXCEPT ![s] = WithPartial(session, partial)]
            /\ UNCHANGED <<new_attested, node_vars, next_nonce>>
      BY <1>4, Round2Effect
    <2> DEFINE after == WithPartial(session, partial)
    <2>2. session \in SessionRecords /\ Ordered(session)
      BY DEF TypeInv
    <2>3. /\ Len(Append(session.partials, partial)) = Len(session.partials) + 1
          /\ Len(session.signers) \in Nat /\ Len(session.partials) \in Nat
      BY <2>2, AppendElements, LenProperties DEF SessionRecords
    <2>4. /\ after \in SessionRecords /\ after.tag = session.tag
          /\ after.request = session.request /\ after.signers = session.signers
          /\ after.tx = session.tx /\ after.partials = Append(session.partials, partial)
      BY <2>2, WithPartialFields
    <2>5. sessions' = [sessions EXCEPT ![s] = after]
      BY <2>1
    <2> HIDE DEF after
    <2>6. Ordered(after)
      BY <2>1, <2>2, <2>3, <2>4 DEF Ordered
    <2>7. next_nonce' \in Nat /\ new_attested' \in BOOLEAN /\ UNCHANGED node_vars
      BY <1>1, <2>1
    <2> QED
      BY <2>4, <2>5, <2>6, <2>7, OneSessionType
  <1>5. ASSUME NEW s \in Sessions, Close(s) PROVE TypeInv'
    <2> DEFINE session == sessions[s]
               after   == Closed(session)
    <2>1. /\ session.tag = "open" /\ Len(session.partials) = SharingThreshold
          /\ sessions' = [sessions EXCEPT ![s] = after]
          /\ new_attested' \in BOOLEAN /\ UNCHANGED <<node_vars, next_nonce>>
      BY <1>1, <1>5, CloseEffect
    <2>2. session \in SessionRecords /\ Ordered(session)
      BY DEF TypeInv
    <2>3. /\ after \in SessionRecords /\ after.tag \in {"attested", "rejected"}
          /\ after.request = session.request /\ after.signers = session.signers
          /\ after.tx = session.tx /\ after.partials = session.partials
      BY <2>2, ClosedFields
    <2> HIDE DEF after
    <2>4. Ordered(after)
      BY <2>1, <2>2, <2>3 DEF Ordered
    <2> QED
      BY <1>1, <2>1, <2>3, <2>4, OneSessionType
  <1>6. CASE Operate
    BY <1>6, OperateNodes DEF TypeInv, Ordered
  <1>7. CASE UNCHANGED vars
    BY <1>7 DEF vars, node_vars, TypeInv, NodeTypeOK, SharesIndexed, Ordered
  <1> QED
    BY <1>2, <1>3, <1>4, <1>5, <1>6, <1>7 DEF Next

(* Every variable keeps its type, and no session gets ahead of itself.      *)
THEOREM MigrationTypeCorrect == Spec => []TypeOK
  <1>1. TypeInv => TypeOK
    BY DEF TypeInv, TypeOK, Ordered, SessionRecords
  <1> QED
    BY <1>1, InitTypeInv, NextTypeInv, PTL DEF Spec

----------------------------------------------------------------------------
(* A session's signers are different nodes, and its partial signatures are  *)
(* what those nodes made of the nonces, message and commitments it sent.    *)
Answers(session) ==
  /\ \A j, k \in DOMAIN session.signers :
       session.signers[j].node = session.signers[k].node => j = k
  /\ \A k \in DOMAIN session.signers :
       session.signers[k].nonce.index = session.signers[k].node
  /\ \A k \in DOMAIN session.partials :
       /\ session.partials[k].index = session.signers[k].node
       /\ session.partials[k].nonce = session.signers[k].nonce.id
       /\ session.partials[k].message = signing_bytes(session.tx)
       /\ session.partials[k].commitments = CommitmentsOf(session)

(* With shares of its own, the old version always has them and the new one  *)
(* has the same at the nodes that are migrated.                             *)
OwnShare(n) == [index |-> n, key |-> ProgramKey, epoch |-> 0]

SharesCopied ==
  OwnKey => \A n \in Nodes :
    /\ key_share[n].key = DefaultKey
    /\ key_shares[n][OldCid] = OwnShare(n)
    /\ key_shares[n][NewCid] = IF Migrated(n) THEN OwnShare(n) ELSE None

(* Sessions that cannot go wrong: their signers use the program's shares.   *)
Certain(session) ==
  session.tag # "unused" /\ \/ session.request.program_cid = OldCid
                            \/ session.request.program_cid = NewCid /\ session.rolled_out

SignedRight(session) ==
  OwnKey =>
    /\ session.rolled_out => \A n \in Nodes : Migrated(n)
    /\ Certain(session) =>
         /\ session.tag # "rejected"
         /\ \A k \in DOMAIN session.partials :
              session.partials[k].key = ProgramKey /\ session.partials[k].epoch = 0
    /\ session.tag # "unused" /\ session.request.program_cid = NewCid
         /\ ProgramKey # DefaultKey =>
         \A k \in DOMAIN session.partials :
           session.partials[k].key = ProgramKey => Migrated(session.signers[k].node)

SigningInv ==
  /\ SharesCopied
  /\ \A s \in Sessions : Answers(sessions[s]) /\ SignedRight(sessions[s])

(* The nonces of a complete session open R, so its signature verifies       *)
(* exactly when the shares behind it interpolate to the program's key.      *)
LEMMA ValidTurnsOnShares ==
  ASSUME NEW session \in SessionRecords, Ordered(session), Answers(session),
         Len(session.partials) = SharingThreshold
  PROVE  /\ Valid(session) => \A k \in DOMAIN session.partials :
                                session.partials[k].key = ProgramKey
         /\ (\A k \in DOMAIN session.partials :
               session.partials[k].key = ProgramKey /\ session.partials[k].epoch = 0)
              => Valid(session)
         /\ Len(session.signers) = SharingThreshold
         /\ DOMAIN session.partials = 1..SharingThreshold
         /\ DOMAIN session.signers = 1..SharingThreshold
  <1> DEFINE message     == signing_bytes(session.tx)
             commitments == CommitmentsOf(session)
             partials    == session.partials
             signers     == session.signers
             sig         == aggregate(message, commitments, partials)
  <1>1. /\ Len(signers) = SharingThreshold /\ SharingThreshold \in Nat
        /\ DOMAIN partials = 1..SharingThreshold /\ DOMAIN signers = 1..SharingThreshold
    <2>1. partials \in Seq(Partials) /\ signers \in Seq(Signers)
      BY DEF SessionRecords
    <2>2. Len(signers) \in Nat /\ DOMAIN partials = 1..Len(partials)
            /\ DOMAIN signers = 1..Len(signers)
      BY <2>1, LenProperties
    <2> QED
      BY <2>2, ThresholdConfig DEF Ordered
  <1>2. sig = [message |-> message, commitments |-> commitments, partials |-> partials]
    BY DEF aggregate
  <1>3. DOMAIN commitments = 1..SharingThreshold
          /\ \A k \in 1..SharingThreshold : commitments[k] = signers[k].nonce
    BY <1>1 DEF CommitmentsOf
  <1>4. Len(commitments) = SharingThreshold
    <2>1. commitments \in [1..SharingThreshold -> {signers[k].nonce : k \in 1..SharingThreshold}]
      BY <1>1 DEF CommitmentsOf
    <2> QED
      BY <1>1, <2>1, FunctionIsSeq
  <1>5. \A k \in 1..SharingThreshold :
          /\ partials[k].index = commitments[k].index /\ partials[k].nonce = commitments[k].id
          /\ partials[k].message = message /\ partials[k].commitments = commitments
    BY <1>1, <1>3 DEF Answers
  <1>6. {<<p.index, p.nonce>> : p \in Range(partials)} =
          {<<c.index, c.id>> : c \in Range(commitments)}
    BY <1>1, <1>3, <1>5 DEF Range
  <1>7. \A p \in Range(partials) : p.message = message /\ p.commitments = commitments
    BY <1>1, <1>5 DEF Range
  <1>8. \A j, k \in DOMAIN partials : partials[j].index = partials[k].index => j = k
    BY <1>1 DEF Answers
  <1> HIDE DEF commitments, message
  <1>9. NoncesOpenR(sig)
    BY <1>2, <1>4, <1>6, <1>7 DEF NoncesOpenR
  <1> HIDE DEF sig
  <1>10. Valid(session) <=> SharesInterpolate(partials, ProgramKey)
    BY <1>2, <1>9 DEF verify, Valid, sig, message, commitments
  <1>11. (\A k \in DOMAIN partials : partials[k].key = ProgramKey /\ partials[k].epoch = 0)
           => SharesInterpolate(partials, ProgramKey)
    BY <1>1, <1>8 DEF SharesInterpolate
  <1>12. SharesInterpolate(partials, ProgramKey) =>
           \A k \in DOMAIN partials : partials[k].key = ProgramKey
    BY DEF SharesInterpolate
  <1> QED
    BY <1>1, <1>10, <1>11, <1>12

LEMMA InitSigningInv == Init => SigningInv
  <1> SUFFICES ASSUME Init PROVE SigningInv
    OBVIOUS
  <1>1. SharesCopied
    BY MigrationConstants DEF Init, NodeInitWith, SharesCopied, SetupShares, OwnShare, Migrated
  <1>2. Answers(Unused) /\ SignedRight(Unused)
    BY DEF Unused, Answers, SignedRight, Certain
  <1> QED
    BY <1>1, <1>2 DEF Init, SigningInv

(* A step of one session that leaves the nodes alone. *)
LEMMA OneSessionSigning ==
  ASSUME TypeInv, SigningInv, NEW s \in Sessions, NEW record, Answers(record),
         SignedRight(record), sessions' = [sessions EXCEPT ![s] = record],
         UNCHANGED node_vars
  PROVE  SigningInv'
  <1>1. SharesCopied'
    BY DEF SigningInv, SharesCopied, Migrated, node_vars
  <1>2. \A t \in Sessions : sessions'[t] = IF t = s THEN record ELSE sessions[t]
    BY DEF TypeInv
  <1>3. \A t \in Sessions : Answers(sessions'[t]) /\ SignedRight(sessions'[t])
    BY <1>2 DEF SigningInv
  <1>4. UNCHANGED frozen_programs
    BY DEF node_vars
  <1>5. \A t \in Sessions : Answers(sessions[t])' /\ SignedRight(sessions[t])'
    BY <1>3, <1>4 DEF Answers, SignedRight, Migrated, Certain, CommitmentsOf
  <1> QED
    BY <1>1, <1>5 DEF SigningInv

(* A session that is opened. *)
LEMMA OpenSigning ==
  ASSUME TypeInv, SigningInv, NEW s \in Sessions, NEW r \in Requests, Open(s, r)
  PROVE  SigningInv'
  <1>1. Opened(r).signers = <<>> /\ Opened(r).partials = <<>> /\ Opened(r).tag = "open"
          /\ Opened(r).rolled_out = RolledOut
    BY OpenedFields DEF TypeInv
  <1>2. RolledOut => \A n \in Nodes : Migrated(n)
    BY DEF RolledOut
  <1>3. Answers(Opened(r)) /\ SignedRight(Opened(r))
    BY <1>1, <1>2 DEF Answers, SignedRight
  <1> QED
    BY <1>3, OpenEffect, OneSessionSigning

(* One more signer, which has not signed yet. *)
LEMMA Round1Signing ==
  ASSUME TypeInv, SigningInv, NEW s \in Sessions, NEW n \in Nodes, Round1(s, n)
  PROVE  SigningInv'
  <1> DEFINE session == sessions[s]
             signer  == [node |-> n, nonce |-> [index |-> n, id |-> next_nonce]]
  <1>1. PICK tx \in Transactions :
          /\ session.tag = "open" /\ Len(session.signers) < SharingThreshold
          /\ \A k \in DOMAIN session.signers : session.signers[k].node # n
          /\ sessions' = [sessions EXCEPT ![s] = WithSigner(session, signer, tx)]
          /\ UNCHANGED node_vars
    BY Round1Effect
  <1> DEFINE after == WithSigner(session, signer, tx)
  <1>2. session \in SessionRecords /\ Ordered(session) /\ Answers(session) /\ SignedRight(session)
    BY DEF TypeInv, SigningInv
  <1>3. signer \in Signers /\ signer.node = n /\ signer.nonce.index = n
    BY DEF Signers, Nonces, TypeInv, NodeTypeOK
  <1> HIDE DEF signer
  <1>4. /\ after.tag = session.tag /\ after.request = session.request
        /\ after.signers = Append(session.signers, signer)
        /\ after.partials = session.partials /\ after.rolled_out = session.rolled_out
    BY <1>2, <1>3, WithSignerFields
  <1>5. /\ Len(session.signers) \in Nat /\ DOMAIN session.signers = 1..Len(session.signers)
        /\ DOMAIN Append(session.signers, signer) = 1..(Len(session.signers) + 1)
        /\ \A k \in 1..Len(session.signers) :
             Append(session.signers, signer)[k] = session.signers[k]
        /\ Append(session.signers, signer)[Len(session.signers) + 1] = signer
    BY <1>2, <1>3, AppendElements DEF SessionRecords
  <1>6. DOMAIN session.partials = {}
    <2>1. Len(session.partials) \in Nat /\ DOMAIN session.partials = 1..Len(session.partials)
      BY <1>2, LenProperties DEF SessionRecords
    <2>2. ~(Len(session.partials) > 0)
      BY <1>1, <1>2, <1>5, ThresholdConfig DEF Ordered
    <2> QED
      BY <2>1, <2>2
  <1>7. sessions' = [sessions EXCEPT ![s] = after]
    BY <1>1
  <1> HIDE DEF after
  <1>8. Answers(after)
    <2>1. ASSUME NEW j \in 1..(Len(session.signers) + 1), NEW k \in 1..(Len(session.signers) + 1),
                 after.signers[j].node = after.signers[k].node
          PROVE  j = k
      <3>1. \A l \in 1..(Len(session.signers) + 1) :
              l \in 1..Len(session.signers) \/ l = Len(session.signers) + 1
        BY <1>5
      <3>2. \A l \in 1..Len(session.signers) : after.signers[l].node = session.signers[l].node
        BY <1>4, <1>5
      <3>3. after.signers[Len(session.signers) + 1].node = n
        BY <1>3, <1>4, <1>5
      <3>4. CASE j \in 1..Len(session.signers) /\ k \in 1..Len(session.signers)
        BY <1>2, <1>5, <2>1, <3>2, <3>4 DEF Answers
      <3>5. \A l \in 1..Len(session.signers) : after.signers[l].node # n
        BY <1>1, <1>5, <3>2
      <3> QED
        BY <2>1, <3>1, <3>3, <3>4, <3>5
    <2>2. ASSUME NEW k \in 1..(Len(session.signers) + 1)
          PROVE  after.signers[k].nonce.index = after.signers[k].node
      <3>1. k \in 1..Len(session.signers) \/ k = Len(session.signers) + 1
        BY <1>5
      <3> QED
        BY <1>2, <1>3, <1>4, <1>5, <3>1 DEF Answers
    <2> QED
      BY <1>4, <1>5, <1>6, <2>1, <2>2 DEF Answers
  <1>9. SignedRight(after)
    BY <1>1, <1>2, <1>4, <1>6 DEF SignedRight, Certain
  <1> QED
    BY <1>1, <1>7, <1>8, <1>9, OneSessionSigning

(* A signer signs with the share its program has at that moment. *)
LEMMA Round2Signing ==
  ASSUME TypeInv, SigningInv, NEW s \in Sessions, Round2(s)
  PROVE  SigningInv'
  <1> DEFINE session == sessions[s]
             signer  == session.signers[Len(session.partials) + 1]
             share   == get_key_share(signer.node, session.request.program_cid)
             partial == [index |-> share.index, key |-> share.key, epoch |-> share.epoch,
                         nonce |-> signer.nonce.id, message |-> signing_bytes(session.tx),
                         commitments |-> CommitmentsOf(session)]
             after   == WithPartial(session, partial)
  <1>1. /\ session.tag = "open" /\ session.request \in Requests
        /\ Len(session.signers) = SharingThreshold
        /\ Len(session.partials) < SharingThreshold
        /\ signer \in Signers /\ share \in KeyShares /\ share.index = signer.node
        /\ partial \in Partials
        /\ sessions' = [sessions EXCEPT ![s] = after]
        /\ UNCHANGED node_vars
    BY Round2Effect
  <1>2. session \in SessionRecords /\ Answers(session) /\ SignedRight(session) /\ SharesCopied
    BY DEF TypeInv, SigningInv
  <1>3. /\ partial.index = signer.node /\ partial.nonce = signer.nonce.id
        /\ partial.message = signing_bytes(session.tx)
        /\ partial.commitments = CommitmentsOf(session)
        /\ partial.key = share.key /\ partial.epoch = share.epoch
    BY <1>1
  <1> HIDE DEF partial
  <1>4. /\ after.tag = session.tag /\ after.request = session.request
        /\ after.signers = session.signers /\ after.tx = session.tx
        /\ after.partials = Append(session.partials, partial)
        /\ after.rolled_out = session.rolled_out
    BY <1>1, <1>2, WithPartialFields
  <1>5. /\ Len(session.partials) \in Nat /\ DOMAIN session.partials = 1..Len(session.partials)
        /\ DOMAIN Append(session.partials, partial) = 1..(Len(session.partials) + 1)
        /\ \A k \in 1..Len(session.partials) :
             Append(session.partials, partial)[k] = session.partials[k]
        /\ Append(session.partials, partial)[Len(session.partials) + 1] = partial
    BY <1>1, <1>2, AppendElements DEF SessionRecords
  <1>6. \A k \in DOMAIN after.partials :
          k \in DOMAIN session.partials \/ k = Len(session.partials) + 1
    BY <1>4, <1>5
  <1>7. \A k \in DOMAIN session.partials : after.partials[k] = session.partials[k]
    BY <1>4, <1>5
  <1>8. after.partials[Len(session.partials) + 1] = partial
    BY <1>4, <1>5
  <1>9. OwnKey => /\ Certain(session) => share = OwnShare(signer.node)
                  /\ session.request.program_cid = NewCid /\ ProgramKey # DefaultKey =>
                       (share.key = ProgramKey => Migrated(signer.node))
    <2> SUFFICES ASSUME OwnKey
                 PROVE  /\ Certain(session) => share = OwnShare(signer.node)
                        /\ session.request.program_cid = NewCid /\ ProgramKey # DefaultKey =>
                             (share.key = ProgramKey => Migrated(signer.node))
      OBVIOUS
    <2>1. signer.node \in Nodes
      BY <1>1 DEF Signers
    <2>2. /\ key_share[signer.node].key = DefaultKey
          /\ key_shares[signer.node][OldCid] = OwnShare(signer.node)
          /\ key_shares[signer.node][NewCid] =
               IF Migrated(signer.node) THEN OwnShare(signer.node) ELSE None
      BY <1>2, <2>1 DEF SharesCopied
    <2>3. OwnShare(signer.node) # None
      BY <2>1, NodeConstants, MigrationConstants DEF OwnShare, KeyShares
    <2>4. session.rolled_out => Migrated(signer.node)
      BY <1>2, <2>1 DEF SignedRight
    <2> HIDE DEF signer
    <2>5. CASE session.request.program_cid = OldCid
      BY <2>2, <2>3, <2>5, MigrationConstants DEF get_key_share
    <2>6. CASE session.request.program_cid = NewCid
      BY <2>2, <2>3, <2>4, <2>6, MigrationConstants DEF get_key_share, Certain
    <2> QED
      BY <2>5, <2>6 DEF Certain
  <1>10. OwnShare(signer.node).key = ProgramKey /\ OwnShare(signer.node).epoch = 0
    BY DEF OwnShare
  <1> HIDE DEF after, share
  <1>11. Answers(after)
    <2>1. CommitmentsOf(after) = CommitmentsOf(session)
      BY <1>4 DEF CommitmentsOf
    <2>2. ASSUME NEW k \in DOMAIN after.partials
          PROVE  /\ after.partials[k].index = after.signers[k].node
                 /\ after.partials[k].nonce = after.signers[k].nonce.id
                 /\ after.partials[k].message = signing_bytes(after.tx)
                 /\ after.partials[k].commitments = CommitmentsOf(after)
      <3>1. CASE k \in DOMAIN session.partials
        BY <1>2, <1>4, <1>7, <2>1, <3>1 DEF Answers
      <3>2. CASE k = Len(session.partials) + 1
        BY <1>3, <1>4, <1>8, <2>1, <3>2
      <3> QED
        BY <1>6, <3>1, <3>2
    <2> QED
      BY <1>2, <1>4, <2>2 DEF Answers
  <1>12. SignedRight(after)
    <2> SUFFICES ASSUME OwnKey
                 PROVE  /\ after.rolled_out => \A n \in Nodes : Migrated(n)
                        /\ Certain(after) =>
                             /\ after.tag # "rejected"
                             /\ \A k \in DOMAIN after.partials :
                                  after.partials[k].key = ProgramKey
                                    /\ after.partials[k].epoch = 0
                        /\ after.tag # "unused" /\ after.request.program_cid = NewCid
                             /\ ProgramKey # DefaultKey =>
                             \A k \in DOMAIN after.partials :
                               after.partials[k].key = ProgramKey =>
                                 Migrated(after.signers[k].node)
      BY DEF SignedRight
    <2>1. Certain(after) <=> Certain(session)
      BY <1>4 DEF Certain
    <2>2. after.rolled_out => \A n \in Nodes : Migrated(n)
      BY <1>2, <1>4 DEF SignedRight
    <2>3. ASSUME Certain(after), NEW k \in DOMAIN after.partials
          PROVE  after.partials[k].key = ProgramKey /\ after.partials[k].epoch = 0
      <3>1. CASE k \in DOMAIN session.partials
        BY <1>2, <1>7, <2>1, <2>3, <3>1 DEF SignedRight
      <3>2. CASE k = Len(session.partials) + 1
        BY <1>3, <1>8, <1>9, <1>10, <2>1, <2>3, <3>2
      <3> QED
        BY <1>6, <3>1, <3>2
    <2>4. ASSUME after.request.program_cid = NewCid, ProgramKey # DefaultKey,
                 NEW k \in DOMAIN after.partials, after.partials[k].key = ProgramKey
          PROVE  Migrated(after.signers[k].node)
      <3>1. CASE k \in DOMAIN session.partials
        BY <1>1, <1>2, <1>4, <1>7, <2>4, <3>1 DEF SignedRight
      <3>2. CASE k = Len(session.partials) + 1
        BY <1>3, <1>4, <1>8, <1>9, <2>4, <3>2
      <3> QED
        BY <1>6, <3>1, <3>2
    <2> QED
      BY <1>1, <1>4, <2>2, <2>3, <2>4
  <1> QED
    BY <1>1, <1>11, <1>12, OneSessionSigning

(* A complete session whose signers used the program's shares is valid. *)
LEMMA CloseSigning ==
  ASSUME TypeInv, SigningInv, NEW s \in Sessions, Close(s)
  PROVE  SigningInv'
  <1> DEFINE session == sessions[s]
             after   == Closed(session)
  <1>1. /\ session.tag = "open" /\ Len(session.partials) = SharingThreshold
        /\ sessions' = [sessions EXCEPT ![s] = after] /\ UNCHANGED node_vars
    BY CloseEffect
  <1>2. /\ session \in SessionRecords /\ Ordered(session) /\ Answers(session)
        /\ SignedRight(session)
    BY DEF TypeInv, SigningInv
  <1>3. /\ after.tag = IF Valid(session) THEN "attested" ELSE "rejected"
        /\ after.request = session.request /\ after.signers = session.signers
        /\ after.tx = session.tx /\ after.partials = session.partials
        /\ after.rolled_out = session.rolled_out
    BY <1>2, ClosedFields
  <1>4. OwnKey /\ Certain(session) => Valid(session)
    BY <1>1, <1>2, ValidTurnsOnShares DEF SignedRight
  <1> HIDE DEF after
  <1>5. Answers(after)
    BY <1>2, <1>3 DEF Answers, CommitmentsOf
  <1>6. SignedRight(after)
    <2>1. Certain(after) <=> Certain(session)
      BY <1>1, <1>3 DEF Certain
    <2>2. OwnKey /\ Certain(after) => after.tag # "rejected"
      BY <1>3, <1>4, <2>1
    <2> QED
      BY <1>1, <1>2, <1>3, <2>1, <2>2 DEF SignedRight
  <1> QED
    BY <1>1, <1>5, <1>6, OneSessionSigning

(* A node that is migrated stays so, and has both versions' shares. *)
LEMMA OperateMigrates ==
  ASSUME TypeInv, SharesCopied, Operate
  PROVE  SharesCopied' /\ \A n \in Nodes : Migrated(n) => Migrated(n)'
  <1>1. NodeTypeOK
    BY DEF TypeInv
  <1>2. ASSUME NEW n \in Nodes, install_rotated_share(n)
        PROVE  SharesCopied' /\ \A m \in Nodes : Migrated(m) => Migrated(m)'
    <2>1. \A m \in Nodes : key_share'[m].key = key_share[m].key
      BY <1>1, <1>2 DEF install_rotated_share, NodeTypeOK, KeyShares
    <2> QED
      BY <1>2, <2>1 DEF install_rotated_share, SharesCopied, Migrated
  <1>3. ASSUME NEW n \in Nodes, migrate_program(n, OldCid, NewCid)
        PROVE  SharesCopied' /\ \A m \in Nodes : Migrated(m) => Migrated(m)'
    <2>1. /\ frozen_programs' = [frozen_programs EXCEPT ![n] = @ \cup {OldCid}]
          /\ key_shares' = [key_shares EXCEPT ![n][NewCid] = get_key_share(n, OldCid)]
          /\ UNCHANGED key_share
      BY <1>3 DEF migrate_program
    <2>2. \A m \in Nodes : (Migrated(m))' <=> (m = n \/ Migrated(m))
      BY <1>1, <2>1 DEF Migrated, NodeTypeOK
    <2>3. OwnKey => get_key_share(n, OldCid) = OwnShare(n)
      <3>1. OwnShare(n) # None
        BY NodeConstants, MigrationConstants DEF OwnShare, KeyShares
      <3> QED
        BY <3>1 DEF get_key_share, SharesCopied
    <2>4. \A m \in Nodes :
            /\ key_shares'[m][OldCid] = key_shares[m][OldCid]
            /\ key_shares'[m][NewCid] = IF m = n THEN get_key_share(n, OldCid)
                                        ELSE key_shares[m][NewCid]
      BY <1>1, <2>1, MigrationConstants DEF NodeTypeOK
    <2> HIDE DEF Migrated
    <2>5. SharesCopied'
      BY <2>1, <2>2, <2>3, <2>4 DEF SharesCopied, OwnShare
    <2> QED
      BY <2>2, <2>5
  <1> QED
    BY <1>2, <1>3 DEF Operate

LEMMA NextSigningInv == TypeInv /\ SigningInv /\ [Next]_vars => SigningInv'
  <1> SUFFICES ASSUME TypeInv, SigningInv, [Next]_vars PROVE SigningInv'
    OBVIOUS
  <1>1. CASE Operate
    <2>1. SharesCopied' /\ UNCHANGED sessions /\ \A n \in Nodes : Migrated(n) => Migrated(n)'
      BY <1>1, OperateMigrates, OperateNodes DEF SigningInv
    <2>2. ASSUME NEW s \in Sessions
          PROVE  Answers(sessions[s])' /\ SignedRight(sessions[s])'
      <3>1. Answers(sessions[s]) /\ SignedRight(sessions[s])
        BY DEF SigningInv
      <3>2. Answers(sessions[s])'
        BY <2>1, <3>1 DEF Answers, CommitmentsOf
      <3>3. \A k \in DOMAIN sessions[s].partials : sessions[s].signers[k].node \in Nodes
        <4>1. sessions[s] \in SessionRecords /\ Ordered(sessions[s])
          BY DEF TypeInv
        <4>2. /\ sessions[s].signers \in Seq(Signers)
              /\ Len(sessions[s].signers) \in Nat /\ Len(sessions[s].partials) \in Nat
              /\ DOMAIN sessions[s].partials = 1..Len(sessions[s].partials)
              /\ Len(sessions[s].partials) <= Len(sessions[s].signers)
          BY <4>1, LenProperties DEF SessionRecords, Ordered
        <4>3. \A k \in 1..Len(sessions[s].signers) : sessions[s].signers[k] \in Signers
          BY <4>2, ElementOfSeq
        <4> QED
          BY <4>2, <4>3 DEF Signers
      <3>4. SignedRight(sessions[s])'
        BY <2>1, <3>1, <3>3 DEF SignedRight, Certain
      <3> QED
        BY <3>2, <3>4
    <2> QED
      BY <2>1, <2>2 DEF SigningInv
  <1>2. CASE UNCHANGED vars
    BY <1>2 DEF vars, node_vars, SigningInv, SharesCopied, Answers, SignedRight, Certain,
                CommitmentsOf, Migrated
  <1> QED
    BY <1>1, <1>2, OpenSigning, Round1Signing, Round2Signing, CloseSigning DEF Next

(* migrate_program copies the share and leaves the old entry in place:      *)
(* sessions of the old version in flight during a migration end with valid  *)
(* signatures.                                                              *)
THEOREM SessionsSurvive == Spec => []InFlightSessionsSurvive
  <1>1. SigningInv => InFlightSessionsSurvive
    BY DEF SigningInv, SignedRight, Certain, InFlightSessionsSurvive, For
  <1> QED
    BY <1>1, InitTypeInv, NextTypeInv, InitSigningInv, NextSigningInv, PTL DEF Spec

(* A program with shares of its own has, once every node is migrated, a new *)
(* version whose sessions end with valid signatures.                        *)
THEOREM NewVersionServes ==
  ASSUME OwnKey
  PROVE  Spec => []NewVersionAttests
  <1>1. SigningInv => NewVersionAttests
    BY DEF SigningInv, SignedRight, Certain, NewVersionAttests, For
  <1> QED
    BY <1>1, InitTypeInv, NextTypeInv, InitSigningInv, NextSigningInv, PTL DEF Spec

----------------------------------------------------------------------------
(* Once the new version has attested, a quorum of nodes is migrated, and    *)
(* signers of sessions opened later for the old one are not among them.     *)
MigratedQuorum(M) ==
  M \in SUBSET Nodes /\ Cardinality(M) >= SharingThreshold /\ \A n \in M : Migrated(n)

Excluded(session) ==
  session.tag # "unused" /\ session.superseded /\ session.request.program_cid = OldCid =>
    \E M \in SUBSET Nodes :
      MigratedQuorum(M) /\ \A k \in DOMAIN session.signers : session.signers[k].node \notin M

SupersededInv ==
  OwnKey /\ ProgramKey # DefaultKey =>
    /\ new_attested => \E M \in SUBSET Nodes : MigratedQuorum(M)
    /\ \A s \in Sessions : Excluded(sessions[s])

(* Different signers are as many nodes as there are signers. *)
LEMMA SignersCounted ==
  ASSUME NEW session \in SessionRecords, Answers(session)
  PROVE  LET nodes == {session.signers[k].node : k \in DOMAIN session.signers}
         IN  /\ nodes \in SUBSET Nodes /\ IsFiniteSet(nodes)
             /\ Cardinality(nodes) = Len(session.signers)
  <1> DEFINE I     == 1..Len(session.signers)
             nodes == {session.signers[k].node : k \in I}
             node  == [k \in I |-> session.signers[k].node]
  <1>1. /\ Len(session.signers) \in Nat /\ DOMAIN session.signers = I
        /\ \A k \in I : session.signers[k].node \in Nodes
    <2>1. session.signers \in Seq(Signers)
      BY DEF SessionRecords
    <2>2. \A k \in I : session.signers[k] \in Signers
      BY <2>1, ElementOfSeq
    <2> QED
      BY <2>1, <2>2, LenProperties DEF Signers
  <1>2. node \in [I -> nodes] /\ \A e \in nodes : \E k \in I : node[k] = e
    OBVIOUS
  <1>3. \A j, k \in I : node[j] = node[k] => j = k
    BY <1>1 DEF Answers
  <1>4. node \in Surjection(I, nodes) /\ node \in Injection(I, nodes)
    BY <1>2, <1>3 DEF Surjection, Injection, IsInjective
  <1>5. nodes \in SUBSET Nodes
    BY <1>1
  <1> HIDE DEF node, nodes
  <1>6. IsFiniteSet(I) /\ Cardinality(I) = Len(session.signers)
    <2>1. IsFiniteSet(I) /\ Cardinality(I) = IF 1 > Len(session.signers) THEN 0
                                            ELSE Len(session.signers) - 1 + 1
      BY <1>1, FS_Interval
    <2> QED
      BY <1>1, <2>1
  <1>7. IsFiniteSet(nodes) /\ Cardinality(nodes) = Cardinality(I)
    BY <1>4, <1>6, FS_Surjection
  <1> QED
    BY <1>1, <1>5, <1>6, <1>7 DEF nodes

LEMMA InitSupersededInv == Init => SupersededInv
  BY DEF Init, SupersededInv, Excluded, Unused

(* Any step keeps what it does not touch. *)
LEMMA OneSessionExcluded ==
  ASSUME TypeInv, SupersededInv, OwnKey, ProgramKey # DefaultKey,
         NEW s \in Sessions, NEW record, Excluded(record),
         sessions' = [sessions EXCEPT ![s] = record], UNCHANGED node_vars,
         new_attested' => \E M \in SUBSET Nodes : MigratedQuorum(M)
  PROVE  SupersededInv'
  <1>1. \A t \in Sessions : sessions'[t] = IF t = s THEN record ELSE sessions[t]
    BY DEF TypeInv
  <1>2. \A t \in Sessions : Excluded(sessions'[t])
    BY <1>1 DEF SupersededInv
  <1>3. UNCHANGED frozen_programs
    BY DEF node_vars
  <1>4. \A M : MigratedQuorum(M) => MigratedQuorum(M)'
    BY <1>3 DEF MigratedQuorum, Migrated
  <1>5. \A t \in Sessions : Excluded(sessions[t])'
    BY <1>2, <1>4 DEF Excluded
  <1> QED
    BY <1>4, <1>5 DEF SupersededInv

LEMMA Round1Excluded ==
  ASSUME TypeInv, SupersededInv, OwnKey, ProgramKey # DefaultKey,
         NEW s \in Sessions, NEW n \in Nodes, Round1(s, n)
  PROVE  SupersededInv'
  <1> DEFINE session == sessions[s]
             signer  == [node |-> n, nonce |-> [index |-> n, id |-> next_nonce]]
  <1>1. PICK tx \in Transactions :
          /\ session.tag = "open" /\ ~is_frozen(n, session.request.program_cid)
          /\ sessions' = [sessions EXCEPT ![s] = WithSigner(session, signer, tx)]
          /\ UNCHANGED <<new_attested, node_vars>>
    BY Round1Effect
  <1> DEFINE after == WithSigner(session, signer, tx)
  <1>2. session \in SessionRecords /\ Excluded(session)
    BY DEF TypeInv, SupersededInv
  <1>3. signer \in Signers /\ signer.node = n
    BY DEF Signers, Nonces, TypeInv, NodeTypeOK
  <1> HIDE DEF signer
  <1>4. /\ after.tag = session.tag /\ after.request = session.request
        /\ after.signers = Append(session.signers, signer)
        /\ after.superseded = session.superseded
    BY <1>2, <1>3, WithSignerFields
  <1>5. /\ Len(session.signers) \in Nat /\ DOMAIN session.signers = 1..Len(session.signers)
        /\ DOMAIN Append(session.signers, signer) = 1..(Len(session.signers) + 1)
        /\ \A k \in 1..Len(session.signers) :
             Append(session.signers, signer)[k] = session.signers[k]
        /\ Append(session.signers, signer)[Len(session.signers) + 1] = signer
    BY <1>2, <1>3, AppendElements DEF SessionRecords
  <1>6. sessions' = [sessions EXCEPT ![s] = after]
    BY <1>1
  <1> HIDE DEF after
  <1>7. Excluded(after)
    <2> SUFFICES ASSUME after.superseded, after.request.program_cid = OldCid
                 PROVE  \E M \in SUBSET Nodes :
                          MigratedQuorum(M) /\ \A k \in DOMAIN after.signers :
                                                 after.signers[k].node \notin M
      BY DEF Excluded
    <2>1. PICK M \in SUBSET Nodes :
            MigratedQuorum(M) /\ \A k \in DOMAIN session.signers :
                                   session.signers[k].node \notin M
      BY <1>1, <1>2, <1>4 DEF Excluded
    <2>2. n \notin M
      BY <1>1, <1>4, <2>1 DEF MigratedQuorum, Migrated, is_frozen
    <2>3. ASSUME NEW k \in DOMAIN after.signers PROVE after.signers[k].node \notin M
      <3>1. k \in DOMAIN session.signers \/ k = Len(session.signers) + 1
        BY <1>4, <1>5
      <3> QED
        BY <1>3, <1>4, <1>5, <2>1, <2>2, <3>1
    <2> QED
      BY <2>1, <2>3
  <1>8. new_attested' => \E M \in SUBSET Nodes : MigratedQuorum(M)
    BY <1>1 DEF SupersededInv
  <1> QED
    BY <1>1, <1>6, <1>7, <1>8, OneSessionExcluded

(* The first session of the new version to attest has a migrated quorum.    *)
LEMMA CloseExcluded ==
  ASSUME TypeInv, SigningInv, SupersededInv, OwnKey, ProgramKey # DefaultKey,
         NEW s \in Sessions, Close(s)
  PROVE  SupersededInv'
  <1> DEFINE session == sessions[s]
             after   == Closed(session)
             nodes   == {session.signers[k].node : k \in DOMAIN session.signers}
  <1>1. /\ session.tag = "open" /\ Len(session.partials) = SharingThreshold
        /\ sessions' = [sessions EXCEPT ![s] = after] /\ UNCHANGED node_vars
        /\ new_attested' = (new_attested \/ (Valid(session)
                                               /\ session.request.program_cid = NewCid))
    BY CloseEffect
  <1>2. /\ session \in SessionRecords /\ Ordered(session) /\ Answers(session)
        /\ SignedRight(session) /\ Excluded(session)
    BY DEF TypeInv, SigningInv, SupersededInv
  <1>3. /\ after.request = session.request /\ after.signers = session.signers
        /\ after.superseded = session.superseded
    BY <1>2, ClosedFields
  <1>4. Valid(session) /\ session.request.program_cid = NewCid => MigratedQuorum(nodes)
    <2> SUFFICES ASSUME Valid(session), session.request.program_cid = NewCid
                 PROVE  MigratedQuorum(nodes)
      OBVIOUS
    <2>1. /\ \A k \in DOMAIN session.partials : session.partials[k].key = ProgramKey
          /\ DOMAIN session.partials = DOMAIN session.signers
          /\ Len(session.signers) = SharingThreshold
      BY <1>1, <1>2, ValidTurnsOnShares
    <2>2. \A k \in DOMAIN session.signers : Migrated(session.signers[k].node)
      BY <1>1, <1>2, <2>1 DEF SignedRight
    <2>3. nodes \in SUBSET Nodes /\ Cardinality(nodes) = SharingThreshold
      BY <1>2, <2>1, SignersCounted
    <2> QED
      BY <2>2, <2>3, ThresholdConfig DEF MigratedQuorum
  <1> HIDE DEF after, nodes
  <1>5. Excluded(after)
    BY <1>1, <1>2, <1>3 DEF Excluded
  <1>6. new_attested' => \E M \in SUBSET Nodes : MigratedQuorum(M)
    BY <1>1, <1>4 DEF SupersededInv, MigratedQuorum
  <1> QED
    BY <1>1, <1>5, <1>6, OneSessionExcluded

LEMMA NextSupersededInv ==
  TypeInv /\ SigningInv /\ SupersededInv /\ [Next]_vars => SupersededInv'
  <1> SUFFICES ASSUME TypeInv, SigningInv, SupersededInv, [Next]_vars,
                      OwnKey, ProgramKey # DefaultKey
               PROVE  SupersededInv'
    BY DEF SupersededInv
  <1>1. ASSUME NEW s \in Sessions, NEW r \in Requests, Open(s, r) PROVE SupersededInv'
    <2>1. Opened(r).signers = <<>> /\ Opened(r).superseded = new_attested
      BY OpenedFields DEF TypeInv
    <2>2. Excluded(Opened(r))
      BY <2>1 DEF Excluded, SupersededInv
    <2>3. /\ sessions' = [sessions EXCEPT ![s] = Opened(r)]
          /\ UNCHANGED <<new_attested, node_vars>>
      BY <1>1, OpenEffect
    <2>4. new_attested' => \E M \in SUBSET Nodes : MigratedQuorum(M)
      BY <2>3 DEF SupersededInv
    <2> QED
      BY <2>2, <2>3, <2>4, OneSessionExcluded
  <1>2. ASSUME NEW s \in Sessions, Round2(s) PROVE SupersededInv'
    <2> DEFINE session == sessions[s]
    <2>1. PICK partial \in Partials :
            /\ session.tag = "open"
            /\ sessions' = [sessions EXCEPT ![s] = WithPartial(session, partial)]
            /\ UNCHANGED <<new_attested, node_vars>>
      BY <1>2, Round2Effect
    <2> DEFINE after == WithPartial(session, partial)
    <2>2. session \in SessionRecords /\ Excluded(session)
      BY DEF TypeInv, SupersededInv
    <2>3. /\ after.request = session.request /\ after.signers = session.signers
          /\ after.superseded = session.superseded
      BY <2>2, WithPartialFields
    <2>4. sessions' = [sessions EXCEPT ![s] = after]
      BY <2>1
    <2> HIDE DEF after
    <2>5. Excluded(after)
      BY <2>1, <2>2, <2>3 DEF Excluded
    <2>6. new_attested' => \E M \in SUBSET Nodes : MigratedQuorum(M)
      BY <2>1 DEF SupersededInv
    <2> QED
      BY <2>1, <2>4, <2>5, <2>6, OneSessionExcluded
  <1>3. CASE Operate
    <2>1. /\ UNCHANGED <<sessions, new_attested>>
          /\ \A n \in Nodes : Migrated(n) => Migrated(n)'
      BY <1>3, OperateMigrates, OperateNodes DEF SigningInv
    <2>2. \A M : MigratedQuorum(M) => MigratedQuorum(M)'
      BY <2>1 DEF MigratedQuorum
    <2>3. \A s \in Sessions : Excluded(sessions[s])'
      BY <2>1, <2>2 DEF Excluded, SupersededInv
    <2> QED
      BY <2>1, <2>2, <2>3 DEF SupersededInv
  <1>4. CASE UNCHANGED vars
    BY <1>4 DEF vars, node_vars, SupersededInv, Excluded, MigratedQuorum, Migrated
  <1> QED
    BY <1>1, <1>2, <1>3, <1>4, Round1Excluded, CloseExcluded DEF Next

(* Two quorums among fewer than twice as many nodes share one. *)
LEMMA QuorumsMeet ==
  ASSUME NEW Q \in SUBSET Nodes, NEW M \in SUBSET Nodes, Cardinality(Q) >= SharingThreshold,
         Cardinality(M) >= SharingThreshold, 2 * SharingThreshold > SharingTotal
  PROVE  Q \cap M # {}
  <1> SUFFICES ASSUME Q \cap M = {} PROVE FALSE
    OBVIOUS
  <1>1. /\ SharingThreshold \in Nat /\ SharingTotal \in Nat
        /\ IsFiniteSet(Nodes) /\ Cardinality(Nodes) = SharingTotal
    <2>1. IsFiniteSet(Nodes) /\ Cardinality(Nodes) = IF 1 > SharingTotal THEN 0
                                                    ELSE SharingTotal - 1 + 1
      BY ThresholdConfig, FS_Interval DEF Nodes
    <2> QED
      BY <2>1, ThresholdConfig
  <1>2. /\ IsFiniteSet(Q) /\ IsFiniteSet(M) /\ Q \cup M \in SUBSET Nodes
        /\ Cardinality(Q) \in Nat /\ Cardinality(M) \in Nat
    BY <1>1, FS_Subset, FS_CardinalityType
  <1>3. Cardinality(Q \cup M) = Cardinality(Q) + Cardinality(M)
    <2>1. Cardinality(Q \cup M) =
            Cardinality(Q) + Cardinality(M) - Cardinality(Q \cap M)
      BY <1>2, FS_Union
    <2>2. Cardinality(Q \cap M) = 0
      BY FS_EmptySet
    <2> QED
      BY <1>2, <2>1, <2>2
  <1>4. Cardinality(Q \cup M) <= SharingTotal
    BY <1>1, <1>2, FS_Subset
  <1> QED
    BY <1>1, <1>2, <1>3, <1>4

(* There is one live version: once the new one has attested under the       *)
(* program's key, no session opened later attests for the old one           *)
(* (migrate_program freezes it at every node it reaches).                   *)
THEOREM OneLiveVersion == Spec => []OldVersionSuperseded
  <1>1. TypeInv /\ SigningInv /\ SupersededInv => OldVersionSuperseded
    <2> SUFFICES ASSUME TypeInv, SigningInv, SupersededInv, OwnKey, ProgramKey # DefaultKey,
                        2 * SharingThreshold > SharingTotal,
                        NEW s \in For(OldCid), sessions[s].superseded,
                        sessions[s].tag = "attested"
                 PROVE  FALSE
      BY DEF OldVersionSuperseded
    <2> DEFINE session == sessions[s]
               nodes   == {session.signers[k].node : k \in DOMAIN session.signers}
    <2>1. s \in Sessions /\ session.request.program_cid = OldCid /\ session.tag # "unused"
      BY DEF For
    <2>2. /\ session \in SessionRecords /\ Ordered(session) /\ Answers(session)
          /\ Excluded(session)
      BY <2>1 DEF TypeInv, SigningInv, SupersededInv
    <2>3. PICK M \in SUBSET Nodes :
            MigratedQuorum(M) /\ \A k \in DOMAIN session.signers :
                                   session.signers[k].node \notin M
      BY <2>1, <2>2 DEF Excluded
    <2>4. Len(session.partials) = SharingThreshold
      BY <2>2 DEF Ordered
    <2>5. Len(session.signers) = SharingThreshold
      BY <2>2, <2>4, ValidTurnsOnShares
    <2>6. nodes \in SUBSET Nodes /\ Cardinality(nodes) = SharingThreshold
      BY <2>2, <2>5, SignersCounted
    <2>7. nodes \cap M # {}
      <3>1. Cardinality(nodes) >= SharingThreshold /\ Cardinality(M) >= SharingThreshold
        BY <2>3, <2>6, ThresholdConfig DEF MigratedQuorum
      <3> HIDE DEF nodes
      <3> QED
        BY <2>6, <3>1, QuorumsMeet
    <2> QED
      BY <2>3, <2>7
  <1>2. Init => TypeInv /\ SigningInv /\ SupersededInv
    BY InitTypeInv, InitSigningInv, InitSupersededInv
  <1>3. TypeInv /\ SigningInv /\ SupersededInv /\ [Next]_vars =>
          (TypeInv /\ SigningInv /\ SupersededInv)'
    BY NextTypeInv, NextSigningInv, NextSupersededInv
  <1> QED
    BY <1>1, <1>2, <1>3, PTL DEF Spec
=============================================================================
