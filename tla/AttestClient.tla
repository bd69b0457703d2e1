---------------------------- MODULE AttestClient ----------------------------
(***************************************************************************)
(* One client of the threshold nodes: CraftSecClient::attest               *)
(* (crates/client/src/lib.rs) over LocalTransport                          *)
(* (crates/client/src/transport.rs), which keeps for every node the nonce  *)
(* of its last round 1 in a slot and calls the node's handlers.            *)
(*                                                                         *)
(* attest() is a synchronous function; a step here is one transport call   *)
(* or the straight-line code between two of them.  With LocalTransport the *)
(* client owns the nodes, so no administration runs during a call, and a   *)
(* transport call fails only when the node refuses.  With Networked, nodes *)
(* belong to other processes, which is what the trait NodeTransport stands *)
(* for: a call may fail before or after the node has served it, and nodes  *)
(* are administered at any time.                                           *)
(***************************************************************************)
EXTENDS CraftSecNode

CONSTANTS
  Threshold,       \* CraftSecClient.threshold: any u32
  NodeCount,       \* CraftSecClient.node_count: any usize
  GroupPublicKey,  \* CraftSecClient.group_public_key
  Networked,       \* nodes are reached over a network
  MaxNonces        \* bound: no attest() starts once so many nonces were drawn

ASSUME ClientConstants ==
  /\ Threshold \in Nat /\ NodeCount \in Nat /\ MaxNonces \in Nat
  /\ GroupPublicKey \in Keys
  /\ Networked \in BOOLEAN

VARIABLES
  nonces,           \* LocalTransport.nonces: the slot of each node
  pc,               \* where attest() is
  request,          \* its argument
  i,                \* the loop variable of round 1 (the node asked next)
  valid_responses,  \* as in the code: [node, commitment] of each Valid answer
  transaction,      \* as in the code
  partials,         \* as in the code
  result,           \* what the last attest() returned
  approvals,        \* history: [node, tx] of each Valid verdict during the call
  signed            \* history: every partial signature any node produced

client_vars == <<nonces, pc, request, i, valid_responses, transaction, partials,
                 result, approvals, signed>>
vars == <<client_vars, node_vars, next_nonce>>

Commitments == [k \in DOMAIN valid_responses |-> valid_responses[k].commitment]
message     == signing_bytes(transaction)

Failures == {[tag |-> "InsufficientShares"], [tag |-> "InvalidSignature"],
             [tag |-> "NoNonce"], [tag |-> "Unavailable"], [tag |-> "Panic"]}
Results  == Failures \cup [tag : {"ok"}, tx : Transactions]

ASSUME NoneIsNoResult == None \notin Results

Init ==
  /\ NodeInit
  /\ nonces = [n \in Nodes |-> None]
  /\ pc = "idle" /\ request = None /\ i = 1
  /\ valid_responses = <<>> /\ transaction = None /\ partials = <<>>
  /\ result = None
  /\ approvals = {} /\ signed = {}

----------------------------------------------------------------------------
Return(res) == pc' = "idle" /\ result' = res

(* Mutant: the answers of the last call are not thrown away. *)
Begin_keeps_answers(r) ==
  /\ pc = "idle"
  /\ next_nonce < MaxNonces
  /\ request' = r /\ i' = 1 /\ partials' = <<>>
  /\ approvals' = {} /\ result' = None
  /\ pc' = IF NodeCount = 0 THEN "collect" ELSE "round1"
  /\ UNCHANGED <<nonces, valid_responses, transaction, signed, node_vars, next_nonce>>

(* attest(request) is called.  The loop `for i in 0..node_count' may be     *)
(* empty.                                                                   *)
Begin(r) ==
  /\ pc = "idle"
  /\ next_nonce < MaxNonces
  /\ request' = r /\ i' = 1
  /\ valid_responses' = <<>> /\ transaction' = None /\ partials' = <<>>
  /\ approvals' = {} /\ result' = None
  /\ pc' = IF NodeCount = 0 THEN "collect" ELSE "round1"
  /\ UNCHANGED <<nonces, signed, node_vars, next_nonce>>

(* Mutant: a slot in use is not overwritten. *)
StoreNonce_keeps_first(n, resp) ==
  nonces' = IF resp.tag = "valid" /\ nonces[n] = None
            THEN [nonces EXCEPT ![n] = resp.nonce] ELSE nonces

(* LocalTransport::round1 once the node has answered: an error leaves the   *)
(* slot as it was, any other answer overwrites it.                          *)
StoreNonce(n, resp) ==
  nonces' = CASE resp.tag = "valid"   -> [nonces EXCEPT ![n] = resp.nonce]
              [] resp.tag = "invalid" -> [nonces EXCEPT ![n] = None]
              [] resp.tag = "error"   -> nonces

(* A Valid answer is kept; the transaction is that of the first one.        *)
TakeAnswer(resp) ==
  IF resp.tag = "valid"
  THEN /\ transaction' = IF transaction = None THEN resp.tx ELSE transaction
       /\ valid_responses' =
            Append(valid_responses, [node |-> i, commitment |-> resp.nonce])
  ELSE UNCHANGED <<transaction, valid_responses>>

(* Mutants: the loop runs once too often; an error ends it; an error asks   *)
(* the same node again.                                                     *)
HandleRound1_one_more(resp) ==
  /\ i' = i + 1
  /\ TakeAnswer(resp)
  /\ pc' = IF i > NodeCount \/ (resp.tag # "error" /\ Len(valid_responses') >= Threshold)
           THEN "collect" ELSE "round1"

HandleRound1_gives_up(resp) ==
  /\ i' = i + 1
  /\ TakeAnswer(resp)
  /\ pc' = IF \/ i = NodeCount \/ resp.tag = "error"
              \/ Len(valid_responses') >= Threshold
           THEN "collect" ELSE "round1"

HandleRound1_asks_again(resp) ==
  /\ i' = IF resp.tag = "error" THEN i ELSE i + 1
  /\ TakeAnswer(resp)
  /\ pc' = IF resp.tag # "error" /\ (i = NodeCount \/ Len(valid_responses') >= Threshold)
           THEN "collect" ELSE "round1"

(* The body of the loop after the call: `continue' on an error skips the    *)
(* test that leaves the loop.                                               *)
HandleRound1(resp) ==
  /\ i' = i + 1
  /\ TakeAnswer(resp)
  /\ pc' = IF \/ i = NodeCount
              \/ resp.tag # "error" /\ Len(valid_responses') >= Threshold
           THEN "collect" ELSE "round1"

(* A node may answer with an error for any request, so an error also stands *)
(* for a request that was lost; an answer that was lost has left its mark   *)
(* on the node.                                                             *)
Round1 ==
  /\ pc = "round1" /\ i \in Nodes
  /\ \E resp \in process_request(i, request) :
       /\ StoreNonce(i, resp)
       /\ next_nonce' = IF resp.tag = "valid" THEN next_nonce + 1 ELSE next_nonce
       /\ approvals' = IF resp.tag = "valid"
                       THEN approvals \cup {[node |-> i, tx |-> resp.tx]} ELSE approvals
       /\ \/ HandleRound1(resp)
          \/ Networked /\ HandleRound1([tag |-> "error"])
  /\ UNCHANGED <<request, partials, result, signed, node_vars>>

(* nodes[node_index] with node_index out of bounds.                         *)
Round1OutOfBounds ==
  /\ pc = "round1" /\ i \notin Nodes
  /\ Return([tag |-> "Panic"])
  /\ UNCHANGED <<nonces, request, i, valid_responses, transaction, partials, approvals,
                 signed, node_vars, next_nonce>>

(* Between the rounds: too few answers, or the unwrap() of the transaction. *)
Collect ==
  /\ pc = "collect"
  /\ CASE Len(valid_responses) < Threshold -> Return([tag |-> "InsufficientShares"])
       [] Len(valid_responses) >= Threshold /\ transaction = None ->
            Return([tag |-> "Panic"])
       [] OTHER -> pc' = "round2" /\ UNCHANGED result
  /\ UNCHANGED <<nonces, request, i, valid_responses, transaction, partials, approvals,
                 signed, node_vars, next_nonce>>

Round2Node == valid_responses[Len(partials) + 1].node

(* LocalTransport::round2 on the next signer, with the nonce in its slot    *)
(* and the node's default share.                                            *)
Round2 ==
  /\ pc = "round2" /\ Len(partials) < Len(valid_responses)
  /\ IF nonces[Round2Node] = None
     THEN Return([tag |-> "NoNonce"]) /\ UNCHANGED <<partials, signed>>
     ELSE LET partial == sign(Round2Node, nonces[Round2Node], message, Commitments)
          IN  /\ signed' = signed \cup {partial}
              /\ \/ partials' = Append(partials, partial) /\ UNCHANGED <<pc, result>>
                 \/ Networked /\ Return([tag |-> "Unavailable"]) /\ UNCHANGED partials
  /\ UNCHANGED <<nonces, request, i, valid_responses, transaction, approvals, node_vars,
                 next_nonce>>

(* The round 2 call does not reach the node: attest() gives up.             *)
Round2Lost ==
  /\ Networked
  /\ pc = "round2" /\ Len(partials) < Len(valid_responses)
  /\ Return([tag |-> "Unavailable"])
  /\ UNCHANGED <<nonces, request, i, valid_responses, transaction, partials, approvals,
                 signed, node_vars, next_nonce>>

(* Mutant: what was aggregated is returned. *)
Finish_unverified ==
  /\ pc = "round2" /\ Len(partials) = Len(valid_responses)
  /\ Return([tag |-> "ok", tx |-> transaction])
  /\ UNCHANGED <<nonces, request, i, valid_responses, transaction, partials, approvals,
                 signed, node_vars, next_nonce>>

(* Aggregate, and verify before returning.                                  *)
Finish ==
  /\ pc = "round2" /\ Len(partials) = Len(valid_responses)
  /\ IF verify(aggregate(message, Commitments, partials), GroupPublicKey, message)
     THEN Return([tag |-> "ok", tx |-> transaction])
     ELSE Return([tag |-> "InvalidSignature"])
  /\ UNCHANGED <<nonces, request, i, valid_responses, transaction, partials, approvals,
                 signed, node_vars, next_nonce>>

Attesting == Round1 \/ Round1OutOfBounds \/ Collect \/ Round2 \/ Round2Lost \/ Finish

Administer ==
  /\ pc = "idle" \/ Networked
  /\ Admin
  /\ UNCHANGED client_vars

Next == (\E r \in Requests : Begin(r)) \/ Attesting \/ Administer

Spec     == Init /\ [][Next]_vars
FairSpec == Spec /\ WF_vars(Attesting)

----------------------------------------------------------------------------
Partials == [index : Nodes, key : Keys, epoch : 0..MaxEpoch, nonce : Nat,
             message : {signing_bytes(tx) : tx \in Transactions}, commitments : Seq(Nonces)]

(* Every variable keeps its type; the loop variable never passes the end,   *)
(* and there is a transaction to sign in round 2.                           *)
TypeOK ==
  /\ NodeTypeOK
  /\ nonces \in [Nodes -> Nonces \cup {None}]
  /\ pc \in {"idle", "round1", "collect", "round2"}
  /\ request \in Requests \cup {None}
  /\ pc # "idle" => request # None
  /\ i \in 1..(NodeCount + 1) /\ (pc = "round1" => i <= NodeCount)
  /\ valid_responses \in Seq([node : Nodes, commitment : Nonces])
  /\ transaction \in Transactions \cup {None} /\ (pc = "round2" => transaction # None)
  /\ partials \in Seq(Partials) /\ Len(partials) <= Len(valid_responses)
  /\ result \in Results \cup {None}
  /\ approvals \subseteq [node : Nodes, tx : Transactions]
  /\ signed \subseteq Partials

(* Round 2 finds in the slot of every signer still to be called the nonce   *)
(* whose commitment is in the list the signers bind to, never the one of an *)
(* earlier call, of a node that answered differently, or none: the slots    *)
(* survive failed calls and are never cleared.                              *)
SlotHoldsCommittedNonce ==
  pc = "round2" =>
    \A k \in (Len(partials) + 1)..Len(valid_responses) :
      nonces[valid_responses[k].node] = valid_responses[k].commitment

(* No nonce pair ever produces two different partial signatures, over all   *)
(* calls of a client, failed ones included, although round 2 copies the     *)
(* nonce out of its slot and leaves it there.                               *)
NonceSignsOnce ==
  \A p, q \in signed : p.nonce = q.nonce => p = q

(* A transaction is returned as attested only if as many nodes as the key's *)
(* sharing demands approved that very transaction during the call, whatever *)
(* threshold the client itself is configured with.                          *)
Approvers(tx) == {n \in Nodes : [node |-> n, tx |-> tx] \in approvals}

AttestedByThreshold ==
  result # None /\ result.tag = "ok" => Cardinality(Approvers(result.tx)) >= SharingThreshold

(* When the aggregate fails to verify, the keys are to blame: too few       *)
(* signers for the sharing, a share of another group key, or shares of      *)
(* different rotations.  The nonces, commitments, indices and messages the  *)
(* client and the slots pass around always fit together.                    *)
VerificationFailsOnlyOnKeys ==
  result = [tag |-> "InvalidSignature"] =>
    \/ Len(partials) < SharingThreshold
    \/ \E k \in DOMAIN partials : partials[k].key # GroupPublicKey
    \/ \E j, k \in DOMAIN partials : partials[j].epoch # partials[k].epoch

(* A client that owns its nodes is told InsufficientShares only after every *)
(* node was asked and fewer than the threshold approved: neither a refusal  *)
(* nor a rejection cuts the poll short.                                     *)
InsufficientOnlyAfterAllAsked ==
  ~Networked /\ result = [tag |-> "InsufficientShares"] =>
    /\ i = NodeCount + 1
    /\ Cardinality({a.node : a \in approvals}) < Threshold

(* attest() panics only in a client configured with threshold 0 or with     *)
(* more nodes than there are.                                               *)
PanicOnlyOnMisconfiguration ==
  result = [tag |-> "Panic"] => Threshold = 0 \/ NodeCount > SharingTotal

(* A call to attest() returns.                                              *)
AttestReturns == pc # "idle" ~> pc = "idle"

(* The client implements the service its caller is promised.                *)
ServiceOutcome ==
  LET tag == CASE pc # "idle"                          -> "pending"
               [] pc = "idle" /\ result = None         -> "none"
               [] pc = "idle" /\ result # None /\ result.tag = "ok" -> "attested"
               [] OTHER                                -> "failed"
  IN  [tag |-> tag, tx |-> IF tag = "attested" THEN result.tx ELSE None]

Service == INSTANCE ThresholdAttestation WITH
  Voters <- Nodes, Calls <- Requests, Approvable <- Outputs,
  Quorum <- SharingThreshold, Nothing <- None,
  call <- request, approved <- approvals, outcome <- ServiceOutcome

ImplementsService == Service!ServiceSpec

(* A program holds its own key: when every signer has registered a share of *)
(* the client's key for the requested program, the signature they make for  *)
(* that program verifies under that key.                                    *)
SignersHoldProgramShares ==
  \A k \in DOMAIN valid_responses :
    LET share == get_key_share(valid_responses[k].node, request.program_cid)
    IN  share.key = GroupPublicKey /\ share.epoch = 0

ProgramKeyAttests ==
  [][pc = "round2" /\ SignersHoldProgramShares
       => result' # [tag |-> "InvalidSignature"]]_vars
=============================================================================
