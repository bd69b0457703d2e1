---------------------------- MODULE CraftSecNode ----------------------------
(***************************************************************************)
(* The threshold nodes (crates/node): their key shares, frozen programs    *)
(* and program registries, the handlers of the two signing rounds, and the *)
(* key administration.                                                     *)
(*                                                                         *)
(* Node n is the n-th node of a deployment and holds shares of index n, as *)
(* every setup of the repository builds them (a node per share of a DKG,   *)
(* in order).  The handlers take `&self': they change nothing here but the *)
(* random source, so they are operators that return what the handler       *)
(* returns.  The administration takes `&mut self': one action each.        *)
(***************************************************************************)
EXTENDS Frost

CONSTANTS
  Programs,   \* program CIDs
  Args,       \* arguments of a request
  Outputs,    \* Outputs[r]: the transactions a validator may return for request r
  Keys,       \* group public keys
  DefaultKey, \* the key of the shares the nodes are created with
  MaxEpoch,   \* bound: share rotations
  MaxAdmin,   \* bound: administrative calls in a behaviour
  None

Nodes         == 1..SharingTotal
KeyShares     == [index : Nodes, key : Keys, epoch : 0..MaxEpoch]
Requests      == [program_cid : Programs, args : Args]
Transactions  == UNION {Outputs[r] : r \in Requests}
Nonces        == [index : Nodes, id : Nat]

ASSUME NodeConstants ==
  /\ DefaultKey \in Keys
  /\ MaxEpoch \in Nat /\ MaxAdmin \in Nat
  /\ DOMAIN Outputs = Requests
  /\ None \notin KeyShares \cup Requests \cup Transactions \cup Nonces

VARIABLES
  key_share,        \* key_share[n]: the default share
  key_shares,       \* key_shares[n][p]: the share registered for program p, or None
  frozen_programs,  \* frozen_programs[n]: programs node n refuses
  programs,         \* programs[n]: programs node n's registry has a validator for
  next_nonce,       \* the random source: draws so far
  admin_calls       \* administrative calls so far (only for MaxAdmin)

node_vars == <<key_share, key_shares, frozen_programs, programs, admin_calls>>

NodeTypeOK ==
  /\ key_share \in [Nodes -> KeyShares]
  /\ key_shares \in [Nodes -> [Programs -> KeyShares \cup {None}]]
  /\ frozen_programs \in [Nodes -> SUBSET Programs]
  /\ programs \in [Nodes -> SUBSET Programs]
  /\ next_nonce \in Nat
  /\ admin_calls \in 0..MaxAdmin

(* CraftSecNode::new on each share of one DKG, then register_key with the   *)
(* shares a setup brings; every setup registers the same programs on all    *)
(* nodes.                                                                   *)
NodeInitWith(registered) ==
  /\ key_share = [n \in Nodes |-> [index |-> n, key |-> DefaultKey, epoch |-> 0]]
  /\ key_shares = registered
  /\ frozen_programs = [n \in Nodes |-> {}]
  /\ \E known \in SUBSET Programs : programs = [n \in Nodes |-> known]
  /\ next_nonce = 0
  /\ admin_calls = 0

NodeInit == NodeInitWith([n \in Nodes |-> [p \in Programs |-> None]])

----------------------------------------------------------------------------
is_frozen(n, p) == p \in frozen_programs[n]

get_key_share(n, p) ==
  IF key_shares[n][p] # None THEN key_shares[n][p] ELSE key_share[n]

(* What ProgramRegistry::execute may return.  The verdict of a validator    *)
(* depends on state of the node that changes between calls (the node's      *)
(* CraftSQL), so any verdict is possible at any call.                       *)
Execute(n, r) ==
  {[tag |-> "error"]} \cup
    IF r.program_cid \in programs[n]
    THEN {[tag |-> "invalid"]} \cup [tag : {"valid"}, tx : Outputs[r]]
    ELSE {}

(* Round 1: what process_request may return.  A frozen program is refused   *)
(* before it runs; only a valid result comes with a nonce.                  *)
process_request(n, r) ==
  IF is_frozen(n, r.program_cid)
  THEN {[tag |-> "error"]}
  ELSE {res \in Execute(n, r) : res.tag # "valid"} \cup
       {[tag |-> "valid", tx |-> res.tx,
         nonce |-> generate_nonces(get_key_share(n, r.program_cid).index, next_nonce)]
          : res \in {v \in Execute(n, r) : v.tag = "valid"}}

(* Round 2 with the default share, and with the share of a program.         *)
sign(n, nonce, message, commitments) ==
  sign_partial(key_share[n], nonce, message, commitments)

sign_for_program(n, p, nonce, message, commitments) ==
  sign_partial(get_key_share(n, p), nonce, message, commitments)

----------------------------------------------------------------------------
AdminCall ==
  /\ admin_calls < MaxAdmin
  /\ admin_calls' = admin_calls + 1
  /\ UNCHANGED next_nonce

(* A share of any key may be registered, over one already there too: the    *)
(* caller brings node n the n-th share of a DKG or of derive_key.           *)
register_key(n, p, share) ==
  /\ AdminCall
  /\ key_shares' = [key_shares EXCEPT ![n][p] = share]
  /\ UNCHANGED <<key_share, frozen_programs, programs>>

freeze_program(n, p) ==
  /\ AdminCall
  /\ frozen_programs' = [frozen_programs EXCEPT ![n] = @ \cup {p}]
  /\ UNCHANGED <<key_share, key_shares, programs>>

(* Mutants: the old CID loses its share; it is not frozen; the default      *)
(* share is copied.                                                         *)
migrate_program_moves(n, old_cid, new_cid) ==
  /\ AdminCall
  /\ key_shares' = [key_shares EXCEPT ![n][new_cid] = get_key_share(n, old_cid),
                                     ![n][old_cid] = None]
  /\ frozen_programs' = [frozen_programs EXCEPT ![n] = @ \cup {old_cid}]
  /\ UNCHANGED <<key_share, programs>>

migrate_program_without_freeze(n, old_cid, new_cid) ==
  /\ AdminCall
  /\ key_shares' = [key_shares EXCEPT ![n][new_cid] = get_key_share(n, old_cid)]
  /\ UNCHANGED <<key_share, frozen_programs, programs>>

migrate_program_default_key(n, old_cid, new_cid) ==
  /\ AdminCall
  /\ key_shares' = [key_shares EXCEPT ![n][new_cid] = key_share[n]]
  /\ frozen_programs' = [frozen_programs EXCEPT ![n] = @ \cup {old_cid}]
  /\ UNCHANGED <<key_share, programs>>

(* Copies the share of the old CID, the default share if it has none of its *)
(* own, to the new CID, then freezes the old CID.                           *)
migrate_program(n, old_cid, new_cid) ==
  /\ AdminCall
  /\ key_shares' = [key_shares EXCEPT ![n][new_cid] = get_key_share(n, old_cid)]
  /\ frozen_programs' = [frozen_programs EXCEPT ![n] = @ \cup {old_cid}]
  /\ UNCHANGED <<key_share, programs>>

(* ProgramRegistry::register: a validator for one more program.             *)
register(n, p) ==
  /\ AdminCall
  /\ programs' = [programs EXCEPT ![n] = @ \cup {p}]
  /\ UNCHANGED <<key_share, key_shares, frozen_programs>>

(* The owner of a node puts its share of the next rotation in place of the  *)
(* default share (a public field).                                          *)
install_rotated_share(n) ==
  /\ AdminCall
  /\ key_share[n].epoch < MaxEpoch
  /\ key_share' = [key_share EXCEPT ![n].epoch = @ + 1]
  /\ UNCHANGED <<key_shares, frozen_programs, programs>>

Admin ==
  \E n \in Nodes :
    \/ install_rotated_share(n)
    \/ \E p \in Programs :
         \/ freeze_program(n, p)
         \/ register(n, p)
         \/ \E key \in Keys, epoch \in 0..MaxEpoch :
              register_key(n, p, [index |-> n, key |-> key, epoch |-> epoch])
         \/ \E q \in Programs : migrate_program(n, p, q)
=============================================================================
