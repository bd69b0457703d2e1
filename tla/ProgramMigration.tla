-------------------------- MODULE ProgramMigration --------------------------
(***************************************************************************)
(* A program moves from one CID to the next, node by node                  *)
(* (migrate_program, crates/node/src/node.rs), while requesters are in the *)
(* middle of signing sessions for either version and shares are rotated.   *)
(*                                                                         *)
(* A requester drives the nodes directly, as the tests of the node do:     *)
(* round 1 on SharingThreshold nodes, round 2 with sign_for_program on the *)
(* same nodes in the same order, then aggregate and verify under the key   *)
(* the program is known by.  It keeps the nonces itself, so sessions       *)
(* interleave freely with each other and with the operator.                *)
(***************************************************************************)
EXTENDS CraftSecNode

CONSTANTS
  OldCid, NewCid,  \* the two versions
  ProgramKey,      \* the key the program is known by
  OwnKey,          \* the old version has registered shares of its own, at
                   \* every node; otherwise it signs with the default shares
  Sessions         \* bound: one signing session each

ASSUME MigrationConstants ==
  /\ OldCid \in Programs /\ NewCid \in Programs /\ OldCid # NewCid
  /\ ProgramKey \in Keys
  /\ OwnKey \in BOOLEAN
  /\ ~OwnKey => ProgramKey = DefaultKey

VARIABLES
  sessions,      \* the requesters' side of each session
  new_attested   \* history: a session for NewCid has ended with a signature

vars == <<sessions, new_attested, node_vars, next_nonce>>

(* The shares the deployment registers at setup. *)
SetupShares ==
  [n \in Nodes |-> [p \in Programs |->
     IF OwnKey /\ p = OldCid THEN [index |-> n, key |-> ProgramKey, epoch |-> 0]
     ELSE None]]

Migrated(n) == OldCid \in frozen_programs[n]

(* Every node is migrated and no rotation is half installed.                *)
RolledOut ==
  \A m, n \in Nodes : Migrated(n) /\ key_share[m].epoch = key_share[n].epoch

(* `superseded' and `rolled_out' record what held when the session was      *)
(* opened: NewCid had attested, and the migration was complete.             *)
Unused == [tag |-> "unused", request |-> None, signers |-> <<>>, tx |-> None,
           partials |-> <<>>, superseded |-> FALSE, rolled_out |-> FALSE]

Init ==
  /\ NodeInitWith(SetupShares)
  /\ sessions = [s \in Sessions |-> Unused]
  /\ new_attested = FALSE

----------------------------------------------------------------------------
Open(s, r) ==
  /\ sessions[s].tag = "unused"
  /\ sessions' = [sessions EXCEPT
       ![s] = [Unused EXCEPT !.tag = "open", !.request = r, !.superseded = new_attested,
                             !.rolled_out = RolledOut]]
  /\ UNCHANGED <<new_attested, node_vars, next_nonce>>

(* Mutant: one signer too many. *)
Round1_one_more(s, n) ==
  /\ sessions[s].tag = "open"
  /\ Len(sessions[s].signers) <= SharingThreshold
  /\ \A k \in DOMAIN sessions[s].signers : sessions[s].signers[k].node # n
  /\ \E resp \in process_request(n, sessions[s].request) :
       /\ resp.tag = "valid"
       /\ sessions' = [sessions EXCEPT
            ![s].signers = Append(@, [node |-> n, nonce |-> resp.nonce]),
            ![s].tx = IF @ = None THEN resp.tx ELSE @]
  /\ next_nonce' = next_nonce + 1
  /\ UNCHANGED <<new_attested, node_vars>>

(* Round 1 on one more node.  An answer other than Valid leaves the session *)
(* where it was; the transaction is that of the first answer.               *)
Round1(s, n) ==
  /\ sessions[s].tag = "open"
  /\ Len(sessions[s].signers) < SharingThreshold
  /\ \A k \in DOMAIN sessions[s].signers : sessions[s].signers[k].node # n
  /\ \E resp \in process_request(n, sessions[s].request) :
       /\ resp.tag = "valid"
       /\ sessions' = [sessions EXCEPT
            ![s].signers = Append(@, [node |-> n, nonce |-> resp.nonce]),
            ![s].tx = IF @ = None THEN resp.tx ELSE @]
  /\ next_nonce' = next_nonce + 1
  /\ UNCHANGED <<new_attested, node_vars>>

CommitmentsOf(session) == [k \in DOMAIN session.signers |-> session.signers[k].nonce]

(* Round 2 on the next signer, with its program's share. *)
Round2(s) ==
  LET session == sessions[s]
      signer  == session.signers[Len(session.partials) + 1]
  IN  /\ session.tag = "open"
      /\ Len(session.signers) = SharingThreshold
      /\ Len(session.partials) < SharingThreshold
      /\ sessions' = [sessions EXCEPT ![s].partials = Append(@,
           sign_for_program(signer.node, session.request.program_cid, signer.nonce,
                            signing_bytes(session.tx), CommitmentsOf(session)))]
      /\ UNCHANGED <<new_attested, node_vars, next_nonce>>

(* Aggregate and verify. *)
Close(s) ==
  LET session == sessions[s]
      message == signing_bytes(session.tx)
      valid   == verify(aggregate(message, CommitmentsOf(session), session.partials),
                        ProgramKey, message)
  IN  /\ session.tag = "open"
      /\ Len(session.partials) = SharingThreshold
      /\ sessions' = [sessions EXCEPT ![s].tag = IF valid THEN "attested" ELSE "rejected"]
      /\ new_attested' = (new_attested \/ (valid /\ session.request.program_cid = NewCid))
      /\ UNCHANGED <<node_vars, next_nonce>>

(* The operator migrates the nodes one by one, again perhaps, and installs  *)
(* rotated default shares.                                                  *)
Operate ==
  /\ \E n \in Nodes : migrate_program(n, OldCid, NewCid) \/ install_rotated_share(n)
  /\ UNCHANGED <<sessions, new_attested>>

Next ==
  \/ \E s \in Sessions :
       \/ \E r \in Requests : Open(s, r)
       \/ \E n \in Nodes : Round1(s, n)
       \/ Round2(s)
       \/ Close(s)
  \/ Operate

Spec == Init /\ [][Next]_vars

----------------------------------------------------------------------------
For(cid) == {s \in Sessions : sessions[s].tag # "unused"
                                /\ sessions[s].request.program_cid = cid}

(* Types. *)
TypeOK ==
  /\ NodeTypeOK
  /\ new_attested \in BOOLEAN
  /\ \A s \in Sessions :
       /\ sessions[s].tag \in {"unused", "open", "attested", "rejected"}
       /\ sessions[s].request \in Requests \cup {None}
       /\ sessions[s].tx \in Transactions \cup {None}
       /\ Len(sessions[s].partials) <= Len(sessions[s].signers)
       /\ Len(sessions[s].signers) <= SharingThreshold

(* A session for the old version that got its commitments before or during  *)
(* the migration still ends with a valid signature, however the migration   *)
(* of its signers falls between its rounds: migrate_program copies the      *)
(* share and leaves the old entry in place.                                 *)
InFlightSessionsSurvive ==
  OwnKey => \A s \in For(OldCid) : sessions[s].tag # "rejected"

(* The program never has two live versions: once the new version has        *)
(* attested under the program's key, no session opened later attests for    *)
(* the old one, because the signers of the new one have frozen the old one  *)
(* and any two quorums share a node.  (A program known by the key of the    *)
(* default shares has two live versions from the start: a CID without       *)
(* shares of its own is signed for with the default ones.)                  *)
OldVersionSuperseded ==
  OwnKey /\ ProgramKey # DefaultKey /\ 2 * SharingThreshold > SharingTotal =>
    \A s \in For(OldCid) : sessions[s].superseded => sessions[s].tag # "attested"

(* Sessions for the new version opened once the migration is complete end   *)
(* with valid signatures ("v2 attestation should work with same key").      *)
NewVersionAttests ==
  \A s \in For(NewCid) : sessions[s].rolled_out => sessions[s].tag # "rejected"

(* A node makes no partial signature for a program it has frozen.           *)
FrozenProgramNotSigned ==
  [][\A s \in Sessions :
       Len(sessions'[s].partials) > Len(sessions[s].partials) =>
         ~is_frozen(sessions[s].signers[Len(sessions'[s].partials)].node,
                    sessions[s].request.program_cid)]_vars
=============================================================================
