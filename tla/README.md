# CraftSEC in TLA+

CraftSEC is a threshold attestation service: a requester asks `n` nodes to run a
program on a request, every node that accepts the request takes part in a two-round
FROST signature, and `t` of them together produce one Ed25519 signature under the
program's key. This directory holds a model of it that TLC checks on small instances,
and proofs that TLAPS checks for all of them.

Paths below are relative to `src/crates/` unless they start with `docs/` or `examples/`
(both under `src/`).

## 1. The system

| part | code | state it keeps | operations | interacts with |
|---|---|---|---|---|
| threshold and request types | `core/src/types.rs` | none | `ThresholdConfig::new`, `Transaction::signing_bytes` | everything |
| FROST | `signing/src/frost.rs`, `lagrange.rs` | none | `generate_nonces`, `sign_partial`, `verify_partial`, `aggregate`, `verify`, `lagrange_coefficient` | called by node and client |
| key ceremonies | `dkg/src/{feldman,pdk,rotation,polynomial}.rs` | none; a call deals the shares of all participants | `run_dkg`, `verify_share`, `derive_key`, `rotate_shares` | makes the shares nodes are built with |
| node | `node/src/node.rs` | default key share, key shares per program, frozen programs, its executor | `process_request`, `sign`, `sign_for_program`; `register_key`, `freeze_program`, `migrate_program` | executor, FROST |
| native executor | `node/src/executor.rs` | validators by CID | `register`, `execute` | called in round 1 |
| WASM executor | `node/src/wasm_executor.rs`, guest in `examples/transfer-validator` | compiled modules, SQL databases behind one mutex | `register_wasm`, `setup_database`, `execute` with two host calls | called in round 1; guest calls back |
| client | `client/src/lib.rs` | none between calls | `attest` | the transport |
| transports | `client/src/transport.rs` | one nonce slot per node | `round1`, `round2` | nodes |
| receipts, attestation provider | `core/src/{receipt,attestation}.rs` | a receipt's signature list | `add_signature`, `verify_signatures`; a mock that hashes | compute layers outside the repository |
| command line | `cli/src/main.rs` | none between commands | six commands | derives keys, builds nodes and a client |

### What is hard about it

- **Two rounds, one slot.** Between the rounds of a signature the transport holds the
  nonce of each node in a slot that round 1 overwrites and nothing clears. A call can end
  anywhere: too few answers, an error in round 2, an aggregate that does not verify. The
  next call starts on the slots the last one left. A nonce that signs two messages, or a
  slot that does not match the commitment in the list, is the classic way to break FROST.
- **The client decides which message is signed.** It takes the transaction of the first
  node that answers and asks all of them to sign it; nodes sign any bytes.
- **Keys move under running signatures.** `register_key`, `freeze_program`,
  `migrate_program` and rotations are performed node by node, and signing spans several nodes
  and two calls to each.
- **Configuration is not cross-checked.** The client's threshold and node count, the
  number of nodes of the transport, and the degree of the key's sharing are four
  independent numbers.
- **Guests.** A guest reads its node's database in queries of its own, between which
  other threads run batches of SQL; the host calls back into the guest's allocator from
  inside a query; pointers and lengths are 32-bit words a guest may choose freely; a trap in
  the wrong place would poison the mutex of every database.
- **Faulty signers.** A signer may answer round 2 with anything; `attest` sums what it is
  given and verifies only the sum, in which the errors of several signers can cancel.
- **Signed bytes.** Receipts, attestations and derived keys concatenate fields without
  lengths; whether two of them can share their bytes depends on which fields have a fixed
  length.
- **Algebra.** Verification shares are updated by a rotation from deltas alone; the
  interpolation only works for distinct indices and enough of them; thresholds may change
  at a rotation.

`PROJECT.json` lists these as hazards, with the line where each one bites and the
properties that would catch it.

### What makes each part correct

- client: what it returns was approved by a quorum; nonces are used once; it fails only
  for a reason; it returns.
- node: a frozen program is not attested; a migration keeps the program usable under its
  key, loses no session, and never leaves two live versions.
- ceremonies: every quorum holds the key, whatever the history of rotations; the
  verification shares match the secrets.
- FROST: a signature verifies exactly if its shares interpolate; a bad partial signature
  can be attributed.
- WASM executor: a guest's verdict is right, query by query, of states the database really
  had; no execution poisons the mutex; every call returns; the host reads the bytes the
  guest named; native and WASM validator approve the same transaction, or differ for one of
  the known reasons.
- encodings: no two statements have the same bytes, but for transactions whose amounts are
  not finite; the provider's signatures belong to one program, unless a CID begins with
  another.

## 2. Modules

```
Frost ---------- CraftSecNode --+-- AttestClient --+-- MCAttestClient
                       |        |        |         +-- FaultySigners --+-- MCFaultySigners
                       |        |        |         |                   '-- FaultySignersProofs
                       |        |        |         '-- AttestClientProofs (extended by it)
                       |        |        '- INSTANCE ThresholdAttestation
                       |        '-- ProgramMigration --+-- MCProgramMigration
                       |                               '-- ProgramMigrationProofs
                       '- CraftSecNodeProofs (extended by both proof modules)

SigningBytes, MCAttestClient ------ MCAttestLocal ---- SigningBytesProofs
TransferValidator, GuestMemory ---- WasmExecutor --+-- MCWasmExecutor
                                                   '-- WasmExecutorProofs
ScalarField --+-- KeyCeremony ----- FieldSigning ---+-- MCFieldSigning
              '-- ScalarFieldProofs (extended by) --'-- FieldSigningProofs
```

**`Frost`** is FROST with symbolic values: a key share is known by its index, the group
key it is a share of, and the rotation (`epoch`) it belongs to; a nonce by its draw; a
signature by the partial signatures and commitments it was aggregated from. `verify`
spells out when the equation `s*G = R + c*PK` holds for almost every choice of the random
scalars: the partials open exactly the commitments of `R`, were made for the same message
and list, and the shares interpolate.

**`CraftSecNode`** is the node. The handlers that take `&self` (`process_request`,
`sign`, `sign_for_program`) are operators returning what the handler may return; the
operations that take `&mut self` (`register_key`, `freeze_program`, `migrate_program`,
`register`) are actions. `Execute` chooses the verdict freely among an error, a
rejection, and approval of a transaction of `Outputs[r]`, because a validator may read
state of its node that changes between calls; an unknown CID is always an error.
`install_rotated_share` replaces the node's default share (a public field); the code that
would call it after `rotate_shares` is not in the repository. `register_key` is given
shares of the node's own index only, although the code takes any.

**`AttestClient`** is `CraftSecClient::attest` over `LocalTransport`. One step is one
transport call, or the straight code between two: `Begin`, `Round1` (per node: the handler,
the slot, the body of the loop with its `continue` and its `break`), `Collect` (the
threshold test, the unwrap), `Round2` (per signer), `Finish` (aggregate, verify). With
`Networked` the transport stands for any implementation of the trait `NodeTransport`: a call
may be lost on its way to the node or back, and administration happens at any time (each
node then keeps the one slot per node that `LocalTransport` keeps for it). An answer lost
after the node served the call leaves what the node did, a nonce drawn or a signature made,
and the client without it; no transport of the repository loses answers, the trait allows
it. Without `Networked` the client owns the nodes (`LocalTransport.nodes`) and
administration happens between calls. `approvals` and `signed` are history variables, read
by properties only. `P2pTransport` sleeps and delegates, so it is `LocalTransport`.

**`FaultySigners`** adds two actions to the client. In `Round2Faulty` a node of the set
`Faulty`, which approved like any other, answers round 2 with some scalar but the right one
(`Garbled`). In `FinishCompensated` the sum verifies all the same, because the errors in it
cancel: those of two or more culprits, or those of one with the misfit of shares of
different sharings. A lone error among shares that fit never cancels. Fewer nodes are faulty
than the sharing demands (`FaultyNodes`); as many as that hold the key and could sign
anything. What the client does with all this is `AttestClient`, unchanged.

**`ThresholdAttestation`** is the service as its caller sees it: open a call, nodes
approve transactions, and the call fails or returns a transaction a quorum approved. It
knows nothing of rounds, nonces, slots or keys. `AttestClient!ImplementsService` is the
refinement: `call <- request`, `approved <- approvals`, and an outcome computed from `pc`
and `result`.

**`ProgramMigration`** composes the nodes with several requesters that drive them
directly, as the node's own tests do, with `sign_for_program`, while an operator runs
`migrate_program` on one node after the other and installs rotated default shares.

**`TransferValidator`** has both transfer validators as functions: the guest's
`do_attest`, which returns its next query or its verdict, given the answers so far, and
the native `transfer_validator`, which asks no database: its balance is the one the request
states, or 1000. The optional fields of a request are one field that is given, missing or of
another type; the last is a parse error for the guest and a default for the native
validator. **`GuestMemory`** has the packing of pointer and length
and the slice the host takes, in words of `WordSize` values.

**`WasmExecutor`** composes them with the registry: threads inside `setup_database` and
`execute`, the mutex of the databases with poisoning, batches that stop at the statement
that fails, `host_sql_query` in two steps (the query under the mutex; the call into the
guest's allocator, after the guard is dropped), nested when an allocator queries, and
panics that unwind. Opening a new database may fail, and then panics with the mutex held
and poisons it. A guest is the transfer validator, run exactly, or any other guest
that ends: it may query, trap, name any region, return any word. A database is a map from
accounts to balances; `committed` and `seen` are history.

**`SigningBytes`** is byte strings as sequences: `Transaction`, `AttestationReceipt` and
`ExecutionAttestation` `signing_bytes`, the material of `derive_scalar`, and the mock
provider, which takes any text for a CID. A literal is one element; a hash is injective and
of fixed length. A transaction is JSON: three of its nine fields stand for all of them, and
an amount that is not finite is written as `null`. The other modules take messages to be
different values for different contents; this is the module that says why they may.
**`MCAttestLocal`** puts it beside the client: its facts do not depend on a variable, so
they are stated of every step.

**`ScalarField`, `KeyCeremony`, `FieldSigning`** are the algebra that `Frost` takes for
granted, in a prime field small enough for TLC to enumerate every polynomial: sharing,
interpolation, `run_dkg` with every `verify_share`, `derive_key`, `rotate_shares`, and one
signature with honest or altering signers. `lagrange_coefficient` takes a slice of indices,
as in the code, where one that occurs twice counts twice; `coefficient` is its use for the
distinct signers of a session. A point of the curve is its discrete logarithm,
hashes (binding factor, challenge, derived coefficients) are any scalars.

**`MC...`** modules define the values the `.cfg` files give to constants that are
functions or sequences, and the symmetry of sessions. **`...Proofs`** modules hold the
theorems.

## 3. Runs

| run | instance | question |
|---|---|---|
| `attest_local` | 2-of-3, 2 programs, 2 keys, 2 epochs, 1 administrative call, calls begin while fewer than 3 nonces were drawn; texts of up to 2 bytes | the client over `LocalTransport`: type, slots, nonces, quorum, reasons of failure, panics, refinement, and that every call returns; the encodings |
| `attest_hostile` | 3-of-4, 2 epochs, 1 administrative call at any time, lost calls, nodes 1 and 2 faulty, calls begin while fewer than 4 nonces were drawn, a client that believes in 5 nodes | what is left of the client's promises where everything around it goes wrong |
| `migrate_own_key` | 2-of-3, 2 sessions, 3 administrative calls | in-flight sessions survive; one live version at a time; the new one works |
| `wasm_executor` | 2 threads, 3 calls, 3 batches, 2 requests, up to 2 queries of a guest, words of 3 values | mutex, panics, half batches, verdicts, memory regions, and that every call returns; where the two transfer validators differ |
| `field_rotation` | GF(5), 3 participants, all 2-of-3 ceremonies, derivations with threshold 1 and 2, any number of rotations, 1 signature | the algebra |

The other seven runs are expected to end with a counterexample; see *Findings*.

Why the bounds are enough. Two nodes make a quorum and a third one makes quorums that
differ, which is what "different nodes answered this time" needs; with `MaxNonces = 3`
a failed call can be followed by a complete one that finds used, stale and empty slots (a
call draws at most as many nonces as there are nodes, so histories go past that bound; with
four nodes and lost answers it is 4). One
client call touches one request, so two programs are enough to mix up shares. A migration of
three nodes needs three administrative calls. Two faulty nodes of a 3-of-4 deployment are
the fewest that can collude and the most that do not hold the key; with them a quorum has
one culprit or two, before and after the honest signer. In `wasm_executor` three calls are
one batch that sets the database up, and then any two that overlap: two batches, an
execution and a batch, two executions; the batches have the three shapes that matter (the
tests' setup, one that changes both accounts a transfer looks at, one that fails on its last
statement and leaves what the others did). With words of three values a region can be
inside, end at the end, leave the memory, wrap, and wrap to a place before its start. Texts
of up to two bytes let a text end where another goes on, which is all a boundary between two
fields can be about. The proofs take away that bound and all others of the runs. In GF(5) an
accidental solution of an equation is possible, and that is why the algebraic properties are
equivalences that hold for every value, and not statements on "most" values. Sessions are
interchangeable and appear in no constant other than their own set, so symmetry over them is
sound; none of the runs that use it checks a liveness property. `CHECK_DEADLOCK FALSE` is
set throughout: the models stop when a bound is used up, and `AttestReturns` and
`CallsReturn` show that no call stops midway.

The bounds are constants of the modules, or of their instances: `MaxNonces`, `MaxAdmin`,
`MaxEpoch`, `Sessions`, `MaxCalls`, `MaxQueries`, `Calls`, `Batches`, `GuestWrites`,
`Amounts`, `Texts`, `MaxIndex`, `DkgThresholds`, `PdkThresholds`, `RotationThresholds`,
`Draws`, `Errors`.

**Fairness.** `AttestClient!FairSpec` adds `WF_vars(Attesting)`: the thread inside
`attest()` keeps running and each transport call returns. The function is synchronous and
local nodes answer by a function call, so nothing else is needed; `Begin` and the
administration carry no fairness. For a transport that may hang this assumption would be
wrong, and the run that checks `AttestReturns` (`attest_local`) has `Networked = FALSE`.
`WasmExecutor!FairSpec` adds `WF_vars(Step(t))` for each thread: the operating system runs
every thread that can run. A thread that waits for the mutex could be passed over again
and again if the others kept taking it; weak fairness suffices here because the calls of
a behaviour, and the queries of a guest, are finitely many. That a guest ends is assumed:
the engine has neither fuel nor epochs, so a guest that loops keeps its thread (a hazard
that is listed and stays open), and so is that a SQL statement ends, which would keep the
mutex as well.

### Properties

- `SlotHoldsCommittedNonce`, `NonceSignsOnce`: the two facts FROST demands of its
  callers, over all calls of a client.
- `AttestedByThreshold`, `ImplementsService`: what is returned was approved, in this call
  and for this request, by as many nodes as the *key* demands.
- `AttestedByHonestQuorum`: with faulty signers, it was also *signed* by as many nodes, all
  as the protocol demands but the culprits among them, and by one such node at least; a lone
  culprit fails the call (if the shares fit), colluding ones may slip in.
  `FailureHasACulprit`: a verification that fails has a bad partial or
  bad shares behind it, never the client's bookkeeping.
- `VerificationFailsOnlyOnKeys`: the same without faulty signers.
- `InsufficientOnlyAfterAllAsked`, `PanicOnlyOnMisconfiguration`, `AttestReturns`: how
  calls end.
- `InFlightSessionsSurvive`, `OldVersionSuperseded`, `NewVersionAttests`: migration.
- `VerdictFromStates`: each answer a verdict rests on is that of a committed state of the
  database during the call, in order. Not more: the two queries of a transfer may see two
  states, so an approval need not be right of any single one.
- `BootstrapOnce`: repeating a setup that creates its table first changes nothing; so a
  retry never completes a setup that failed half-way.
- `ExecutionsNeverPoison`, `CallsReturn`: no panic of an execution happens under the mutex
  (one of `setup_database` may, when SQLite cannot open a database); nobody waits for ever.
- `RegionsExact`: a slice is the region the guest named, or a panic, although `ptr + len`
  wraps. `ValidatorsAgree`: two approvals of one request are the same transaction. The native
  validator approves alone only if an optional field is of another type, the recipient has
  no account, or the request states more than the sender has; the guest alone only if it
  states less.
- `StatementsKeptApart`, `DerivedKeysKeptApart`, `ProgramsKeptApart`: encodings.
- `QuorumsHoldTheKey`, `VerificationSharesMatch`, `RotationKeepsTheKey`: ceremonies.
- `VerifiesIffSharesInterpolate`: the symbolic `SharesInterpolate` of `Frost` is what the
  equation says. `IdentifiableAbort`: `verify_partial` would name a faulty signer.

Each is violated by a mutant of the model (an operator defined before the one it
replaces, and named after it); the mutants are plausible mistakes in the code they
stand for.

### Findings

| run | what the code does | what is said of it |
|---|---|---|
| `attest_program_key` | `LocalTransport::round2` signs with the default share, so a program whose shares were registered on every node before the call cannot be attested through the client | "key shares, keyed by program CID" (`node/src/node.rs:33`) |
| `attest_diverging_verdicts` | the first node's transaction is signed by nodes that approved another | "nodes must independently validate and sign" (`docs/CRAFTSEC_DESIGN.md:12`) |
| `freeze_mid_session` | only round 1 checks the freeze | "attestation refused for these CIDs" (`node/src/node.rs:39`) |
| `migrate_default_key` | without registered shares the *current default* share is copied; a rotation between two nodes' migrations leaves the new CID with shares of two polynomials, until `migrate_program` is run again at every node | "v2 attestation should work with same key" (`node/src/node.rs:301`) |
| `rotate_lower_threshold` | zero-polynomials of a lower degree leave the old degree in place | "can differ in threshold" (`dkg/src/rotation.rs:31`) |
| `wasm_read_only` | `host_sql_query` runs any statement a guest passes | "read-only during attestation" (`docs/CRAFTSEC_DESIGN.md:256`) |
| `invalid_share_excluded` | one bad partial fails the call, and every retry, although enough honest nodes approve | "Can produce invalid share → detected, excluded" (`docs/CRAFTSEC_DESIGN.md:283`) |

## 4. Proofs

All theorems hold for every value of the constants that the named assumptions of the
modules allow (`ThresholdConfig`, `NodeConstants`, `ClientConstants`, `NoneIsNoResult`,
`NoneIsNoMessage`, `FaultyNodes`, `MigrationConstants`, `ExecutorConstants`, `TransferConstants`,
`MemoryConstants`, `EncodingConstants`, `PrimeOrder`, `CeremonyConstants`,
`SigningConstants`). `CraftSecNodeProofs` has the lemmas about nodes and sequences that
client and migration share.

### `AttestClientProofs`

For every sharing, client configuration, set of programs, keys and requests, and both kinds
of transport:

| theorem | states |
|---|---|
| `TypeCorrect` | `Spec => []TypeOK` |
| `NoNonceReuse` | `Spec => []NonceSignsOnce` |
| `SlotsHoldCommitments` | `Spec => []SlotHoldsCommittedNonce` |
| `OnlyKeysFailVerification` | `Spec => []VerificationFailsOnlyOnKeys` |
| `QuorumApproved` | `Spec => []AttestedByThreshold`, if validators are deterministic |
| `ServiceImplemented` | `Spec => ImplementsService`, if validators are deterministic |
| `NoPanic` | `Spec => []PanicOnlyOnMisconfiguration` |
| `NoEarlyRefusal` | `Spec => []InsufficientOnlyAfterAllAsked` |

Two theorems assume `DeterministicVerdicts`: all approvals of one request name the same
transaction, as both shipped validators' do. Without it `AttestedByThreshold` is false,
which is what `attest_diverging_verdicts` shows.

The argument. None of the properties is inductive by itself.

- `NonceInv` carries the properties of nonces. It says that every nonce in a slot, in a
  commitment or in a partial signature was drawn already (`NoncesDrawn`); that the answers
  of a call come from nodes in ascending order, all behind the loop variable, with
  different nonces (`RespondersInOrder`), so that no later round 1 of the call touches
  their slots; and that a committed nonce whose signer has not been called yet is still in
  its slot and has signed nothing (`UnsentHeld`). A nonce then signs only in the position
  of its commitment, each position is signed once, and the next call draws fresh ones.
- `SignatureInv` adds that the shares of a node keep its index (`AnswersInv`), and that
  each partial signature made so far answers the commitment in its place, for the current
  message and list (`PartialsAnswer`), so `NoncesOpenR` holds at `Finish` and a
  failure of `verify` can only be one of `SharesInterpolate`.
- `ApprovalInv` adds that every entry of `valid_responses` has an approval of the current
  transaction; together with `SharesInterpolate`, which demands `SharingThreshold`
  distinct indices, a verified signature has a quorum of approvers.
- `PollInv`, for a client that owns its nodes: every approval is known to the client, and
  the loop is left only at its end or with enough answers.
- The refinement follows action by action from the same invariants: `Begin` is `Open`,
  `Round1` with a valid verdict is `Approve`, the ends of a call are `Attest` or `Fail`,
  and everything else stutters.

### `FaultySignersProofs`

For any set of faulty nodes with fewer members than the sharing demands, colluding or not,
and all the client's parameters:

| theorem | states |
|---|---|
| `FaultySlots` | `FaultySpec => []SlotHoldsCommittedNonce` |
| `FaultyNonces` | `FaultySpec => []NonceSignsOnce` |
| `CulpritOrKeys` | `FaultySpec => []FailureHasACulprit` |
| `HonestQuorumSigned` | `FaultySpec => []AttestedByHonestQuorum` |
| `ServiceSurvivesFaults` | `FaultySpec => ImplementsService`, if validators are deterministic |

Of the client's invariants only `PartialsAnswer` is lost to a faulty signer, so the lemmas
of `AttestClientProofs` are stated without it (`ClientTypeOK` is `TypeOK` with partials of
any message), and they serve both specifications. What takes its place in `FaultyInv` is
`PartialsPlaced`: whoever sent a partial, it has the index, the nonce and the commitment
list of its place, and it is either garbled, by a faulty signer, or one the signer made for
this message. However a sum came to verify, its signers are distinct (`SignersDiffer`), so
those that are no culprits signed for this message and list and make up the rest of the
quorum, one node at least because the faulty ones are too few (`SignersCounted`). A
failed sum has a garbled partial, or shares that do not interpolate.
That a message is never `None`, the mark of a garbled partial, is the assumption
`NoneIsNoMessage`.

### `ProgramMigrationProofs`

For any number of nodes, sessions and rotations and any threshold:

| theorem | states |
|---|---|
| `MigrationTypeCorrect` | `Spec => []TypeOK` |
| `SessionsSurvive` | `Spec => []InFlightSessionsSurvive` |
| `NewVersionServes` | `Spec => []NewVersionAttests`, if the program has shares of its own |
| `OneLiveVersion` | `Spec => []OldVersionSuperseded` |

`TypeInv` adds to the types that a session goes through its rounds in order. `SigningInv`
says that the old version has its own share at every node for good and the new one has the
same share at exactly the nodes that are migrated (`SharesCopied`), that a session's
partials answer its commitments (`Answers`), and which shares they were made with
(`SignedRight`); `ValidTurnsOnShares` then decides every `Close`. `SupersededInv` says that
once the new version has attested a quorum of nodes is migrated, and that the signers of
every session opened later for the old one are outside such a quorum; two quorums share a
node (`QuorumsMeet`, by cardinality), so that session cannot get enough signers. Without
shares of its own the hypothesis of `NewVersionServes` fails, and so does its conclusion:
`migrate_default_key`.

### `WasmExecutorProofs`

For any threads, databases, batches and requests, and any words and memories:

| theorem | states |
|---|---|
| `ExecutorTypeCorrect` | `Spec => []TypeOK` |
| `RegionsAlwaysExact` | `Spec => RegionsExact` |
| `BatchesBootstrapOnce` | `Spec => BootstrapOnce` |
| `ExecutionsPoisonNothing` | `Spec => ExecutionsNeverPoison` |
| `ValidatorsAlwaysAgree` | `Spec => []ValidatorsAgree` |
| `VerdictsFromStates` | `Spec => VerdictFromStates` |

`ExecInv` is the types, with the mutex at a thread in a batch if anywhere, and a database when
the mutex is held: no guest code runs while a mutex is held, so a panic of an execution
poisons nothing, and `PoisoningStep` is left with the one step that does (`SetupLockCases`).
`BatchInv` relates the database to the last one committed and says how
far a batch has come: one that starts by creating a table fails at once on a database that
has it. `TransferInv` follows one execution of the transfer validator (`Proper`): its
queries are the two it makes, in order, and each answer comes from one of the states
`seen`, at or after the one before. Regions are arithmetic: a 32-bit sum that wraps is smaller than
its first term, and such a slice panics. `ValidatorsAlwaysAgree` is a comparison of the two
functions, case by case, with the answers any database gives.

### `SigningBytesProofs`

For texts and timestamps of any number and length and any hash that is injective and of
fixed length:

| theorem | states |
|---|---|
| `StatementsAlwaysApart` | `Spec => StatementsKeptApart` |
| `DerivedKeysAlwaysApart` | `Spec => DerivedKeysKeptApart` |
| `ProgramsAlwaysApart` | `Spec => ProgramsKeptApart` |

Two concatenations that are equal have equal parts if the first parts, or the second, have
the same length (`FrontFixed`, `BackFixed`). Receipts and attestations are opened from both
ends: a literal in front, fixed lengths behind, and the CID is what is left. The texts of a
transaction end at literals that occur in no text, an amount at one that occurs in no number
(`TextRead`, `AmountRead`). In a derived key two texts of any length follow one another, and
the separator, which occurs in no text, is what tells them apart (`Separated`). In
`sign_as_program` nothing does: of two different CIDs with the same bytes, one begins with
the other (`SameStart`).

### `ScalarFieldProofs` and `FieldSigningProofs`

For every prime order (the code's has 253 bits), every number of participants below it,
every set of thresholds, nonces and errors:

| theorem | states |
|---|---|
| `EvaluationsInterpolate` | `m` or more evaluations of a polynomial with `m` coefficients interpolate to its constant term |
| `CeremonyTypes` | `Spec => []CeremonyTypeOK` |
| `VerificationSharesKept` | `Spec => []VerificationSharesMatch` |
| `RotationsKeepTheKey` | `Spec => RotationKeepsTheKey` |
| `QuorumsKeepTheKey` | `Spec /\ ThresholdNeverLowered => []QuorumsHoldTheKey` |
| `VerifiesForSharesOfTheKey` | `Spec => []VerifiesIffSharesInterpolate` |
| `AbortIsIdentifiable` | `Spec /\ ThresholdNeverLowered => []IdentifiableAbort` |

`ThresholdNeverLowered` says of a behaviour that no ceremony is asked for a threshold below
the last one. `rotate_shares` does not check it, and where it fails `QuorumsHoldTheKey`
fails: that is the finding of `rotate_lower_threshold`. `RotationsKeepTheKey` needs no such
condition: all participants together hold the same secret whatever the thresholds were.

Sums and products are folds over sets, in an order left open, so the algebra is induction
over sets. The library's induction rules cannot be used (they take an operator as a
parameter), but their statements about *sets* can: a set of naturals has a least element
(`LeastNatural`), hence a set with `0` and every successor is `Nat` (`NaturalsReached`), and
a set of subsets of `S` with `{}` and every extension by one element has `S`
(`FiniteSetsReached`). From there:

1. A fold with an operation that commutes may take any element first (`FoldAnyOrder`), so
   `SumStep` and `ProductStep`; then sums of sums, of multiples, and exchanged sums.
2. `Same(x, y)`, equality in the field, is that the order divides `x - y`. The least
   positive multiple of `x` divides the prime order, so everything but 0 has an inverse
   (`InverseExists`), `invert` finds it, and products cancel (`Cancels`).
3. When signer `a` leaves, `(a - i)` times the coefficient of `i` becomes `a` times its
   coefficient among the others (`CoefficientStep`). So interpolating `i * f(i)` is `a` times
   the difference of interpolating `f` with `a` and without (`InterpolateStep`): the
   coefficients sum to 1, and the powers of the indices below the number of signers
   interpolate to the powers of 0 (`PowersInterpolate`). `EvaluationsInterpolate` is the
   linear combination of these.
4. Ceremonies: `CeremonyInv` is the types, `VerificationSharesMatch`, and that every share
   carries its index and the same key (`SharesAgree`). `DealtInterpolates` gives the secret
   of the sharing that several dealers make; a rotation adds one whose secret is 0
   (`RotatedSecret`).
5. Signing: `SessionInv` says that the session is one of the shares as they still are.
   `SignatureEquation` is the equation of the sum: it holds iff the challenge times the
   difference of the two secrets is 0, and a field has no zero divisors. A partial verifies
   iff it is the honest answer (`PartialVerifiesIff`), so if all of a quorum's did, the
   signature would.

### Only model-checked

Liveness (`AttestReturns`, `CallsReturn`). The runs that end with a counterexample prove
nothing but the counterexample.

## 5. What is not modelled

- `add_signature` and `verify_signatures` of receipts: the second only tests that there is a
  signature, the first appends what it is given, and only tests call them. JSON round trips
  are serde's.
- `MultiAttestationRequest`, `MultiAttestationResult` and `ProgramSpec`: data that no code
  processes.
- The command line: its commands print and keep no state. The 2-of-3 deployment `cmd_attest`
  builds is the instance of `attest_local`.
- Guests, and SQL statements, that do not end; guests that share memory with others (each
  execution has an instance of its own).
- Sessions with a repeated signer index, which `attest` makes only over nodes whose shares
  have the same index.
- The SQL of a guest beyond the lookup of one account and one write; several databases,
  which share nothing but the mutex.
- Transport security, signer selection, reputation: in the design document, not in code.
- Probabilities: a collision of random draws or hashes does not happen in `Frost` and
  `SigningBytes`; in the field modules every value happens. Amounts are integers, not
  floating-point numbers.

## 6. Plan

1. `CraftSecNode!Execute` as the abstraction of `WasmExecutor` and the native registry,
   shown by a refinement instead of argued.
2. `Frost!SharesInterpolate` from `EvaluationsInterpolate`: that shares of one sharing and
   one epoch interpolate is proved, that others do not is a matter of probability.
3. A client that calls `verify_partial`, as the specification of what the design document
   promises.
