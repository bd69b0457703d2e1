---------------------------- MODULE SigningBytes ----------------------------
(***************************************************************************)
(* The byte strings that are signed or hashed: transactions, receipts      *)
(* (crates/core/src/receipt.rs), execution attestations and the provider   *)
(* for compute layers (crates/core/src/attestation.rs), the key material   *)
(* of program-derived keys (crates/dkg/src/pdk.rs).                        *)
(*                                                                         *)
(* Transactions are JSON.  The others are concatenations without lengths   *)
(* or separators, except one, so whether two contents can share their      *)
(* bytes depends on which fields have a fixed length.  The other modules   *)
(* take messages to be distinct for distinct contents; this one checks     *)
(* what that rests on.                                                     *)
(*                                                                         *)
(* A byte string is a sequence.  A literal is one element: what counts is  *)
(* that it has a fixed length and which literals differ.  A hash is        *)
(* injective, as for any two inputs anyone has found.                      *)
(***************************************************************************)
EXTENDS Integers, Sequences

CONSTANTS
  Bytes,       \* bytes of a text; 0xFF and the literals below are not among them
  Texts,       \* bound: DIDs, program CIDs, seeds, messages, inputs and outputs
  Times,       \* timestamps: each the same number of bytes
  Digest,      \* SHA-256 of every text
  Decimal,     \* JSON of every finite amount
  NonFinite,   \* amounts that are infinite or not a number
  MaxIndex     \* bound: index of a polynomial's coefficient

SeparatorByte == "0xFF"
Literals == {SeparatorByte, "CraftSEC-Receipt-v1", "CraftSEC-ExecAttest-v1", "{",
             "recipient", "amount", "asset", "null", "CraftSEC-PDK-v1", "coefficient",
             "CraftSEC-PDK-mock", "CraftSEC-ProgramSig-mock", "mock-secret"}

ASSUME EncodingConstants ==
  /\ Bytes \cap Literals = {}
  /\ Texts \subseteq Seq(Bytes)
  /\ Times \subseteq Seq(Bytes) /\ \A s, t \in Times : Len(s) = Len(t)
  /\ DOMAIN Digest = Texts
  /\ \A d \in Texts : Digest[d] \in Seq(Bytes)
  /\ \A d, e \in Texts : Len(Digest[d]) = Len(Digest[e]) /\ (Digest[d] = Digest[e] => d = e)
  /\ \A a \in DOMAIN Decimal : Decimal[a] \in Seq(Bytes)
  /\ \A a, b \in DOMAIN Decimal : Decimal[a] = Decimal[b] => a = b
  /\ NonFinite \cap DOMAIN Decimal = {}
  /\ MaxIndex \in Nat

(* Three of the nine fields of a Transaction; the others are texts and      *)
(* integers like these.                                                     *)
TransactionFields ==
  [sender : Texts, recipient : Texts, amount : DOMAIN Decimal \cup NonFinite]

(* What a receipt or an execution attestation is about. *)
Contents == [program_cid : Texts, input : Texts, output : Texts, timestamp : Times]

(* hex::encode: two characters for every byte, which determine it. *)
Hex(bytes) == bytes \o bytes

(* AttestationReceipt::new, then signing_bytes. *)
receipt_bytes(c) ==
  <<"CraftSEC-Receipt-v1">> \o
    (c.program_cid \o (Hex(Digest[c.input]) \o (Hex(Digest[c.output]) \o c.timestamp)))

execution_bytes(c) ==
  <<"CraftSEC-ExecAttest-v1">> \o
    (c.program_cid \o (Digest[c.input] \o (Digest[c.output] \o c.timestamp)))

(* serde_json writes null for a number that is not finite. *)
json_amount(a) == IF a \in NonFinite THEN <<"null">> ELSE Decimal[a]

(* Mutant: the fields run into each other. *)
transaction_bytes_joined(tx) ==
  <<"{">> \o (tx.sender \o (tx.recipient \o (json_amount(tx.amount) \o <<"asset">>)))

(* Transaction::signing_bytes: JSON, field after field.  The literal that   *)
(* ends a field begins with a quote or a comma, which an escaped text or a  *)
(* number does not contain.                                                 *)
transaction_bytes(tx) ==
  <<"{">> \o
    (tx.sender \o (<<"recipient">> \o
      (tx.recipient \o (<<"amount">> \o
        (json_amount(tx.amount) \o <<"asset">>)))))

(* The same but for amounts that are both written as null; attest() signs   *)
(* none, because the validators read their amounts from JSON.               *)
TransactionsDistinct ==
  \A tx, ty \in TransactionFields : transaction_bytes(tx) = transaction_bytes(ty) =>
    /\ tx.sender = ty.sender /\ tx.recipient = ty.recipient
    /\ tx.amount = ty.amount \/ {tx.amount, ty.amount} \subseteq NonFinite

ReceiptsDistinct ==
  \A c, d \in Contents : receipt_bytes(c) = receipt_bytes(d) => c = d

ExecutionsDistinct ==
  \A c, d \in Contents : execution_bytes(c) = execution_bytes(d) => c = d

KindsDistinct ==
  LET receipts     == {receipt_bytes(c) : c \in Contents}
      executions   == {execution_bytes(c) : c \in Contents}
      transactions == {transaction_bytes(tx) : tx \in TransactionFields}
  IN  /\ receipts \cap executions = {}
      /\ transactions \cap (receipts \cup executions) = {}

(* A signature over one statement is a signature over no other: neither     *)
(* over other contents, but for two transactions whose amounts are null,    *)
(* nor over contents of another kind.                                       *)
StatementsDistinct ==
  TransactionsDistinct /\ ReceiptsDistinct /\ ExecutionsDistinct /\ KindsDistinct

----------------------------------------------------------------------------
(* Mutant: no separator. *)
coefficient_bytes_joined(cid, seed, k) ==
  <<"CraftSEC-PDK-v1">> \o (cid \o (seed \o <<"coefficient", k>>))

(* What derive_scalar hashes for coefficient k of derive_key(cid, seed):    *)
(* the threshold is not part of it.                                         *)
coefficient_bytes(cid, seed, k) ==
  <<"CraftSEC-PDK-v1">> \o
    (cid \o (<<SeparatorByte>> \o (seed \o <<"coefficient", k>>)))

(* Every program and seed has a polynomial of its own, with independent     *)
(* coefficients.                                                            *)
DerivedKeysDistinct ==
  \A cid_c, cid_d, seed_c, seed_d \in Texts, k, l \in 0..MaxIndex :
    coefficient_bytes(cid_c, seed_c, k) = coefficient_bytes(cid_d, seed_d, l) =>
      cid_c = cid_d /\ seed_c = seed_d /\ k = l

----------------------------------------------------------------------------
(* The mock provider, which takes any text for a CID: each result is a      *)
(* hash, stood for by what is hashed.                                       *)
derive_program_key(cid) == <<"CraftSEC-PDK-mock">> \o cid

(* Mutant: every program signs alike. *)
sign_as_program_without_cid(cid, text) == <<"CraftSEC-ProgramSig-mock">> \o text

sign_as_program(cid, text) == <<"CraftSEC-ProgramSig-mock">> \o (cid \o text)

attest_execution(c) == execution_bytes(c) \o <<"mock-secret">>

Begins(s, t) == Len(s) <= Len(t) /\ \A k \in 1..Len(s) : s[k] = t[k]

(* The CID runs into the message, so the signatures of two programs can     *)
(* coincide if the CID of one begins with that of the other, only then.     *)
ProgramSignaturesDistinct ==
  \A p, q, s, t \in Texts :
    sign_as_program(p, s) = sign_as_program(q, t) =>
      \/ p = q /\ s = t
      \/ p # q /\ (Begins(p, q) \/ Begins(q, p))

ProgramKeysDistinct ==
  \A p, q, t \in Texts :
    /\ derive_program_key(p) = derive_program_key(q) => p = q
    /\ derive_program_key(p) # sign_as_program(q, t)

AttestationsDistinct ==
  \A c, d \in Contents : attest_execution(c) = attest_execution(d) => c = d

(* The provider's keys belong to one program, its attestations to one       *)
(* execution, and its signatures to one program and message unless one CID  *)
(* begins with another.                                                     *)
ProviderDistinguishesPrograms ==
  ProgramSignaturesDistinct /\ ProgramKeysDistinct /\ AttestationsDistinct
=============================================================================
