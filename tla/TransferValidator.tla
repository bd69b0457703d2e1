------------------------- MODULE TransferValidator -------------------------
(***************************************************************************)
(* The two transfer validators of the repository, as functions: do_attest  *)
(* of the WASM guest (src/examples/transfer-validator/src/lib.rs), which   *)
(* asks its node's database twice, and transfer_validator of the native    *)
(* registry (crates/node/src/executor.rs), which never asks a database: it *)
(* takes the balance from the arguments of the request, or 1000.           *)
(*                                                                         *)
(* An amount is an integer for an f64; None is a JSON field that is        *)
(* missing or of another type, and SQL's NULL.  One field stands for the   *)
(* five that are copied to the transaction (seq, prev_hash, asset,         *)
(* timestamp, user_sig): all that matters of it is whether it is given,    *)
(* missing or of another type.                                             *)
(***************************************************************************)
EXTENDS Integers, Sequences

CONSTANTS
  Cids,     \* program CIDs
  Dids,     \* account holders
  Amounts,  \* bound: amounts asked for, and balances
  None

ASSUME TransferConstants ==
  /\ Amounts \subseteq Int
  /\ None \notin Cids /\ None \notin Dids /\ None \notin Amounts \cup {0}

Requests == [program_cid : Cids, requester : Dids, recipient : Dids \cup {None},
             amount : Amounts \cup {None}, balance : Amounts \cup {None},
             optional : {"given", "missing", "mistyped"}]

(* The transaction of either validator is computed from the request alone,  *)
(* optional fields that are not copied by default.                          *)
TransactionOf(r, optional) ==
  [sender |-> r.requester, recipient |-> r.recipient, amount |-> r.amount,
   program_cid |-> r.program_cid, optional |-> optional]

(* Approval by the guest: serde's defaults are for missing fields. *)
Valid(r) ==
  [tag |-> "valid",
   tx  |-> TransactionOf(r, IF r.optional = "missing" THEN "default" ELSE r.optional)]

Invalid(reason) == [tag |-> "invalid", tx |-> reason]
Error           == [tag |-> "error", tx |-> None]

Reasons  == {"parse error", "amount must be positive", "insufficient balance",
             "recipient does not exist"}
Verdicts == {Valid(r) : r \in Requests} \cup {Invalid(reason) : reason \in Reasons}

----------------------------------------------------------------------------
(* rows[0][0] of the answer as a number, or 0.0 *)
Balance(rows) == IF rows = <<>> \/ rows[1] = None THEN 0 ELSE rows[1]

(* The guest asks its database about an account and goes on with the rows.  *)
Ask(did) == [tag |-> "ask", tx |-> did]

(* serde_json cannot make a TransferRequest of it. *)
Unparsable(r) == r.amount = None \/ r.recipient = None \/ r.optional = "mistyped"

(* Mutants: an account may be overdrawn by one; the recipient is looked up  *)
(* in the answer about the sender.                                          *)
do_attest_off_by_one(r, answers) ==
  IF Unparsable(r)                           THEN Invalid("parse error")
  ELSE IF r.amount <= 0                      THEN Invalid("amount must be positive")
  ELSE IF answers = <<>>                     THEN Ask(r.requester)
  ELSE IF r.amount > Balance(answers[1]) + 1 THEN Invalid("insufficient balance")
  ELSE IF Len(answers) = 1                   THEN Ask(r.recipient)
  ELSE IF answers[2] = <<>>                  THEN Invalid("recipient does not exist")
  ELSE Valid(r)

do_attest_first_answer(r, answers) ==
  IF Unparsable(r)                         THEN Invalid("parse error")
  ELSE IF r.amount <= 0                    THEN Invalid("amount must be positive")
  ELSE IF answers = <<>>                   THEN Ask(r.requester)
  ELSE IF r.amount > Balance(answers[1])   THEN Invalid("insufficient balance")
  ELSE IF Len(answers) = 1                 THEN Ask(r.recipient)
  ELSE IF answers[1] = <<>>                THEN Invalid("recipient does not exist")
  ELSE Valid(r)

(* What the guest does next, given the answers to its queries so far. *)
do_attest(r, answers) ==
  IF Unparsable(r)                         THEN Invalid("parse error")
  ELSE IF r.amount <= 0                    THEN Invalid("amount must be positive")
  ELSE IF answers = <<>>                   THEN Ask(r.requester)
  ELSE IF r.amount > Balance(answers[1])   THEN Invalid("insufficient balance")
  ELSE IF Len(answers) = 1                 THEN Ask(r.recipient)
  ELSE IF answers[2] = <<>>                THEN Invalid("recipient does not exist")
  ELSE Valid(r)

(* The native validator: the balance of the arguments, 1000 without one,    *)
(* and defaults for what is missing and for what is of another type.        *)
StatedBalance(r) == IF r.balance = None THEN 1000 ELSE r.balance

NativeValid(r) ==
  [tag |-> "valid",
   tx  |-> TransactionOf(r, IF r.optional = "given" THEN "given" ELSE "default")]

transfer_validator(r) ==
  IF r.recipient = None \/ r.amount = None THEN Error
  ELSE IF r.amount <= 0                    THEN Invalid("amount must be positive")
  ELSE IF r.amount > StatedBalance(r)      THEN Invalid("insufficient balance")
  ELSE NativeValid(r)
=============================================================================
