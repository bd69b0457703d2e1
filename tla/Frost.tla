------------------------------- MODULE Frost -------------------------------
(***************************************************************************)
(* The values of the threshold signing protocol (crates/signing/frost.rs)  *)
(* and the key material it works on (crates/core/types.rs), symbolically.  *)
(*                                                                         *)
(* A scalar or a curve point is stood for by its origin.  A KeyShare is    *)
(* the value at `index' of a sharing polynomial; the pair <<key, epoch>>   *)
(* names that polynomial: `key' is its constant term, i.e. the group       *)
(* public key, and `epoch' the rotation it belongs to, because a rotation  *)
(* keeps the constant term and redraws the rest.  A nonce pair (d, e) and  *)
(* its commitment (D, E) determine one another, so one record              *)
(* [index, id] stands for either.  An equation between points is true here *)
(* exactly when it is true for almost every choice of the random scalars   *)
(* and of the hash values.                                                 *)
(***************************************************************************)
EXTENDS Naturals, Sequences, FiniteSets, Functions

CONSTANTS
  SharingThreshold,  \* t of the t-of-n sharings: degree of the polynomial + 1
  SharingTotal       \* n of the t-of-n sharings

(* ThresholdConfig::new refuses every other pair. *)
ASSUME ThresholdConfig ==
  /\ SharingTotal \in Nat
  /\ SharingThreshold \in 1..SharingTotal

----------------------------------------------------------------------------
(* Deterministic JSON of a Transaction: distinct transactions have distinct *)
(* bytes.                                                                   *)
signing_bytes(tx) == [json |-> tx]

(* Round 1.  `id' is the random draw: the caller passes one never drawn.   *)
generate_nonces(index, id) == [index |-> index, id |-> id]

(* Round 2: z = d + e * rho + lambda * secret * challenge.  The nonce, the  *)
(* share and everything rho, lambda and the challenge are computed from.    *)
sign_partial(key_share, nonce, message, commitments) ==
  [index |-> key_share.index, key |-> key_share.key, epoch |-> key_share.epoch,
   nonce |-> nonce.id, message |-> message, commitments |-> commitments]

(* R is computed from the message and the commitments, s sums the partials. *)
aggregate(message, commitments, partials) ==
  [message |-> message, commitments |-> commitments, partials |-> partials]

----------------------------------------------------------------------------
(* The nonce terms of s sum to R: the partials use exactly the committed    *)
(* nonces, each with the binding factor of the index it was committed for.  *)
NoncesOpenR(sig) ==
  /\ Len(sig.partials) = Len(sig.commitments)
  /\ {<<p.index, p.nonce>> : p \in Range(sig.partials)} =
       {<<c.index, c.id>> : c \in Range(sig.commitments)}
  /\ \A p \in Range(sig.partials) :
       p.message = sig.message /\ p.commitments = sig.commitments

(* The Lagrange-weighted shares sum to the secret of public_key: distinct   *)
(* indices, at least degree + 1 of them, on one polynomial with that        *)
(* constant term.  A polynomial of degree 0 is the same in every epoch.     *)
SharesInterpolate(partials, public_key) ==
  /\ \A j, k \in DOMAIN partials : partials[j].index = partials[k].index => j = k
  /\ Len(partials) >= SharingThreshold
  /\ \A j \in DOMAIN partials : partials[j].key = public_key
  /\ SharingThreshold = 1
       \/ \A j, k \in DOMAIN partials : partials[j].epoch = partials[k].epoch

(* s * G = R + H(R, public_key, message) * public_key. *)
verify(sig, public_key, message) ==
  /\ message = sig.message
  /\ NoncesOpenR(sig)
  /\ SharesInterpolate(sig.partials, public_key)
=============================================================================
