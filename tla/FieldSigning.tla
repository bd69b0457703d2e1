---------------------------- MODULE FieldSigning ----------------------------
(***************************************************************************)
(* One FROST signature (crates/signing/frost.rs) over the shares of a      *)
(* ceremony, with its scalars: what the symbolic module Frost takes for    *)
(* granted about verify, and what verify_partial says of a signer that     *)
(* alters its partial signature.  A binding factor and the challenge are   *)
(* hashes, hence any scalars; the challenge is the same for every signer   *)
(* and for the verifier, who hash the same R, public key and message.      *)
(***************************************************************************)
EXTENDS KeyCeremony

CONSTANTS
  Draws,   \* bound: [d, e, rho] a signer may end up with: its nonces and binding factor
  Errors   \* bound: what a signer may add to its partial signature

ASSUME SigningConstants ==
  /\ Draws \subseteq [d : Scalars, e : Scalars, rho : Scalars]
  /\ Errors \subseteq Scalars

VARIABLE session  \* the signature made, or <<>>

vars == <<session, ceremony_vars>>

Init == CeremonyInit /\ session = <<>>

----------------------------------------------------------------------------
sign_partial(key_share, nonce, signers, challenge) ==
  (nonce.d + nonce.e * nonce.rho
     + coefficient(key_share.index, signers) * key_share.secret * challenge) % Order

(* Mutant: the binding nonces are left out of R. *)
group_commitment_hiding(nonces) == Sum([i \in DOMAIN nonces |-> nonces[i].d])

group_commitment(nonces) ==
  Sum([i \in DOMAIN nonces |-> nonces[i].d + nonces[i].e * nonces[i].rho])

aggregate(nonces, partials) ==
  [r |-> group_commitment(nonces), s |-> Sum(partials)]

verify(signature, public_key, challenge) ==
  signature.s = (signature.r + public_key * challenge) % Order

(* Mutant: no Lagrange coefficient. *)
verify_partial_unweighted(i, z, nonce, verification_share, signers, challenge) ==
  z = (nonce.d + nonce.e * nonce.rho + verification_share * challenge) % Order

verify_partial(i, z, nonce, verification_share, signers, challenge) ==
  z = (nonce.d + nonce.e * nonce.rho
         + verification_share * ((coefficient(i, signers) * challenge) % Order)) % Order

(* `signers' sign; each adds its error, 0 if honest, to its partial.        *)
Sign(signers) ==
  /\ key_shares # <<>> /\ session = <<>>
  /\ \E nonces \in [signers -> Draws], errors \in [signers -> Errors], challenge \in Scalars :
       LET partials == [i \in signers |->
             (sign_partial(key_shares[i], nonces[i], signers, challenge) + errors[i]) % Order]
       IN  session' = [signers |-> signers, nonces |-> nonces, errors |-> errors,
                       challenge |-> challenge, partials |-> partials,
                       signature |-> aggregate(nonces, partials)]
  /\ UNCHANGED ceremony_vars

Next ==
  \/ session = <<>> /\ CeremonyNext /\ UNCHANGED session
  \/ \E signers \in SUBSET Participants : signers # {} /\ Sign(signers)

Spec == Init /\ [][Next]_vars

----------------------------------------------------------------------------
PublicKey == key_shares[1].group_public_key
Verifies  == verify(session.signature, PublicKey, session.challenge)
Honest(i) == session.errors[i] = 0

PartialVerifies(i, j) ==
  verify_partial(i, session.partials[i], session.nonces[i],
                 key_shares[j].verification_shares[i], session.signers, session.challenge)

(* The signature of honest signers verifies exactly when their shares       *)
(* interpolate to the secret of the key, whatever the nonces and the        *)
(* binding factors; a challenge of 0 is the exception.                      *)
VerifiesIffSharesInterpolate ==
  session # <<>> /\ (\A i \in session.signers : Honest(i)) =>
    (Verifies <=> session.challenge = 0
                    \/ Secret(key_shares, session.signers) = PublicKey)

(* When a quorum's signature does not verify, checking the partials with    *)
(* the verification shares any participant holds names a signer, and only   *)
(* signers that altered theirs ("identifiable abort").                      *)
IdentifiableAbort ==
  session # <<>> /\ session.signers \in Quorums /\ ~Verifies =>
    \A j \in Participants :
      /\ \E i \in session.signers : ~PartialVerifies(i, j)
      /\ \A i \in session.signers : Honest(i) => PartialVerifies(i, j)
=============================================================================
