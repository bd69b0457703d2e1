---------------------------- MODULE KeyCeremony ----------------------------
(***************************************************************************)
(* How key shares come to be and change (crates/dkg): a ceremony of all    *)
(* participants, derivation from a program CID and a seed, and rotation.   *)
(* Each is one function over all the shares, hence one action.  Random     *)
(* scalars and hash outputs are any scalars.                               *)
(***************************************************************************)
EXTENDS ScalarField

CONSTANTS
  Total,              \* n: participants
  DkgThresholds,      \* bound: thresholds given to run_dkg
  PdkThresholds,      \* bound: thresholds given to derive_key
  RotationThresholds  \* bound: thresholds given to rotate_shares

Participants == 1..Total

ASSUME CeremonyConstants ==
  /\ Total \in Nat /\ Total < Order
  /\ DkgThresholds \cup PdkThresholds \cup RotationThresholds \subseteq Participants

VARIABLES
  key_shares,  \* the KeyShare of each participant; <<>> before there are any
  threshold,   \* the threshold last asked for
  failed       \* a ceremony returned an error

ceremony_vars == <<key_shares, threshold, failed>>

KeyShares == [index : Participants, secret : Scalars, group_public_key : Scalars,
              verification_shares : [Participants -> Scalars]]

CeremonyInit == key_shares = <<>> /\ threshold = 0 /\ failed = FALSE

----------------------------------------------------------------------------
(* Mutant: the powers of the index start at 1. *)
verify_share_shifted(index, share, commitments) ==
  share = (index * evaluate(commitments, index)) % Order

(* Feldman: share * G = sum over k of commitments[k] * index^k.             *)
verify_share(index, share, commitments) == share = evaluate(commitments, index)

(* Every receiver checks the share every contributor sent it. *)
AllSharesVerify(polys) ==
  \A j, i \in Participants : verify_share(j, evaluate(polys[i], j), polys[i])

Outcome(new_shares, t, verified) ==
  IF verified THEN key_shares' = new_shares /\ threshold' = t /\ UNCHANGED failed
              ELSE failed' = TRUE /\ UNCHANGED <<key_shares, threshold>>

(* Each share sums what its owner received; the public key sums the         *)
(* constant terms; the verification shares come from the commitments.       *)
run_dkg(t) ==
  /\ key_shares = <<>>
  /\ \E polys \in [Participants -> random_full(t - 1)] :
       LET public_key  == Sum([i \in Participants |-> polys[i][1]])
           verification_shares ==
             [j \in Participants |-> Sum([i \in Participants |-> evaluate(polys[i], j)])]
       IN  Outcome([j \in Participants |->
                      [index |-> j,
                       secret |-> Sum([i \in Participants |-> evaluate(polys[i], j)]),
                       group_public_key |-> public_key,
                       verification_shares |-> verification_shares]],
                   t, AllSharesVerify(polys))

(* One polynomial, its coefficients hashed from the CID and the seed, and   *)
(* nothing to verify.                                                       *)
derive_key(t) ==
  /\ key_shares = <<>>
  /\ \E poly \in random_full(t - 1) :
       Outcome([j \in Participants |->
                  [index |-> j, secret |-> evaluate(poly, j), group_public_key |-> poly[1],
                   verification_shares |-> [k \in Participants |-> evaluate(poly, k)]]],
               t, TRUE)

(* Each participant deals a sharing of zero of the new threshold's degree,  *)
(* which is added to the old shares and to what each old share said of its  *)
(* own verification share; the first share's public key is kept.            *)
rotate_shares(t) ==
  /\ key_shares # <<>>
  /\ \E polys \in [Participants -> random(t - 1, 0)] :
       LET delta == [j \in Participants |->
                       Sum([i \in Participants |-> evaluate(polys[i], j)])]
           verification_shares ==
             [j \in Participants |->
                (key_shares[j].verification_shares[j] + delta[j]) % Order]
       IN  Outcome([j \in Participants |->
                      [index |-> j,
                       secret |-> (key_shares[j].secret + delta[j]) % Order,
                       group_public_key |-> key_shares[1].group_public_key,
                       verification_shares |-> verification_shares]],
                   t, AllSharesVerify(polys))

CeremonyNext ==
  \/ \E t \in DkgThresholds : run_dkg(t)
  \/ \E t \in PdkThresholds : derive_key(t)
  \/ \E t \in RotationThresholds : rotate_shares(t)

----------------------------------------------------------------------------
Secret(shares, signers) ==
  Sum([i \in signers |-> coefficient(i, signers) * shares[i].secret])

Quorums == {signers \in SUBSET Participants : Cardinality(signers) >= threshold}

CeremonyTypeOK ==
  /\ key_shares \in [Participants -> KeyShares] \cup {<<>>}
  /\ threshold \in 0..Total
  /\ failed \in BOOLEAN

(* Every set of `threshold' participants or more holds the secret of the    *)
(* public key that all of them carry, after derivations and rotations.      *)
QuorumsHoldTheKey ==
  key_shares # <<>> =>
    \A signers \in Quorums : \A j \in Participants :
      Secret(key_shares, signers) = key_shares[j].group_public_key

(* What each share says of every other one is right: the verification       *)
(* shares, which a rotation updates from the deltas alone, are the public   *)
(* counterparts of the secrets; and no honest ceremony fails.               *)
VerificationSharesMatch ==
  /\ ~failed
  /\ key_shares # <<>> =>
       \A i, j \in Participants : key_shares[i].verification_shares[j] = key_shares[j].secret

(* A rotation changes neither the public key nor the secret it stands for.  *)
RotationKeepsTheKey ==
  [][key_shares # <<>> =>
       /\ Secret(key_shares', Participants) = Secret(key_shares, Participants)
       /\ \A j \in Participants :
            key_shares'[j].group_public_key = key_shares[j].group_public_key]_ceremony_vars
=============================================================================
