------------------------- MODULE FieldSigningProofs -------------------------
(***************************************************************************)
(* Proofs about KeyCeremony and FieldSigning, for every prime order, every *)
(* number of participants below it and every set of thresholds.            *)
(***************************************************************************)
EXTENDS FieldSigning, ScalarFieldProofs

LEMMA ParticipantsAreIndices ==
  /\ Participants \subseteq Indices
  /\ IsFiniteSet(Participants) /\ Cardinality(Participants) = Total
  /\ \A t \in Participants : t \in Nat /\ t >= 1 /\ t <= Total
  <1>1. Total \in Nat /\ Total < Order
    BY CeremonyConstants
  <1>2. 1 \in Int /\ Total \in Int
    BY <1>1
  <1>3. Participants \subseteq Indices
    BY <1>1, OrderType DEF Participants, Indices
  <1>4. IsFiniteSet(Participants)
    BY <1>2, FS_Interval DEF Participants
  <1>5. Cardinality(Participants) = Total
    <2>1. Cardinality(1..Total) = IF 1 > Total THEN 0 ELSE Total - 1 + 1
      BY <1>2, FS_Interval
    <2> QED
      BY <1>1, <2>1 DEF Participants
  <1>6. \A t \in Participants : t \in Nat /\ t >= 1 /\ t <= Total
    BY <1>1 DEF Participants
  <1> QED
    BY <1>3, <1>4, <1>5, <1>6

LEMMA RandomPolynomials ==
  ASSUME NEW t \in Participants
  PROVE  /\ random_full(t - 1) = [1..t -> Scalars]
         /\ 1 \in 1..t /\ 1 \in Participants
  <1>1. t \in Nat /\ t >= 1 /\ t <= Total
    BY ParticipantsAreIndices
  <1>2. (t - 1) + 1 = t
    BY <1>1
  <1> QED
    BY <1>1, <1>2, CeremonyConstants DEF random_full, Participants

----------------------------------------------------------------------------
(* What participant j is dealt.                                             *)
Dealt(polys, j) == Sum([i \in Participants |-> evaluate(polys[i], j)])

LEMMA DealtIs ==
  ASSUME NEW t \in Participants, NEW polys \in [Participants -> [1..t -> Scalars]],
         NEW j \in Participants
  PROVE  /\ \A i \in Participants : evaluate(polys[i], j) \in Scalars
         /\ Dealt(polys, j) \in Scalars /\ Dealt(polys, j) \in Int
         /\ SumOver([i \in Participants |-> evaluate(polys[i], j)], Participants) \in Int
         /\ Same(Dealt(polys, j),
                 SumOver([i \in Participants |-> evaluate(polys[i], j)], Participants))
  <1> DEFINE f == [i \in Participants |-> evaluate(polys[i], j)]
  <1>1. \A i \in Participants : evaluate(polys[i], j) \in Scalars /\ evaluate(polys[i], j) \in Int
    <2>1. t \in Nat /\ j \in Int
      BY ParticipantsAreIndices
    <2> QED
      BY <2>1, EvaluateIs
  <1>2. \A i \in Participants : f[i] \in Int
    BY <1>1
  <1>3. DOMAIN f = Participants
    OBVIOUS
  <1>4. Dealt(polys, j) = Sum(f)
    BY DEF Dealt
  <1> HIDE DEF f
  <1>5. SumOver(f, Participants) \in Int
    BY <1>2, ParticipantsAreIndices, SumStep
  <1>6. Dealt(polys, j) = SumOver(f, Participants) % Order
    BY <1>3, <1>4, SumIs
  <1> QED
    BY <1>1, <1>5, <1>6, Remainder DEF f

(* What a quorum is dealt interpolates to the sum of the constant terms.    *)
LEMMA DealtInterpolates ==
  ASSUME NEW t \in Participants, NEW polys \in [Participants -> [1..t -> Scalars]],
         NEW S \in SUBSET Participants, Cardinality(S) >= t,
         NEW d, \A j \in S : d[j] = Dealt(polys, j)
  PROVE  Same(Interpolate(d, S), SumOver([i \in Participants |-> polys[i][1]], Participants))
  <1> DEFINE a == [j \in S |-> [i \in Participants |-> evaluate(polys[i], j)]]
             v == [j \in S |-> SumOver(a[j], Participants)]
             column(i) == [j \in S |-> a[j][i]]
             columns == [i \in Participants |-> Interpolate(column(i), S)]
             constants == [i \in Participants |-> polys[i][1]]
  <1>1. S \in SUBSET Indices
    BY ParticipantsAreIndices
  <1>2. \A j \in S : d[j] \in Int /\ v[j] \in Int /\ Same(d[j], v[j])
    BY DealtIs
  <1>3. \A j \in S : \A i \in Participants : a[j][i] \in Int
    BY DealtIs, ScalarRemainder
  <1>4. Same(Interpolate(d, S), Interpolate(v, S))
    BY <1>1, <1>2, InterpolateSame
  <1>5. Interpolate(v, S) = SumOver(columns, Participants)
    <2> HIDE DEF a
    <2> QED
      BY <1>1, <1>3, ParticipantsAreIndices, InterpolateSum
  <1>6. ASSUME NEW i \in Participants
        PROVE  columns[i] \in Int /\ constants[i] \in Int /\ Same(columns[i], constants[i])
    <2> DEFINE c == column(i)
               poly == polys[i]
    <2>1. \A j \in S : c[j] = evaluate(poly, j) /\ c[j] \in Int
      BY <1>3
    <2>2. columns[i] = Interpolate(c, S) /\ constants[i] = poly[1]
      OBVIOUS
    <2>3. poly \in [1..t -> Scalars] /\ t \in Nat /\ t >= 1 /\ 1 \in 1..t
      BY ParticipantsAreIndices
    <2>4. poly[1] \in Int
      BY <2>3, ScalarRemainder
    <2> HIDE DEF c, poly, columns, constants
    <2>5. Interpolate(c, S) \in Int
      BY <1>1, <2>1, TermsType
    <2>6. Same(Interpolate(c, S), poly[1])
      BY <1>1, <2>1, <2>3, EvaluationsInterpolate
    <2> QED
      BY <2>2, <2>4, <2>5, <2>6
  <1> HIDE DEF columns, constants
  <1>7. Same(SumOver(columns, Participants), SumOver(constants, Participants))
    BY <1>6, ParticipantsAreIndices, SumsSame
  <1>8. SumOver(columns, Participants) \in Int /\ SumOver(constants, Participants) \in Int
    BY <1>6, ParticipantsAreIndices, SumStep
  <1>9. Interpolate(d, S) \in Int
    BY <1>1, <1>2, TermsType
  <1> QED
    BY <1>4, <1>5, <1>7, <1>8, <1>9, SameChain DEF constants

----------------------------------------------------------------------------
(* What each ceremony leaves behind.                                        *)
DealtShares(polys) ==
  [j \in Participants |->
     [index |-> j, secret |-> Dealt(polys, j),
      group_public_key |-> Sum([i \in Participants |-> polys[i][1]]),
      verification_shares |-> [k \in Participants |-> Dealt(polys, k)]]]

DerivedShares(poly) ==
  [j \in Participants |->
     [index |-> j, secret |-> evaluate(poly, j), group_public_key |-> poly[1],
      verification_shares |-> [k \in Participants |-> evaluate(poly, k)]]]

RotatedShares(polys) ==
  [j \in Participants |->
     [index |-> j, secret |-> (key_shares[j].secret + Dealt(polys, j)) % Order,
      group_public_key |-> key_shares[1].group_public_key,
      verification_shares |->
        [k \in Participants |->
           (key_shares[k].verification_shares[k] + Dealt(polys, k)) % Order]]]

(* Honest shares verify: no ceremony fails.                                 *)
LEMMA DkgShares ==
  ASSUME NEW t \in DkgThresholds, run_dkg(t)
  PROVE  /\ key_shares = <<>> /\ threshold' = t /\ failed' = failed
         /\ \E polys \in [Participants -> [1..t -> Scalars]] : key_shares' = DealtShares(polys)
  <1>1. t \in Participants
    BY CeremonyConstants
  <1>2. PICK polys \in [Participants -> random_full(t - 1)] :
          Outcome(DealtShares(polys), t, AllSharesVerify(polys))
    BY DEF run_dkg, DealtShares, Dealt
  <1>3. AllSharesVerify(polys)
    BY DEF AllSharesVerify, verify_share
  <1>4. polys \in [Participants -> [1..t -> Scalars]]
    BY <1>1, RandomPolynomials
  <1>5. key_shares' = DealtShares(polys) /\ threshold' = t /\ failed' = failed
    BY <1>2, <1>3 DEF Outcome
  <1> QED
    BY <1>4, <1>5 DEF run_dkg

LEMMA PdkShares ==
  ASSUME NEW t \in PdkThresholds, derive_key(t)
  PROVE  /\ key_shares = <<>> /\ threshold' = t /\ failed' = failed
         /\ \E poly \in [1..t -> Scalars] : key_shares' = DerivedShares(poly)
  <1>1. t \in Participants
    BY CeremonyConstants
  <1>2. PICK poly \in random_full(t - 1) : Outcome(DerivedShares(poly), t, TRUE)
    BY DEF derive_key, DerivedShares
  <1>3. poly \in [1..t -> Scalars]
    BY <1>1, RandomPolynomials
  <1> QED
    BY <1>2, <1>3 DEF derive_key, Outcome

LEMMA RotationShares ==
  ASSUME NEW t \in RotationThresholds, rotate_shares(t)
  PROVE  /\ key_shares # <<>> /\ threshold' = t /\ failed' = failed
         /\ \E polys \in [Participants -> [1..t -> Scalars]] :
              /\ \A i \in Participants : polys[i][1] = 0
              /\ key_shares' = RotatedShares(polys)
  <1>1. t \in Participants
    BY CeremonyConstants
  <1>2. PICK polys \in [Participants -> random(t - 1, 0)] :
          Outcome(RotatedShares(polys), t, AllSharesVerify(polys))
    BY Zenon DEF rotate_shares, RotatedShares, Dealt
  <1>3. AllSharesVerify(polys)
    BY DEF AllSharesVerify, verify_share
  <1>4. /\ polys \in [Participants -> [1..t -> Scalars]]
        /\ \A i \in Participants : polys[i][1] = 0
    BY <1>1, RandomPolynomials DEF random
  <1>5. key_shares' = RotatedShares(polys) /\ threshold' = t /\ failed' = failed
    BY <1>2, <1>3 DEF Outcome
  <1> QED
    BY <1>4, <1>5 DEF rotate_shares

(* The ceremonies' inductive invariant: the type, what every share says of  *)
(* the others, the index each one carries and the one key they all carry.   *)
SharesAgree ==
  key_shares # <<>> =>
    \A j \in Participants : /\ key_shares[j].index = j
                           /\ key_shares[j].group_public_key = key_shares[1].group_public_key

CeremonyInv == CeremonyTypeOK /\ VerificationSharesMatch /\ SharesAgree

LEMMA CeremonyStep ==
  ASSUME CeremonyInv, [CeremonyNext]_ceremony_vars
  PROVE  CeremonyInv'
  <1> USE DEF CeremonyInv, CeremonyTypeOK, VerificationSharesMatch, SharesAgree
  <1>1. Participants \subseteq 0..Total
    BY ParticipantsAreIndices DEF Participants
  <1>2. ASSUME NEW t \in DkgThresholds, run_dkg(t) PROVE CeremonyInv'
    <2>1. t \in Participants /\ 1 \in Participants
      BY CeremonyConstants, RandomPolynomials
    <2>2. PICK polys \in [Participants -> [1..t -> Scalars]] : key_shares' = DealtShares(polys)
      BY <1>2, DkgShares
    <2>3. \A j \in Participants : Dealt(polys, j) \in Scalars
      BY <2>1, DealtIs
    <2>4. Sum([i \in Participants |-> polys[i][1]]) \in Scalars
      <3> DEFINE f == [i \in Participants |-> polys[i][1]]
      <3>1. \A i \in Participants : f[i] \in Int
        BY <2>1, RandomPolynomials, ScalarRemainder
      <3>2. DOMAIN f = Participants
        OBVIOUS
      <3> HIDE DEF f
      <3>3. SumOver(f, Participants) \in Int /\ Sum(f) = SumOver(f, Participants) % Order
        BY <3>1, <3>2, ParticipantsAreIndices, SumStep, SumIs
      <3> QED
        BY <3>3, Remainder DEF f
    <2>5. key_shares' \in [Participants -> KeyShares]
      BY <2>2, <2>3, <2>4 DEF DealtShares, KeyShares
    <2>6. threshold' = t /\ failed' = failed
      BY <1>2, DkgShares
    <2>7. \A i, j \in Participants :
            key_shares'[i].verification_shares[j] = key_shares'[j].secret
      BY <2>2 DEF DealtShares
    <2>8. \A j \in Participants :
            /\ key_shares'[j].index = j
            /\ key_shares'[j].group_public_key = key_shares'[1].group_public_key
      BY <2>1, <2>2 DEF DealtShares
    <2> QED
      BY <1>1, <2>1, <2>5, <2>6, <2>7, <2>8
  <1>3. ASSUME NEW t \in PdkThresholds, derive_key(t) PROVE CeremonyInv'
    <2>1. t \in Participants /\ 1 \in Participants /\ 1 \in 1..t
      BY CeremonyConstants, RandomPolynomials
    <2>2. PICK poly \in [1..t -> Scalars] : key_shares' = DerivedShares(poly)
      BY <1>3, PdkShares
    <2>3. \A j \in Participants : evaluate(poly, j) \in Scalars
      BY <2>1, EvaluateIs, ParticipantsAreIndices
    <2>4. poly[1] \in Scalars
      BY <2>1
    <2>5. key_shares' \in [Participants -> KeyShares]
      BY <2>2, <2>3, <2>4 DEF DerivedShares, KeyShares
    <2>6. threshold' = t /\ failed' = failed
      BY <1>3, PdkShares
    <2>7. \A i, j \in Participants :
            key_shares'[i].verification_shares[j] = key_shares'[j].secret
      BY <2>2 DEF DerivedShares
    <2>8. \A j \in Participants :
            /\ key_shares'[j].index = j
            /\ key_shares'[j].group_public_key = key_shares'[1].group_public_key
      BY <2>1, <2>2 DEF DerivedShares
    <2> QED
      BY <1>1, <2>1, <2>5, <2>6, <2>7, <2>8
  <1>4. ASSUME NEW t \in RotationThresholds, rotate_shares(t) PROVE CeremonyInv'
    <2>1. t \in Participants /\ 1 \in Participants
      BY CeremonyConstants, RandomPolynomials
    <2>2. PICK polys \in [Participants -> [1..t -> Scalars]] : key_shares' = RotatedShares(polys)
      BY <1>4, RotationShares
    <2>3. key_shares \in [Participants -> KeyShares]
      BY <1>4, RotationShares
    <2> DEFINE new(j) == (key_shares[j].secret + Dealt(polys, j)) % Order
    <2>4. \A j \in Participants : new(j) \in Scalars
      <3> SUFFICES ASSUME NEW j \in Participants PROVE new(j) \in Scalars
        OBVIOUS
      <3>1. key_shares[j].secret \in Int /\ Dealt(polys, j) \in Int
        BY <2>1, <2>3, DealtIs, ScalarRemainder DEF KeyShares
      <3>2. key_shares[j].secret + Dealt(polys, j) \in Int
        BY <3>1
      <3> QED
        BY <3>2, Remainder
    <2>5. \A j \in Participants :
            (key_shares[j].verification_shares[j] + Dealt(polys, j)) % Order = new(j)
      BY <1>4, RotationShares
    <2> HIDE DEF new
    <2>6. key_shares' =
            [j \in Participants |->
               [index |-> j, secret |-> new(j),
                group_public_key |-> key_shares[1].group_public_key,
                verification_shares |-> [k \in Participants |-> new(k)]]]
      BY <2>2, <2>5 DEF RotatedShares, new
    <2>7. key_shares' \in [Participants -> KeyShares]
      BY <2>1, <2>3, <2>4, <2>6 DEF KeyShares
    <2>8. threshold' = t /\ failed' = failed
      BY <1>4, RotationShares
    <2>9. \A i, j \in Participants :
            key_shares'[i].verification_shares[j] = key_shares'[j].secret
      BY <2>6
    <2>10. \A j \in Participants :
            /\ key_shares'[j].index = j
            /\ key_shares'[j].group_public_key = key_shares'[1].group_public_key
      BY <2>1, <2>6
    <2> QED
      BY <1>1, <2>1, <2>7, <2>8, <2>9, <2>10
  <1>5. CASE UNCHANGED ceremony_vars
    BY <1>5 DEF ceremony_vars
  <1> QED
    BY <1>2, <1>3, <1>4, <1>5 DEF CeremonyNext

LEMMA NextCeremony ==
  [Next]_vars => [CeremonyNext]_ceremony_vars
  BY DEF Next, Sign, vars, ceremony_vars

LEMMA CeremonyInvariant == Spec => []CeremonyInv
  <1>1. Init => CeremonyInv
    <2> SUFFICES ASSUME Init PROVE CeremonyInv
      OBVIOUS
    <2>1. 0 \in 0..Total
      BY CeremonyConstants
    <2> QED
      BY <2>1 DEF Init, CeremonyInit, CeremonyInv, CeremonyTypeOK, VerificationSharesMatch,
                  SharesAgree
  <1>2. CeremonyInv /\ [Next]_vars => CeremonyInv'
    BY CeremonyStep, NextCeremony
  <1> QED
    BY <1>1, <1>2, PTL DEF Spec

(* The shares, the threshold and the failure flag are well formed, whatever *)
(* ceremonies run and whatever they draw.                                   *)
THEOREM CeremonyTypes == Spec => []CeremonyTypeOK
  <1>1. CeremonyInv => CeremonyTypeOK
    BY DEF CeremonyInv
  <1> QED
    BY <1>1, CeremonyInvariant, PTL

(* Feldman verification never refuses an honest dealer, and after any       *)
(* number of rotations, which update the verification shares from the       *)
(* deltas alone, they are still those of the secrets.                       *)
THEOREM VerificationSharesKept == Spec => []VerificationSharesMatch
  <1>1. CeremonyInv => VerificationSharesMatch
    BY DEF CeremonyInv
  <1> QED
    BY <1>1, CeremonyInvariant, PTL

----------------------------------------------------------------------------
(* The secret that signers hold.                                            *)
LEMMA SecretIs ==
  ASSUME NEW S \in SUBSET Participants, NEW shares, NEW x,
         \A i \in S : shares[i].secret = x[i] /\ x[i] \in Int
  PROVE  /\ Secret(shares, S) \in Scalars
         /\ Interpolate(x, S) \in Int
         /\ Same(Secret(shares, S), Interpolate(x, S))
  <1> DEFINE f == [i \in S |-> coefficient(i, S) * shares[i].secret]
  <1>1. S \in SUBSET Indices
    BY ParticipantsAreIndices
  <1>2. f = Terms(x, S)
    BY DEF Terms
  <1>3. Interpolate(x, S) \in Int
    BY <1>1, TermsType
  <1>4. Secret(shares, S) = SumOver(f, DOMAIN f) % Order
    BY SumIs DEF Secret
  <1>5. Secret(shares, S) = Interpolate(x, S) % Order
    BY <1>2, <1>4 DEF Interpolate
  <1> QED
    BY <1>3, <1>5, Remainder

LEMMA DealtSecret ==
  ASSUME NEW t \in Participants, NEW polys \in [Participants -> [1..t -> Scalars]],
         NEW S \in SUBSET Participants, Cardinality(S) >= t
  PROVE  Secret(DealtShares(polys), S) = Sum([i \in Participants |-> polys[i][1]])
  <1> DEFINE x == [i \in S |-> Dealt(polys, i)]
             constants == [i \in Participants |-> polys[i][1]]
  <1>1. \A i \in S : DealtShares(polys)[i].secret = x[i] /\ x[i] \in Int
    BY DealtIs DEF DealtShares
  <1>2. Same(Interpolate(x, S), SumOver(constants, Participants))
    BY DealtInterpolates
  <1>3. \A i \in Participants : constants[i] \in Int
    BY RandomPolynomials, ScalarRemainder
  <1>4. DOMAIN constants = Participants
    OBVIOUS
  <1> HIDE DEF x, constants
  <1>5. /\ Secret(DealtShares(polys), S) \in Scalars
        /\ Interpolate(x, S) \in Int
        /\ Same(Secret(DealtShares(polys), S), Interpolate(x, S))
    BY <1>1, SecretIs
  <1>6. SumOver(constants, Participants) \in Int
    BY <1>3, ParticipantsAreIndices, SumStep
  <1>7. Sum(constants) = SumOver(constants, Participants) % Order
    BY <1>4, SumIs
  <1>8. Same(Secret(DealtShares(polys), S), SumOver(constants, Participants))
    BY <1>2, <1>5, <1>6, ScalarRemainder, SameChain
  <1> QED
    BY <1>5, <1>6, <1>7, <1>8, ScalarRemainder, SameRemainders DEF constants

LEMMA DerivedSecret ==
  ASSUME NEW t \in Participants, NEW poly \in [1..t -> Scalars],
         NEW S \in SUBSET Participants, Cardinality(S) >= t
  PROVE  Secret(DerivedShares(poly), S) = poly[1]
  <1> DEFINE x == [i \in S |-> evaluate(poly, i)]
  <1>1. t \in Nat /\ t >= 1 /\ 1 \in 1..t /\ S \in SUBSET Indices
    BY ParticipantsAreIndices
  <1>2. \A i \in S : DerivedShares(poly)[i].secret = x[i] /\ x[i] \in Int
    BY <1>1, ParticipantsAreIndices, EvaluateIs DEF DerivedShares
  <1>3. Same(Interpolate(x, S), poly[1])
    BY <1>1, EvaluationsInterpolate
  <1> HIDE DEF x
  <1>4. /\ Secret(DerivedShares(poly), S) \in Scalars
        /\ Interpolate(x, S) \in Int
        /\ Same(Secret(DerivedShares(poly), S), Interpolate(x, S))
    BY <1>2, SecretIs
  <1>5. poly[1] \in Scalars /\ poly[1] \in Int
    BY <1>1, ScalarRemainder
  <1> QED
    BY <1>3, <1>4, <1>5, ScalarRemainder, SameChain, SameScalars

(* A rotation keeps the secret of every set of signers that is a quorum for *)
(* the new threshold.                                                       *)
LEMMA RotatedSecret ==
  ASSUME CeremonyTypeOK, key_shares # <<>>,
         NEW t \in Participants, NEW polys \in [Participants -> [1..t -> Scalars]],
         \A i \in Participants : polys[i][1] = 0,
         NEW S \in SUBSET Participants, Cardinality(S) >= t
  PROVE  Secret(RotatedShares(polys), S) = Secret(key_shares, S)
  <1> DEFINE x == [i \in S |-> key_shares[i].secret]
             d == [i \in S |-> Dealt(polys, i)]
             y == [i \in S |-> x[i] + d[i]]
             z == [i \in S |-> y[i] % Order]
             constants == [i \in Participants |-> polys[i][1]]
  <1>1. \A i \in S : x[i] \in Int /\ x[i] = key_shares[i].secret
    BY ScalarRemainder DEF CeremonyTypeOK, KeyShares
  <1>2. \A i \in S : d[i] \in Int
    BY DealtIs
  <1>3. \A i \in S : y[i] \in Int /\ z[i] \in Int /\ Same(z[i], y[i])
    BY <1>1, <1>2, Remainder
  <1>4. \A i \in S : RotatedShares(polys)[i].secret = z[i]
    BY DEF RotatedShares
  <1>5. \A i \in S : y[i] = x[i] + d[i]
    OBVIOUS
  <1>6. Same(Interpolate(d, S), 0)
    <2>1. Same(Interpolate(d, S), SumOver(constants, Participants))
      BY DealtInterpolates
    <2>2. \A i \in Participants : constants[i] = 0
      OBVIOUS
    <2> HIDE DEF constants
    <2>3. SumOver(constants, Participants) = 0
      BY <2>2, ParticipantsAreIndices, SumOfZeros
    <2> QED
      BY <2>1, <2>3
  <1> HIDE DEF x, d, y, z
  <1>7. S \in SUBSET Indices
    BY ParticipantsAreIndices
  <1> DEFINE X == Interpolate(x, S)
             D == Interpolate(d, S)
             Y == Interpolate(y, S)
             Z == Interpolate(z, S)
             old == Secret(key_shares, S)
             new == Secret(RotatedShares(polys), S)
  <1>8. X \in Int /\ D \in Int /\ Y \in Int /\ Z \in Int
    BY <1>1, <1>2, <1>3, <1>7, TermsType
  <1>9. Y = X + D
    BY <1>1, <1>2, <1>5, <1>7, InterpolatePlus
  <1>10. Same(Z, Y)
    BY <1>3, <1>7, InterpolateSame
  <1>11. old \in Scalars /\ Same(old, X)
    BY <1>1, SecretIs
  <1>12. new \in Scalars /\ Same(new, Z)
    BY <1>3, <1>4, SecretIs
  <1> HIDE DEF X, D, Y, Z, old, new
  <1>13. Same(Y, X)
    <2>1. D - 0 = Y - X
      BY <1>8, <1>9
    <2>2. Same(D, 0)
      BY <1>6 DEF D
    <2> QED
      BY <2>1, <2>2 DEF Same
  <1>14. old \in Int /\ new \in Int
    BY <1>11, <1>12, ScalarRemainder
  <1>15. Same(new, X)
    BY <1>8, <1>10, <1>12, <1>13, <1>14, SameChain
  <1>16. Same(new, old)
    BY <1>8, <1>11, <1>14, <1>15, SameSwap, SameChain
  <1>17. new = old
    BY <1>11, <1>12, <1>16, SameScalars
  <1> QED
    BY <1>17 DEF old, new

(* A rotation to any threshold, the same, a higher or a lower one, keeps    *)
(* the public key and the secret that all participants hold together.       *)
THEOREM RotationsKeepTheKey == Spec => RotationKeepsTheKey
  <1> DEFINE Kept == key_shares # <<>> =>
                       /\ Secret(key_shares', Participants) = Secret(key_shares, Participants)
                       /\ \A j \in Participants :
                            key_shares'[j].group_public_key = key_shares[j].group_public_key
  <1>1. ASSUME CeremonyInv, [Next]_vars PROVE [Kept]_ceremony_vars
    <2> SUFFICES ASSUME CeremonyNext, key_shares # <<>> PROVE Kept
      BY <1>1, NextCeremony
    <2>1. PICK t \in RotationThresholds : rotate_shares(t)
      BY DEF CeremonyNext, run_dkg, derive_key
    <2>2. PICK polys \in [Participants -> [1..t -> Scalars]] :
            /\ \A i \in Participants : polys[i][1] = 0
            /\ key_shares' = RotatedShares(polys)
      BY <2>1, RotationShares
    <2>3. t \in Participants
      BY CeremonyConstants
    <2>4. Cardinality(Participants) >= t
      BY <2>3, ParticipantsAreIndices, CeremonyConstants
    <2>5. Secret(key_shares', Participants) = Secret(key_shares, Participants)
      BY <1>1, <2>2, <2>3, <2>4, RotatedSecret DEF CeremonyInv
    <2>6. \A j \in Participants :
            key_shares'[j].group_public_key = key_shares[j].group_public_key
      BY <1>1, <2>2 DEF RotatedShares, CeremonyInv, SharesAgree
    <2> QED
      BY <2>5, <2>6
  <1>2. CeremonyInv /\ [Next]_vars => [Kept]_ceremony_vars
    BY <1>1
  <1> HIDE DEF Kept
  <1>3. Spec => [][Kept]_ceremony_vars
    BY <1>2, CeremonyInvariant, PTL DEF Spec
  <1> QED
    BY <1>3 DEF Kept, RotationKeepsTheKey

(* A lower threshold leaves sets that are quorums by the new one and hold   *)
(* no secret: nothing in rotate_shares refuses it.  The quorums hold the    *)
(* key as long as no ceremony is asked for a threshold below the last.      *)
ThresholdNeverLowered == [][threshold' >= threshold]_ceremony_vars

LEMMA QuorumsStep ==
  ASSUME CeremonyInv, QuorumsHoldTheKey, [Next]_vars, [threshold' >= threshold]_ceremony_vars
  PROVE  QuorumsHoldTheKey'
  <1> USE DEF QuorumsHoldTheKey, Quorums
  <1>1. ASSUME NEW t \in DkgThresholds, run_dkg(t) PROVE QuorumsHoldTheKey'
    <2>1. t \in Participants /\ threshold' = t
      BY <1>1, CeremonyConstants, DkgShares
    <2>2. PICK polys \in [Participants -> [1..t -> Scalars]] : key_shares' = DealtShares(polys)
      BY <1>1, DkgShares
    <2>3. \A S \in SUBSET Participants : Cardinality(S) >= t =>
            Secret(key_shares', S) = Sum([i \in Participants |-> polys[i][1]])
      BY <2>1, <2>2, DealtSecret
    <2>4. \A j \in Participants :
            key_shares'[j].group_public_key = Sum([i \in Participants |-> polys[i][1]])
      BY <2>2 DEF DealtShares
    <2> QED
      BY <2>1, <2>3, <2>4
  <1>2. ASSUME NEW t \in PdkThresholds, derive_key(t) PROVE QuorumsHoldTheKey'
    <2>1. t \in Participants /\ threshold' = t
      BY <1>2, CeremonyConstants, PdkShares
    <2>2. PICK poly \in [1..t -> Scalars] : key_shares' = DerivedShares(poly)
      BY <1>2, PdkShares
    <2>3. \A S \in SUBSET Participants : Cardinality(S) >= t => Secret(key_shares', S) = poly[1]
      BY <2>1, <2>2, DerivedSecret
    <2>4. \A j \in Participants : key_shares'[j].group_public_key = poly[1]
      BY <2>2 DEF DerivedShares
    <2> QED
      BY <2>1, <2>3, <2>4
  <1>3. ASSUME NEW t \in RotationThresholds, rotate_shares(t) PROVE QuorumsHoldTheKey'
    <2>1. t \in Participants /\ threshold' = t /\ key_shares # <<>>
      BY <1>3, CeremonyConstants, RotationShares
    <2>2. PICK polys \in [Participants -> [1..t -> Scalars]] :
            /\ \A i \in Participants : polys[i][1] = 0
            /\ key_shares' = RotatedShares(polys)
      BY <1>3, RotationShares
    <2>3. threshold <= t
      <3>1. threshold \in Nat /\ t \in Nat
        BY <2>1, ParticipantsAreIndices, CeremonyConstants DEF CeremonyInv, CeremonyTypeOK
      <3> QED
        BY <2>1, <3>1 DEF ceremony_vars
    <2>4. ASSUME NEW S \in SUBSET Participants, Cardinality(S) >= t, NEW j \in Participants
          PROVE  Secret(key_shares', S) = key_shares'[j].group_public_key
      <3>1. Secret(key_shares', S) = Secret(key_shares, S)
        BY <2>1, <2>2, <2>4, RotatedSecret DEF CeremonyInv
      <3>2. Cardinality(S) >= threshold
        <4>1. Cardinality(S) \in Nat
          BY ParticipantsAreIndices, FS_Subset, FS_CardinalityType
        <4>2. threshold \in Nat /\ t \in Nat
          BY <2>1, ParticipantsAreIndices, CeremonyConstants DEF CeremonyInv, CeremonyTypeOK
        <4> QED
          BY <2>3, <2>4, <4>1, <4>2
      <3>3. 1 \in Participants
        BY <2>1, RandomPolynomials
      <3>4. Secret(key_shares, S) = key_shares[1].group_public_key
        BY <2>1, <3>2, <3>3
      <3>5. key_shares'[j].group_public_key = key_shares[1].group_public_key
        BY <2>2 DEF RotatedShares
      <3> QED
        BY <3>1, <3>4, <3>5
    <2> QED
      BY <2>1, <2>4
  <1>4. CASE UNCHANGED ceremony_vars
    BY <1>4 DEF ceremony_vars, Secret
  <1> QED
    BY <1>1, <1>2, <1>3, <1>4, NextCeremony DEF CeremonyNext

(* Every quorum holds the secret of the public key, through any number of   *)
(* derivations and rotations that do not lower the threshold.               *)
THEOREM QuorumsKeepTheKey == Spec /\ ThresholdNeverLowered => []QuorumsHoldTheKey
  <1>1. Init => QuorumsHoldTheKey
    BY DEF Init, CeremonyInit, QuorumsHoldTheKey
  <1>2. /\ CeremonyInv /\ QuorumsHoldTheKey /\ [Next]_vars
        /\ [threshold' >= threshold]_ceremony_vars
        => QuorumsHoldTheKey'
    BY QuorumsStep
  <1> QED
    BY <1>1, <1>2, CeremonyInvariant, PTL DEF Spec, ThresholdNeverLowered

----------------------------------------------------------------------------
(* A session's signature and partials are those of its signers' shares:     *)
(* no ceremony runs under a session.                                        *)
PartialOf(i) ==
  (sign_partial(key_shares[i], session.nonces[i], session.signers, session.challenge)
     + session.errors[i]) % Order

SessionInv ==
  session # <<>> =>
    /\ key_shares # <<>>
    /\ session.signers \in SUBSET Participants /\ session.signers # {}
    /\ session.nonces \in [session.signers -> Draws]
    /\ session.errors \in [session.signers -> Errors]
    /\ session.challenge \in Scalars
    /\ session.partials = [i \in session.signers |-> PartialOf(i)]
    /\ session.signature = aggregate(session.nonces, session.partials)

LEMMA SessionStep ==
  ASSUME SessionInv, [Next]_vars
  PROVE  SessionInv'
  <1>1. CASE session = <<>> /\ CeremonyNext /\ UNCHANGED session
    BY <1>1 DEF SessionInv
  <1>2. ASSUME NEW S \in SUBSET Participants, S # {}, Sign(S) PROVE SessionInv'
    <2>1. PICK nonces \in [S -> Draws], errors \in [S -> Errors], challenge \in Scalars :
            LET partials == [i \in S |->
                  (sign_partial(key_shares[i], nonces[i], S, challenge) + errors[i]) % Order]
            IN  session' = [signers |-> S, nonces |-> nonces, errors |-> errors,
                            challenge |-> challenge, partials |-> partials,
                            signature |-> aggregate(nonces, partials)]
      BY <1>2 DEF Sign
    <2>2. key_shares # <<>> /\ key_shares' = key_shares
      BY <1>2 DEF Sign, ceremony_vars
    <2>3. /\ session'.signers = S /\ session'.nonces = nonces /\ session'.errors = errors
          /\ session'.challenge = challenge
          /\ session'.partials = [i \in S |->
               (sign_partial(key_shares[i], nonces[i], S, challenge) + errors[i]) % Order]
          /\ session'.signature = aggregate(session'.nonces, session'.partials)
      BY <2>1
    <2>4. session'.partials = [i \in session'.signers |-> PartialOf(i)']
      BY <2>2, <2>3 DEF PartialOf, sign_partial
    <2>5. session'.signature = aggregate(session.nonces, session.partials)'
      BY <2>3 DEF aggregate, group_commitment
    <2> QED
      BY <1>2, <2>2, <2>3, <2>4, <2>5 DEF SessionInv
  <1>3. CASE UNCHANGED vars
    BY <1>3 DEF vars, ceremony_vars, SessionInv, PartialOf, sign_partial, aggregate,
                group_commitment
  <1> QED
    BY <1>1, <1>2, <1>3 DEF Next

LEMMA SessionInvariant == Spec => []SessionInv
  <1>1. Init => SessionInv
    BY DEF Init, SessionInv
  <1>2. SessionInv /\ [Next]_vars => SessionInv'
    BY SessionStep
  <1> QED
    BY <1>1, <1>2, PTL DEF Spec

(* Partials z that answer the challenge c with the shares x, and R made of  *)
(* the same commitments w, sum to a signature of the secret of x: it        *)
(* verifies for the key k exactly when that secret is k's, or c is 0.       *)
Answering(S, c, w, x, z) ==
  \A i \in S : /\ w[i] \in Int /\ x[i] \in Int /\ z[i] \in Int
              /\ Same(z[i], w[i] + coefficient(i, S) * x[i] * c)

LEMMA SignatureEquation ==
  ASSUME NEW S \in SUBSET Indices, NEW c \in Scalars, NEW k \in Scalars,
         NEW w, NEW x, NEW z, Answering(S, c, w, x, z)
  PROVE  SumOver(z, S) % Order = ((SumOver(w, S) % Order) + k * c) % Order
           <=> c = 0 \/ Same(Interpolate(x, S), k)
  <1> DEFINE T == Terms(x, S)
             cT == [i \in S |-> c * T[i]]
             v == [i \in S |-> w[i] + cT[i]]
             W == SumOver(w, S)
             Z == SumOver(z, S)
             V == SumOver(v, S)
             X == Interpolate(x, S)
             r == W % Order
             s == Z % Order
  <1>0. \A i \in S : /\ w[i] \in Int /\ x[i] \in Int /\ z[i] \in Int
                     /\ Same(z[i], w[i] + coefficient(i, S) * x[i] * c)
    BY DEF Answering
  <1>1. IsFiniteSet(S)
    BY SignersFinite
  <1>2. c \in Int /\ k \in Int
    BY ScalarRemainder
  <1>3. (\A i \in S : T[i] \in Int) /\ X \in Int
    BY <1>0, TermsType
  <1>4. \A i \in S : cT[i] \in Int /\ cT[i] = c * T[i]
    BY <1>2, <1>3
  <1>5. \A i \in S : v[i] \in Int /\ v[i] = w[i] + cT[i]
    BY <1>0, <1>4
  <1>6. \A i \in S : Same(z[i], v[i])
    <2> SUFFICES ASSUME NEW i \in S PROVE Same(z[i], v[i])
      OBVIOUS
    <2> DEFINE l == coefficient(i, S)
    <2>1. l \in Int /\ x[i] \in Int /\ w[i] \in Int
      BY <1>0, CoefficientIsFraction
    <2>2. v[i] = w[i] + c * (l * x[i])
      BY DEF Terms
    <2>3. Same(z[i], w[i] + l * x[i] * c)
      BY <1>0
    <2> HIDE DEF l, v
    <2>4. w[i] + l * x[i] * c = w[i] + c * (l * x[i])
      BY <1>2, <2>1
    <2> QED
      BY <2>2, <2>3, <2>4
  <1>7. \A i \in S : w[i] \in Int /\ z[i] \in Int
    BY <1>0
  <1> HIDE DEF cT, v, T
  <1>8. W \in Int /\ Z \in Int /\ V \in Int
    BY <1>1, <1>5, <1>7, SumStep
  <1>9. Same(Z, V)
    BY <1>1, <1>5, <1>6, <1>7, SumsSame
  <1>10. V = W + c * X
    <2>1. SumOver(v, S) = SumOver(w, S) + SumOver(cT, S)
      BY <1>1, <1>4, <1>5, <1>7, SumOfSums
    <2>2. SumOver(cT, S) = c * SumOver(T, S)
      BY <1>1, <1>2, <1>3, <1>4, SumOfMultiples
    <2> QED
      BY <2>1, <2>2 DEF Interpolate, T
  <1> HIDE DEF W, Z, V, X
  <1>11. r \in Int /\ s \in Scalars /\ s \in Int /\ Same(r, W) /\ Same(s, Z)
    BY <1>8, Remainder
  <1> HIDE DEF r, s
  <1> DEFINE kc == k * c
             p == r + kc
             q == W + kc
             e == X - k
  <1>12. kc \in Int /\ p \in Int /\ q \in Int /\ e \in Int
    BY <1>2, <1>3, <1>8, <1>11 DEF X
  <1>13. V - q = c * e
    BY <1>2, <1>3, <1>8, <1>10 DEF X
  <1>14. Same(p, q)
    <2> HIDE DEF kc
    <2> QED
      BY <1>8, <1>11, <1>12, SameItself, SamePlus
  <1> HIDE DEF p, q, e, kc
  <1>15. Same(s, V)
    BY <1>8, <1>9, <1>11, SameChain
  <1>16. s = p % Order <=> Same(s, p)
    BY <1>11, <1>12, ScalarRemainder, SameRemainders
  <1>17. Same(s, p) <=> Same(V, q)
    <2>1. ASSUME Same(s, p) PROVE Same(V, q)
      <3>1. Same(V, s)
        BY <1>8, <1>11, <1>15, SameSwap
      <3>2. Same(V, p)
        BY <1>8, <1>11, <1>12, <2>1, <3>1, SameChain
      <3> QED
        BY <1>8, <1>12, <1>14, <3>2, SameChain
    <2>2. ASSUME Same(V, q) PROVE Same(s, p)
      <3>1. Same(q, p)
        BY <1>12, <1>14, SameSwap
      <3>2. Same(s, q)
        BY <1>8, <1>11, <1>12, <1>15, <2>2, SameChain
      <3> QED
        BY <1>11, <1>12, <3>1, <3>2, SameChain
    <2> QED
      BY <2>1, <2>2
  <1>18. Same(V, q) <=> Zero(c * e)
    BY <1>13 DEF Same
  <1>19. Zero(c * e) <=> c = 0 \/ Zero(e)
    <2>1. ASSUME c = 0 PROVE Zero(c * e)
      <3>1. c * e = 0
        BY <1>12, <2>1
      <3> QED
        BY <3>1, ZeroIsZero
    <2>2. ASSUME Zero(e) PROVE Zero(c * e)
      BY <1>2, <1>12, <2>2, ZeroTimes
    <2>3. ASSUME Zero(c * e), c # 0 PROVE Zero(e)
      <3>1. -Order < c /\ c < Order
        BY OrderType DEF Scalars
      <3>2. ~Zero(c)
        BY <1>2, <2>3, <3>1, ZeroBelowOrder
      <3> QED
        BY <1>2, <1>12, <2>3, <3>2, Cancels
    <2> QED
      BY <2>1, <2>2, <2>3
  <1> QED
    BY <1>16, <1>17, <1>18, <1>19 DEF p, kc, e, X, Same, r, s, W, Z

(* What signer i commits to, its honest answer to the challenge, and        *)
(* whether the partial it gave is that answer.                              *)
Committed(i) == session.nonces[i].d + session.nonces[i].e * session.nonces[i].rho
Answer(i) ==
  Committed(i)
    + coefficient(i, session.signers) * key_shares[i].secret * session.challenge
Answers(i) == session.partials[i] = Answer(i) % Order

LEMMA SessionParts ==
  ASSUME CeremonyInv, SessionInv, session # <<>>
  PROVE  /\ session.signers \in SUBSET Indices
         /\ PublicKey \in Scalars /\ session.challenge \in Scalars
         /\ \A i \in session.signers :
              /\ Committed(i) \in Int /\ Answer(i) \in Int
              /\ key_shares[i].secret \in Int /\ coefficient(i, session.signers) \in Int
              /\ session.partials[i] \in Int
              /\ Honest(i) => Answers(i)
  <1>1. /\ key_shares \in [Participants -> KeyShares]
        /\ \A j \in Participants : key_shares[j].index = j
    BY DEF SessionInv, CeremonyInv, CeremonyTypeOK, SharesAgree
  <1>2. /\ session.signers \in SUBSET Participants /\ session.signers # {}
        /\ session.nonces \in [session.signers -> Draws]
        /\ session.errors \in [session.signers -> Errors]
        /\ session.challenge \in Scalars
        /\ session.partials = [i \in session.signers |-> PartialOf(i)]
    BY DEF SessionInv
  <1>3. session.signers \in SUBSET Indices
    BY <1>2, ParticipantsAreIndices
  <1>4. 1 \in Participants
    <2>1. PICK i \in session.signers : TRUE
      BY <1>2
    <2>2. i \in Participants
      BY <1>2
    <2> QED
      BY <2>2, RandomPolynomials
  <1>5. PublicKey \in Scalars
    BY <1>1, <1>4 DEF PublicKey, KeyShares
  <1>6. ASSUME NEW i \in session.signers
        PROVE  /\ Committed(i) \in Int /\ Answer(i) \in Int
               /\ key_shares[i].secret \in Int /\ coefficient(i, session.signers) \in Int
               /\ session.partials[i] \in Int
               /\ Honest(i) => Answers(i)
    <2>1. i \in Participants /\ key_shares[i].index = i
      BY <1>1, <1>2
    <2>2. session.nonces[i] \in [d : Scalars, e : Scalars, rho : Scalars]
      BY <1>2, SigningConstants
    <2>3. /\ session.nonces[i].d \in Int /\ session.nonces[i].e \in Int
          /\ session.nonces[i].rho \in Int
      BY <2>2, ScalarRemainder
    <2>4. Committed(i) \in Int
      BY <2>3 DEF Committed
    <2>5. key_shares[i].secret \in Int /\ session.challenge \in Int
      BY <1>1, <1>2, <2>1, ScalarRemainder DEF KeyShares
    <2>6. coefficient(i, session.signers) \in Int
      BY <1>3, CoefficientIsFraction
    <2>7. Answer(i) \in Int
      BY <2>4, <2>5, <2>6 DEF Answer
    <2>8. session.partials[i] = ((Answer(i) % Order) + session.errors[i]) % Order
      BY <1>2, <2>1 DEF PartialOf, sign_partial, Answer, Committed
    <2>9. Answer(i) % Order \in Scalars /\ session.errors[i] \in Int
      BY <1>2, <2>7, SigningConstants, Remainder, ScalarRemainder
    <2>10. Answer(i) % Order \in Int
      BY <2>9, ScalarRemainder
    <2> DEFINE a == Answer(i) % Order
               n == session.errors[i]
    <2> HIDE DEF a, n
    <2>11. a \in Int /\ n \in Int /\ a \in Scalars /\ session.partials[i] = (a + n) % Order
      BY <2>8, <2>9, <2>10 DEF a, n
    <2>12. session.partials[i] \in Int
      BY <2>11, a + n \in Int, Remainder
    <2>13. ASSUME n = 0 PROVE session.partials[i] = a
      <3>1. a + n = a
        BY <2>11, <2>13
      <3> QED
        BY <2>11, <3>1, ScalarRemainder
    <2>14. Honest(i) => Answers(i)
      BY <2>13 DEF Honest, Answers, a, n
    <2> QED
      BY <2>4, <2>5, <2>6, <2>7, <2>12, <2>14
  <1> QED
    BY <1>2, <1>3, <1>5, <1>6

LEMMA AnsweredSessionVerifies ==
  ASSUME CeremonyInv, SessionInv, session # <<>>, \A i \in session.signers : Answers(i)
  PROVE  Verifies <=> session.challenge = 0
                        \/ Secret(key_shares, session.signers) = PublicKey
  <1> DEFINE S == session.signers
             c == session.challenge
             w == [i \in S |-> Committed(i)]
             x == [i \in S |-> key_shares[i].secret]
             z == session.partials
  <1>1. session.signature = [r |-> group_commitment(session.nonces), s |-> Sum(z)]
    BY DEF SessionInv, aggregate
  <1>2. group_commitment(session.nonces) = SumOver(w, S) % Order
    <2>1. DOMAIN session.nonces = S
      BY DEF SessionInv
    <2>2. group_commitment(session.nonces) = Sum(w)
      BY <2>1 DEF group_commitment, Committed
    <2>3. DOMAIN w = S
      OBVIOUS
    <2> QED
      BY <2>2, <2>3, SumIs
  <1>3. Sum(z) = SumOver(z, S) % Order
    <2>1. DOMAIN z = S
      BY DEF SessionInv
    <2> QED
      BY <2>1, SumIs
  <1>4. S \in SUBSET Indices /\ c \in Scalars /\ PublicKey \in Scalars
    BY SessionParts
  <1>5. ASSUME NEW i \in S
        PROVE  /\ w[i] \in Int /\ x[i] \in Int /\ z[i] \in Int
               /\ Same(z[i], w[i] + coefficient(i, S) * x[i] * c)
    <2>1. w[i] = Committed(i) /\ x[i] = key_shares[i].secret
      OBVIOUS
    <2>2. Committed(i) \in Int /\ key_shares[i].secret \in Int /\ z[i] \in Int /\ Answer(i) \in Int
      BY SessionParts
    <2>3. z[i] = Answer(i) % Order
      BY DEF Answers
    <2>4. Same(z[i], Answer(i))
      BY <2>2, <2>3, Remainder
    <2> QED
      BY <2>1, <2>2, <2>4 DEF Answer
  <1>6. S \in SUBSET Participants
    BY DEF SessionInv
  <1>7. \A i \in S : key_shares[i].secret = x[i] /\ x[i] \in Int
    BY <1>5
  <1>8. Verifies <=> Sum(z) = (group_commitment(session.nonces) + PublicKey * c) % Order
    BY <1>1 DEF Verifies, verify
  <1> HIDE DEF S, c, w, x, z
  <1>9. Verifies <=> c = 0 \/ Same(Interpolate(x, S), PublicKey)
    <2>1. Answering(S, c, w, x, z)
      BY <1>5 DEF Answering
    <2> QED
      BY <1>2, <1>3, <1>4, <1>8, <2>1, SignatureEquation
  <1>10. Same(Interpolate(x, S), PublicKey) <=> Secret(key_shares, S) = PublicKey
    <2> DEFINE X == Interpolate(x, S)
               secret == Secret(key_shares, S)
    <2>1. secret \in Scalars /\ X \in Int /\ Same(secret, X)
      BY <1>6, <1>7, SecretIs
    <2>2. secret % Order = secret /\ PublicKey % Order = PublicKey
          /\ secret \in Int /\ PublicKey \in Int
      BY <1>4, <2>1, ScalarRemainder
    <2> HIDE DEF X, secret
    <2>3. Same(X, PublicKey) <=> secret = PublicKey
      BY <2>1, <2>2, SameRemainders
    <2> QED
      BY <2>3 DEF X, secret
  <1> QED
    BY <1>9, <1>10 DEF S, c

(* The signature of honest signers verifies exactly when their shares       *)
(* interpolate to the secret of the public key, for every draw of nonces    *)
(* and binding factors and every challenge but 0.                           *)
THEOREM VerifiesForSharesOfTheKey == Spec => []VerifiesIffSharesInterpolate
  <1>1. CeremonyInv /\ SessionInv => VerifiesIffSharesInterpolate
    BY SessionParts, AnsweredSessionVerifies DEF VerifiesIffSharesInterpolate
  <1> QED
    BY <1>1, CeremonyInvariant, SessionInvariant, PTL

(* A partial verifies when it is the honest answer and only then, whichever *)
(* participant's verification shares are used.                              *)
LEMMA PartialVerifiesIff ==
  ASSUME CeremonyInv, SessionInv, session # <<>>,
         NEW i \in session.signers, NEW j \in Participants
  PROVE  PartialVerifies(i, j) <=> Answers(i)
  <1> DEFINE l == coefficient(i, session.signers)
             c == session.challenge
             x == key_shares[i].secret
             w == Committed(i)
             m == (l * c) % Order
  <1>1. i \in Participants /\ key_shares # <<>>
    BY DEF SessionInv
  <1>2. key_shares[j].verification_shares[i] = x
    BY <1>1 DEF CeremonyInv, VerificationSharesMatch
  <1>3. PartialVerifies(i, j) <=> session.partials[i] = (w + x * m) % Order
    BY <1>2 DEF PartialVerifies, verify_partial, Committed
  <1>4. Answers(i) <=> session.partials[i] = (w + l * x * c) % Order
    BY DEF Answers, Answer
  <1>5. l \in Int /\ c \in Int /\ x \in Int /\ w \in Int
    BY SessionParts, ScalarRemainder
  <1>6. l * c \in Int
    BY <1>5
  <1>7. m \in Int /\ Same(m, l * c)
    BY <1>6, Remainder
  <1> HIDE DEF l, c, x, w, m
  <1>8. Same(x * m, x * (l * c))
    BY <1>5, <1>6, <1>7, SameItself, SameTimes
  <1>9. x * m \in Int /\ x * (l * c) \in Int
    BY <1>5, <1>7
  <1> DEFINE xm == x * m
             xlc == x * (l * c)
  <1>10. xm \in Int /\ xlc \in Int /\ Same(xm, xlc)
    BY <1>8, <1>9
  <1>11. w + l * x * c = w + xlc
    BY <1>5
  <1>12. Same(w + xm, w + xlc)
    <2> HIDE DEF xm, xlc
    <2> QED
      BY <1>5, <1>10, SameItself, SamePlus
  <1>13. (w + xm) % Order = (w + xlc) % Order
    <2>1. w + xm \in Int /\ w + xlc \in Int
      BY <1>5, <1>10
    <2> HIDE DEF xm, xlc
    <2> QED
      BY <1>12, <2>1, SameRemainders
  <1> QED
    BY <1>3, <1>4, <1>11, <1>13

(* When a quorum's signature does not verify, every participant can name a  *)
(* signer that altered its partial, and names no honest one.                *)
THEOREM AbortIsIdentifiable == Spec /\ ThresholdNeverLowered => []IdentifiableAbort
  <1>1. ASSUME CeremonyInv, SessionInv, QuorumsHoldTheKey PROVE IdentifiableAbort
    <2> SUFFICES ASSUME session # <<>>, session.signers \in Quorums, ~Verifies,
                        NEW j \in Participants
                 PROVE  /\ \E i \in session.signers : ~PartialVerifies(i, j)
                        /\ \A i \in session.signers : Honest(i) => PartialVerifies(i, j)
      BY DEF IdentifiableAbort
    <2>1. \A i \in session.signers : Honest(i) => PartialVerifies(i, j)
      BY <1>1, SessionParts, PartialVerifiesIff
    <2>2. Secret(key_shares, session.signers) = PublicKey
      <3>1. key_shares # <<>>
        BY <1>1 DEF SessionInv
      <3>2. 1 \in Participants
        BY RandomPolynomials
      <3> QED
        BY <1>1, <3>1, <3>2 DEF QuorumsHoldTheKey, PublicKey
    <2>3. ASSUME \A i \in session.signers : PartialVerifies(i, j) PROVE FALSE
      <3>1. \A i \in session.signers : Answers(i)
        BY <1>1, <2>3, PartialVerifiesIff
      <3> QED
        BY <1>1, <2>2, <3>1, AnsweredSessionVerifies
    <2> QED
      BY <2>1, <2>3
  <1>2. CeremonyInv /\ SessionInv /\ QuorumsHoldTheKey => IdentifiableAbort
    BY <1>1
  <1> QED
    BY <1>2, CeremonyInvariant, SessionInvariant, QuorumsKeepTheKey, PTL
=============================================================================
