------------------------- MODULE ScalarFieldProofs -------------------------
(***************************************************************************)
(* Why shares interpolate: facts about the scalars, the sums over signers  *)
(* and the Lagrange coefficients of ScalarField, for every prime order.    *)
(*                                                                         *)
(* Induction is over sets: a set of naturals that holds 0 and every        *)
(* successor is Nat, a set of sets that holds {} and every extension by an *)
(* element holds every finite set.                                         *)
(***************************************************************************)
EXTENDS ScalarField, FiniteSetTheorems, WellFoundedInduction, TLAPS

(* Every set of naturals has a least element.                               *)
LEMMA LeastNatural ==
  ASSUME NEW T \in SUBSET Nat, T # {}
  PROVE  \E m \in T : \A k \in T : m <= k
  <1>1. PICK m \in T : \A k \in T : ~(<<k, m>> \in OpToRel(<, Nat))
    BY NatLessThanWellFounded, WFMin
  <1>2. ASSUME NEW k \in T PROVE m <= k
    <2>1. k \in Nat /\ m \in Nat
      OBVIOUS
    <2>2. <<k, m>> \in Nat \X Nat /\ <<k, m>>[1] = k /\ <<k, m>>[2] = m
      BY <2>1
    <2>3. ~(k < m)
      BY <1>1, <2>2 DEF OpToRel
    <2> QED
      BY <2>1, <2>3
  <1> QED
    BY <1>2

(* Induction over the naturals.                                             *)
LEMMA NaturalsReached ==
  ASSUME NEW Good, 0 \in Good, \A n \in Nat : n \in Good => n + 1 \in Good
  PROVE  \A n \in Nat : n \in Good
  <1> DEFINE Bad == Nat \ Good
  <1> SUFFICES ASSUME Bad # {} PROVE FALSE
    OBVIOUS
  <1>1. PICK m \in Bad : \A k \in Bad : m <= k
    BY LeastNatural
  <1>2. m \in Nat /\ m # 0
    OBVIOUS
  <1>3. m - 1 \in Nat /\ m - 1 \notin Bad
    BY <1>1, <1>2
  <1> QED
    BY <1>2, <1>3

(* Induction over the finite subsets of S, one element at a time.           *)
LEMMA FiniteSetsReached ==
  ASSUME NEW S, IsFiniteSet(S), NEW Good, {} \in Good,
         \A T \in SUBSET S : T # {} /\ (\A x \in T : T \ {x} \in Good) => T \in Good
  PROVE  S \in Good
  <1> DEFINE Sizes == {n \in Nat : \A T \in SUBSET S : Cardinality(T) = n => T \in Good}
  <1>1. \A T \in SUBSET S : IsFiniteSet(T) /\ Cardinality(T) \in Nat
    BY FS_Subset, FS_CardinalityType
  <1>2. 0 \in Sizes
    BY <1>1, FS_EmptySet
  <1>3. ASSUME NEW n \in Nat, n \in Sizes PROVE n + 1 \in Sizes
    <2> SUFFICES ASSUME NEW T \in SUBSET S, Cardinality(T) = n + 1 PROVE T \in Good
      OBVIOUS
    <2>1. T # {}
      <3>1. Cardinality({}) = 0
        BY FS_EmptySet
      <3>2. n + 1 # 0
        OBVIOUS
      <3> QED
        BY <3>1, <3>2
    <2>2. ASSUME NEW x \in T PROVE T \ {x} \in Good
      <3>1. Cardinality(T \ {x}) = n
        BY <1>1, FS_RemoveElement
      <3> QED
        BY <1>3, <3>1
    <2> QED
      BY <2>1, <2>2
  <1> HIDE DEF Sizes
  <1>4. \A n \in Nat : n \in Sizes
    BY <1>2, <1>3, NaturalsReached
  <1> QED
    BY <1>1, <1>4 DEF Sizes

----------------------------------------------------------------------------
(* Folds.  The element a fold takes next is any one.                        *)
Pick(s) == CHOOSE x \in s : TRUE

LEMMA PickIn == ASSUME NEW s, s # {} PROVE Pick(s) \in s
  BY DEF Pick

(* h folds f with op over every subset of S, in the order of Pick.          *)
FoldsAll(h, op, base, f, S) ==
  \A s \in SUBSET S : h[s] = IF s = {} THEN base ELSE op[<<f[Pick(s)], h[s \ {Pick(s)}]>>]

(* Such an h exists: it is built up by the size of the subsets.             *)
LEMMA FoldExists ==
  ASSUME NEW S, IsFiniteSet(S), NEW Typ, NEW op \in [Typ \X Typ -> Typ], NEW base \in Typ,
         NEW f, \A x \in S : f[x] \in Typ
  PROVE  \E h \in [SUBSET S -> Typ] : FoldsAll(h, op, base, f, S)
  <1> DEFINE Right(h, s) == h[s] = IF s = {} THEN base ELSE op[<<f[Pick(s)], h[s \ {Pick(s)}]>>]
             Sizes == {n \in Nat : \E h \in [SUBSET S -> Typ] : \A s \in SUBSET S :
                                     Cardinality(s) <= n => Right(h, s)}
  <1>1. \A s \in SUBSET S : IsFiniteSet(s) /\ Cardinality(s) \in Nat
    BY FS_Subset, FS_CardinalityType
  <1>2. 0 \in Sizes
    <2>1. \A s \in SUBSET S : Cardinality(s) <= 0 => s = {}
      BY <1>1, FS_EmptySet
    <2>2. \A s \in SUBSET S : Cardinality(s) <= 0 => Right([t \in SUBSET S |-> base], s)
      BY <2>1
    <2> QED
      BY <2>2
  <1>3. ASSUME NEW n \in Nat, n \in Sizes PROVE n + 1 \in Sizes
    <2>1. PICK g \in [SUBSET S -> Typ] : \A s \in SUBSET S : Cardinality(s) <= n => Right(g, s)
      BY <1>3
    <2> DEFINE h == [s \in SUBSET S |-> IF s = {} THEN base
                                        ELSE op[<<f[Pick(s)], g[s \ {Pick(s)}]>>]]
    <2>2. h \in [SUBSET S -> Typ]
      BY PickIn
    <2>3. ASSUME NEW s \in SUBSET S, Cardinality(s) <= n PROVE h[s] = g[s]
      BY <2>1, <2>3
    <2>4. ASSUME NEW s \in SUBSET S, Cardinality(s) <= n + 1, s # {}
          PROVE  Right(h, s)
      <3>1. Pick(s) \in s
        BY <2>4, PickIn
      <3>2. Cardinality(s \ {Pick(s)}) <= n
        BY <1>1, <2>4, <3>1, FS_RemoveElement
      <3> QED
        BY <2>3, <2>4, <3>2
    <2>5. ASSUME NEW s \in SUBSET S, Cardinality(s) <= n + 1 PROVE Right(h, s)
      BY <2>4, <2>5
    <2> HIDE DEF h, Right
    <2> QED
      BY <2>2, <2>5
  <1> HIDE DEF Sizes
  <1>4. \A n \in Nat : n \in Sizes
    BY <1>2, <1>3, NaturalsReached
  <1>5. PICK h \in [SUBSET S -> Typ] :
          \A s \in SUBSET S : Cardinality(s) <= Cardinality(S) => Right(h, s)
    <2>1. Cardinality(S) \in Nat
      BY <1>1
    <2> HIDE DEF Right
    <2> QED
      BY <1>4, <2>1 DEF Sizes
  <1>6. \A s \in SUBSET S : Cardinality(s) <= Cardinality(S)
    BY FS_Subset
  <1> QED
    BY <1>5, <1>6 DEF FoldsAll

(* When op is commutative and associative, any element may come first.      *)
Commutes(op, Typ) ==
  /\ \A x, y \in Typ : op[<<x, y>>] = op[<<y, x>>]
  /\ \A x, y, z \in Typ : op[<<x, op[<<y, z>>]>>] = op[<<op[<<x, y>>], z>>]

AnyFirst(h, op, f, S) == \A s \in SUBSET S : \A x \in s : h[s] = op[<<f[x], h[s \ {x}]>>]

LEMMA FoldAnyOrder ==
  ASSUME NEW S, IsFiniteSet(S), NEW Typ, NEW op \in [Typ \X Typ -> Typ], NEW base \in Typ,
         Commutes(op, Typ), NEW f, \A x \in S : f[x] \in Typ,
         NEW h \in [SUBSET S -> Typ], FoldsAll(h, op, base, f, S)
  PROVE  AnyFirst(h, op, f, S)
  <1> DEFINE First(s) == \A x \in s : h[s] = op[<<f[x], h[s \ {x}]>>]
             Good     == {s \in SUBSET S : \A t \in SUBSET s : First(t)}
  <1>1. {} \in Good
    OBVIOUS
  <1>2. ASSUME NEW T \in SUBSET S, \A U \in SUBSET T : U # T => First(U)
        PROVE  First(T)
    <2> SUFFICES ASSUME NEW x \in T PROVE h[T] = op[<<f[x], h[T \ {x}]>>]
      OBVIOUS
    <2> DEFINE c == Pick(T)
    <2>1. c \in T
      BY PickIn
    <2>2. h[T] = op[<<f[c], h[T \ {c}]>>]
      BY <2>1 DEF FoldsAll
    <2> HIDE DEF c
    <2>3. CASE c = x
      BY <2>2, <2>3
    <2>4. CASE c # x
      <3> DEFINE rest == h[(T \ {c}) \ {x}]
      <3>1. (T \ {c}) \ {x} = (T \ {x}) \ {c}
        OBVIOUS
      <3>2. h[T \ {c}] = op[<<f[x], rest>>]
        <4>1. x \in T \ {c} /\ T \ {c} # T /\ T \ {c} \in SUBSET T
          BY <2>1, <2>4
        <4>2. First(T \ {c})
          BY <1>2, <4>1
        <4> QED
          BY <4>1, <4>2
      <3>3. h[T \ {x}] = op[<<f[c], rest>>]
        <4>1. c \in T \ {x} /\ T \ {x} # T /\ T \ {x} \in SUBSET T
          BY <2>1, <2>4
        <4>2. First(T \ {x})
          BY <1>2, <4>1
        <4>3. h[T \ {x}] = op[<<f[c], h[(T \ {x}) \ {c}]>>]
          BY <4>1, <4>2
        <4> QED
          BY <3>1, <4>3
      <3>4. f[c] \in Typ /\ f[x] \in Typ /\ rest \in Typ
        BY <2>1
      <3> HIDE DEF rest
      <3> DEFINE fc == f[c]
                 fx == f[x]
      <3>5. fc \in Typ /\ fx \in Typ /\ rest \in Typ
        BY <3>4
      <3> HIDE DEF fc, fx
      <3>6. op[<<fc, op[<<fx, rest>>]>>] = op[<<fx, op[<<fc, rest>>]>>]
        <4>1. op[<<fc, op[<<fx, rest>>]>>] = op[<<op[<<fc, fx>>], rest>>]
          BY <3>5 DEF Commutes
        <4>2. op[<<fx, op[<<fc, rest>>]>>] = op[<<op[<<fx, fc>>], rest>>]
          BY <3>5 DEF Commutes
        <4>3. op[<<fc, fx>>] = op[<<fx, fc>>]
          BY <3>5 DEF Commutes
        <4> QED
          BY <4>1, <4>2, <4>3
      <3> QED
        BY <2>2, <3>2, <3>3, <3>6 DEF fc, fx
    <2> QED
      BY <2>3, <2>4
  <1> HIDE DEF First
  <1>3. ASSUME NEW T \in SUBSET S, \A x \in T : T \ {x} \in Good PROVE T \in Good
    <2>1. ASSUME NEW U \in SUBSET T, U # T PROVE First(U)
      <3>1. PICK x \in T : x \notin U
        BY <2>1
      <3>2. U \in SUBSET (T \ {x})
        BY <3>1
      <3> QED
        BY <1>3, <3>2
    <2>2. First(T)
      BY <1>2, <2>1
    <2> QED
      BY <2>1, <2>2
  <1> HIDE DEF Good
  <1>4. S \in Good
    BY <1>1, <1>3, FiniteSetsReached
  <1>5. \A s \in SUBSET S : First(s)
    BY <1>4 DEF Good
  <1> QED
    BY <1>5 DEF First, AnyFirst

----------------------------------------------------------------------------
(* Sums of integers: their value, for any element taken first.            *)
SumOver(f, S) == FoldFunctionOnSet(+, 0, f, S)

Plus == [p \in Int \X Int |-> p[1] + p[2]]

LEMMA PlusIs ==
  /\ Plus \in [Int \X Int -> Int]
  /\ \A x, y \in Int : Plus[<<x, y>>] = x + y
  BY DEF Plus

LEMMA PlusCommutes == Commutes(Plus, Int)
  <1>1. \A x, y \in Int : x + y = y + x
    OBVIOUS
  <1>2. \A x, y, z \in Int : x + (y + z) = (x + y) + z
    OBVIOUS
  <1>3. \A x, y \in Int : x + y \in Int
    OBVIOUS
  <1>4. ASSUME NEW x \in Int, NEW y \in Int PROVE Plus[<<x, y>>] = Plus[<<y, x>>]
    <2>1. Plus[<<x, y>>] = x + y /\ Plus[<<y, x>>] = y + x
      BY PlusIs
    <2> QED
      BY <1>1, <2>1
  <1>5. ASSUME NEW x \in Int, NEW y \in Int, NEW z \in Int
        PROVE  Plus[<<x, Plus[<<y, z>>]>>] = Plus[<<Plus[<<x, y>>], z>>]
    <2>1. Plus[<<x, y>>] = x + y /\ Plus[<<y, z>>] = y + z
      BY PlusIs
    <2>2. Plus[<<x, y + z>>] = x + (y + z) /\ Plus[<<x + y, z>>] = (x + y) + z
      BY <1>3, PlusIs
    <2> QED
      BY <1>2, <2>1, <2>2
  <1> QED
    BY <1>4, <1>5 DEF Commutes

LEMMA SumFolds ==
  ASSUME NEW S, IsFiniteSet(S), NEW f, \A x \in S : f[x] \in Int,
         NEW h \in [SUBSET S -> Int], FoldsAll(h, Plus, 0, f, S)
  PROVE  SumOver(f, S) = h[S]
  <1> DEFINE Iter(g) == g = [s \in SUBSET S |-> IF s = {} THEN 0
                                               ELSE f[Pick(s)] + g[s \ {Pick(s)}]]
             i == CHOOSE g : Iter(g)
  <1>1. SumOver(f, S) = i[S]
    BY DEF SumOver, FoldFunctionOnSet, MapThenFoldSet, Pick
  <1>2. \A s \in SUBSET S : h[s] = IF s = {} THEN 0 ELSE f[Pick(s)] + h[s \ {Pick(s)}]
    BY PlusIs, PickIn DEF FoldsAll
  <1>3. Iter(h)
    BY <1>2
  <1>4. Iter(i)
    BY <1>3
  <1> HIDE DEF i
  <1>5. \A s \in SUBSET S : i[s] = IF s = {} THEN 0 ELSE f[Pick(s)] + i[s \ {Pick(s)}]
    BY <1>4
  <1> DEFINE Good == {s \in SUBSET S : i[s] = h[s]}
  <1>6. ASSUME NEW T \in SUBSET S, T # {}, \A x \in T : T \ {x} \in Good PROVE T \in Good
    <2>1. T \ {Pick(T)} \in Good
      BY <1>6, PickIn
    <2> QED
      BY <1>2, <1>5, <1>6, <2>1
  <1>7. {} \in Good
    BY <1>2, <1>5
  <1> HIDE DEF Good
  <1>8. S \in Good
    BY <1>6, <1>7, FiniteSetsReached
  <1> QED
    BY <1>1, <1>8 DEF Good

LEMMA SumStep ==
  ASSUME NEW S, IsFiniteSet(S), NEW f, \A x \in S : f[x] \in Int
  PROVE  \A T \in SUBSET S :
           /\ SumOver(f, T) \in Int
           /\ \A x \in T : SumOver(f, T) = f[x] + SumOver(f, T \ {x})
  <1>1. PICK h \in [SUBSET S -> Int] : FoldsAll(h, Plus, 0, f, S)
    BY FoldExists, PlusIs, 0 \in Int
  <1>2. ASSUME NEW T \in SUBSET S PROVE SumOver(f, T) = h[T]
    <2> DEFINE g == [s \in SUBSET T |-> h[s]]
    <2>1. g \in [SUBSET T -> Int] /\ g[T] = h[T]
      OBVIOUS
    <2>2. FoldsAll(g, Plus, 0, f, T)
      BY <1>1, PickIn DEF FoldsAll
    <2>3. IsFiniteSet(T)
      BY FS_Subset
    <2> HIDE DEF g
    <2> QED
      BY <2>1, <2>2, <2>3, SumFolds
  <1>3. \A s \in SUBSET S : \A x \in s : h[s] = Plus[<<f[x], h[s \ {x}]>>]
    <2>1. Plus \in [Int \X Int -> Int] /\ 0 \in Int
      BY PlusIs
    <2>2. IsFiniteSet(S) /\ h \in [SUBSET S -> Int] /\ FoldsAll(h, Plus, 0, f, S)
      BY <1>1
    <2>3. AnyFirst(h, Plus, f, S)
      BY <2>1, <2>2, PlusCommutes, FoldAnyOrder
    <2> QED
      BY <2>3 DEF AnyFirst
  <1>4. ASSUME NEW T \in SUBSET S, NEW x \in T
        PROVE  SumOver(f, T) = f[x] + SumOver(f, T \ {x})
    <2>1. h[T] = Plus[<<f[x], h[T \ {x}]>>]
      BY <1>3
    <2>2. f[x] \in Int /\ h[T \ {x}] \in Int
      OBVIOUS
    <2>3. SumOver(f, T) = h[T] /\ SumOver(f, T \ {x}) = h[T \ {x}]
      BY <1>2
    <2> QED
      BY <2>1, <2>2, <2>3, PlusIs
  <1>5. \A T \in SUBSET S : SumOver(f, T) \in Int
    BY <1>2
  <1> QED
    BY <1>4, <1>5

LEMMA SumEmpty == ASSUME NEW f PROVE SumOver(f, {}) = 0
  <1>1. PICK h \in [SUBSET {} -> Int] : FoldsAll(h, Plus, 0, f, {})
    BY FoldExists, PlusIs, FS_EmptySet, 0 \in Int
  <1>2. SumOver(f, {}) = h[{}]
    BY <1>1, SumFolds, FS_EmptySet
  <1> QED
    BY <1>1, <1>2 DEF FoldsAll

----------------------------------------------------------------------------
(* Products of integers: their value, for any element taken first.            *)
ProductOver(f, S) == FoldFunctionOnSet(LAMBDA x, y : x * y, 1, f, S)

Times == [p \in Int \X Int |-> p[1] * p[2]]

LEMMA TimesIs ==
  /\ Times \in [Int \X Int -> Int]
  /\ \A x, y \in Int : Times[<<x, y>>] = x * y
  BY DEF Times

LEMMA TimesCommutes == Commutes(Times, Int)
  <1>1. \A x, y \in Int : x * y = y * x
    OBVIOUS
  <1>2. \A x, y, z \in Int : x * (y * z) = (x * y) * z
    OBVIOUS
  <1>3. \A x, y \in Int : x * y \in Int
    OBVIOUS
  <1>4. ASSUME NEW x \in Int, NEW y \in Int PROVE Times[<<x, y>>] = Times[<<y, x>>]
    <2>1. Times[<<x, y>>] = x * y /\ Times[<<y, x>>] = y * x
      BY TimesIs
    <2> QED
      BY <1>1, <2>1
  <1>5. ASSUME NEW x \in Int, NEW y \in Int, NEW z \in Int
        PROVE  Times[<<x, Times[<<y, z>>]>>] = Times[<<Times[<<x, y>>], z>>]
    <2>1. Times[<<x, y>>] = x * y /\ Times[<<y, z>>] = y * z
      BY TimesIs
    <2>2. Times[<<x, y * z>>] = x * (y * z) /\ Times[<<x * y, z>>] = (x * y) * z
      BY <1>3, TimesIs
    <2> QED
      BY <1>2, <2>1, <2>2
  <1> QED
    BY <1>4, <1>5 DEF Commutes

LEMMA ProductFolds ==
  ASSUME NEW S, IsFiniteSet(S), NEW f, \A x \in S : f[x] \in Int,
         NEW h \in [SUBSET S -> Int], FoldsAll(h, Times, 1, f, S)
  PROVE  ProductOver(f, S) = h[S]
  <1> DEFINE Iter(g) == g = [s \in SUBSET S |-> IF s = {} THEN 1
                                               ELSE f[Pick(s)] * g[s \ {Pick(s)}]]
             i == CHOOSE g : Iter(g)
  <1>1. ProductOver(f, S) = i[S]
    BY DEF ProductOver, FoldFunctionOnSet, MapThenFoldSet, Pick
  <1>2. \A s \in SUBSET S : h[s] = IF s = {} THEN 1 ELSE f[Pick(s)] * h[s \ {Pick(s)}]
    BY TimesIs, PickIn DEF FoldsAll
  <1>3. Iter(h)
    BY <1>2
  <1>4. Iter(i)
    BY <1>3
  <1> HIDE DEF i
  <1>5. \A s \in SUBSET S : i[s] = IF s = {} THEN 1 ELSE f[Pick(s)] * i[s \ {Pick(s)}]
    BY <1>4
  <1> DEFINE Good == {s \in SUBSET S : i[s] = h[s]}
  <1>6. ASSUME NEW T \in SUBSET S, T # {}, \A x \in T : T \ {x} \in Good PROVE T \in Good
    <2>1. T \ {Pick(T)} \in Good
      BY <1>6, PickIn
    <2> QED
      BY <1>2, <1>5, <1>6, <2>1
  <1>7. {} \in Good
    BY <1>2, <1>5
  <1> HIDE DEF Good
  <1>8. S \in Good
    BY <1>6, <1>7, FiniteSetsReached
  <1> QED
    BY <1>1, <1>8 DEF Good

LEMMA ProductStep ==
  ASSUME NEW S, IsFiniteSet(S), NEW f, \A x \in S : f[x] \in Int
  PROVE  \A T \in SUBSET S :
           /\ ProductOver(f, T) \in Int
           /\ \A x \in T : ProductOver(f, T) = f[x] * ProductOver(f, T \ {x})
  <1>1. PICK h \in [SUBSET S -> Int] : FoldsAll(h, Times, 1, f, S)
    BY FoldExists, TimesIs, 1 \in Int
  <1>2. ASSUME NEW T \in SUBSET S PROVE ProductOver(f, T) = h[T]
    <2> DEFINE g == [s \in SUBSET T |-> h[s]]
    <2>1. g \in [SUBSET T -> Int] /\ g[T] = h[T]
      OBVIOUS
    <2>2. FoldsAll(g, Times, 1, f, T)
      BY <1>1, PickIn DEF FoldsAll
    <2>3. IsFiniteSet(T)
      BY FS_Subset
    <2> HIDE DEF g
    <2> QED
      BY <2>1, <2>2, <2>3, ProductFolds
  <1>3. \A s \in SUBSET S : \A x \in s : h[s] = Times[<<f[x], h[s \ {x}]>>]
    <2>1. Times \in [Int \X Int -> Int] /\ 1 \in Int
      BY TimesIs
    <2>2. IsFiniteSet(S) /\ h \in [SUBSET S -> Int] /\ FoldsAll(h, Times, 1, f, S)
      BY <1>1
    <2>3. AnyFirst(h, Times, f, S)
      BY <2>1, <2>2, TimesCommutes, FoldAnyOrder
    <2> QED
      BY <2>3 DEF AnyFirst
  <1>4. ASSUME NEW T \in SUBSET S, NEW x \in T
        PROVE  ProductOver(f, T) = f[x] * ProductOver(f, T \ {x})
    <2>1. h[T] = Times[<<f[x], h[T \ {x}]>>]
      BY <1>3
    <2>2. f[x] \in Int /\ h[T \ {x}] \in Int
      OBVIOUS
    <2>3. ProductOver(f, T) = h[T] /\ ProductOver(f, T \ {x}) = h[T \ {x}]
      BY <1>2
    <2> QED
      BY <2>1, <2>2, <2>3, TimesIs
  <1>5. \A T \in SUBSET S : ProductOver(f, T) \in Int
    BY <1>2
  <1> QED
    BY <1>4, <1>5

LEMMA ProductEmpty == ASSUME NEW f PROVE ProductOver(f, {}) = 1
  <1>1. PICK h \in [SUBSET {} -> Int] : FoldsAll(h, Times, 1, f, {})
    BY FoldExists, TimesIs, FS_EmptySet, 1 \in Int
  <1>2. ProductOver(f, {}) = h[{}]
    BY <1>1, ProductFolds, FS_EmptySet
  <1> QED
    BY <1>1, <1>2 DEF FoldsAll

----------------------------------------------------------------------------
(* The integers that are 0 in the field, and those that are equal in it.    *)
Zero(x)    == \E q \in Int : x = q * Order
Same(x, y) == Zero(x - y)

LEMMA OrderType == Order \in Nat /\ Order \in Int /\ Order > 1
  BY PrimeOrder

LEMMA ZeroPlus ==
  ASSUME NEW x \in Int, NEW y \in Int, Zero(x), Zero(y)
  PROVE  Zero(x + y) /\ Zero(x - y)
  <1>1. PICK p \in Int : x = p * Order
    BY DEF Zero
  <1>2. PICK q \in Int : y = q * Order
    BY DEF Zero
  <1>3. x + y = (p + q) * Order /\ x - y = (p - q) * Order
    BY <1>1, <1>2, OrderType
  <1>4. p + q \in Int /\ p - q \in Int
    OBVIOUS
  <1> QED
    BY <1>3, <1>4 DEF Zero

LEMMA ZeroTimes ==
  ASSUME NEW x \in Int, NEW y \in Int, Zero(x)
  PROVE  Zero(x * y) /\ Zero(y * x)
  <1>1. PICK p \in Int : x = p * Order
    BY DEF Zero
  <1>2. x * y = (p * y) * Order /\ y * x = (p * y) * Order
    BY <1>1, OrderType
  <1>3. p * y \in Int
    OBVIOUS
  <1> QED
    BY <1>2, <1>3 DEF Zero

LEMMA ZeroIsZero == Zero(0)
  <1>1. 0 = 0 * Order /\ 0 \in Int
    BY OrderType
  <1> QED
    BY <1>1 DEF Zero

LEMMA OrderIsZero == Zero(Order)
  <1>1. Order = 1 * Order /\ 1 \in Int
    BY OrderType
  <1> QED
    BY <1>1 DEF Zero

(* A remainder is a scalar and equal, in the field, to what was divided.    *)
LEMMA Remainder ==
  ASSUME NEW x \in Int
  PROVE  x % Order \in Scalars /\ x % Order \in Int /\ Same(x % Order, x) /\ Same(x, x % Order)
  <1> DEFINE r == x % Order
             q == x \div Order
  <1>1. r \in 0..(Order - 1)
    BY OrderType
  <1>2. q \in Int /\ x = q * Order + r
    BY OrderType
  <1>3. r - x = (-q) * Order /\ x - r = q * Order
    BY <1>1, <1>2, OrderType
  <1>4. -q \in Int
    BY <1>2
  <1> QED
    BY <1>1, <1>2, <1>3, <1>4 DEF Scalars, Same, Zero

(* Below the order, only 0 is 0 in the field.                               *)
LEMMA ZeroBelowOrder ==
  ASSUME NEW x \in Int, -Order < x, x < Order, Zero(x)
  PROVE  x = 0
  <1>1. PICK q \in Int : x = q * Order
    BY DEF Zero
  <1>2. CASE q >= 1
    <2>1. q * Order >= Order
      BY <1>2, OrderType
    <2> QED
      BY <1>1, <2>1, OrderType
  <1>3. CASE q <= -1
    <2>1. (-q) * Order >= Order
      BY <1>3, OrderType
    <2>2. q * Order = -((-q) * Order)
      BY OrderType
    <2>3. q * Order <= -Order
      BY <2>1, <2>2, OrderType
    <2> QED
      BY <1>1, <2>3, OrderType
  <1>4. CASE q = 0
    BY <1>1, <1>4, OrderType
  <1> QED
    BY <1>2, <1>3, <1>4

LEMMA SameRemainders ==
  ASSUME NEW x \in Int, NEW y \in Int
  PROVE  Same(x, y) <=> x % Order = y % Order
  <1> DEFINE r == x % Order
             s == y % Order
  <1>1. r \in 0..(Order - 1) /\ s \in 0..(Order - 1)
    BY Remainder DEF Scalars
  <1>2. Zero(x - r) /\ Zero(y - s) /\ Zero(r - x) /\ Zero(s - y)
    BY Remainder DEF Same
  <1>3. r \in Int /\ s \in Int
    BY <1>1, OrderType
  <1> HIDE DEF r, s
  <1>4. ASSUME Zero(x - y) PROVE r = s
    <2>1. Zero((x - y) - (x - r))
      BY <1>2, <1>3, <1>4, ZeroPlus
    <2>2. Zero(((x - y) - (x - r)) + (y - s))
      BY <1>2, <1>3, <2>1, ZeroPlus
    <2>3. ((x - y) - (x - r)) + (y - s) = r - s
      BY <1>3
    <2> QED
      BY <1>1, <1>3, <2>2, <2>3, ZeroBelowOrder, OrderType
  <1>5. ASSUME r = s PROVE Zero(x - y)
    <2>1. Zero((x - r) - (y - s))
      BY <1>2, <1>3, ZeroPlus
    <2>2. (x - r) - (y - s) = x - y
      BY <1>3, <1>5
    <2> QED
      BY <2>1, <2>2
  <1> QED
    BY <1>4, <1>5 DEF Same, r, s

LEMMA ScalarRemainder == ASSUME NEW x \in Scalars PROVE x \in Int /\ x % Order = x
  BY OrderType DEF Scalars

LEMMA SameScalars ==
  ASSUME NEW x \in Scalars, NEW y \in Scalars
  PROVE  Same(x, y) <=> x = y
  BY ScalarRemainder, SameRemainders

LEMMA SameItself == ASSUME NEW x \in Int PROVE Same(x, x)
  <1>1. x - x = 0
    OBVIOUS
  <1> QED
    BY <1>1, ZeroIsZero DEF Same

LEMMA SameSwap ==
  ASSUME NEW x \in Int, NEW y \in Int, Same(x, y)
  PROVE  Same(y, x)
  BY SameRemainders

LEMMA SameChain ==
  ASSUME NEW x \in Int, NEW y \in Int, NEW z \in Int, Same(x, y), Same(y, z)
  PROVE  Same(x, z)
  BY SameRemainders

LEMMA SamePlus ==
  ASSUME NEW x \in Int, NEW y \in Int, NEW u \in Int, NEW v \in Int, Same(x, y), Same(u, v)
  PROVE  Same(x + u, y + v) /\ Same(x - u, y - v)
  <1>1. x - y \in Int /\ u - v \in Int /\ Zero(x - y) /\ Zero(u - v)
    BY DEF Same
  <1>2. Zero((x - y) + (u - v)) /\ Zero((x - y) - (u - v))
    BY <1>1, ZeroPlus
  <1>3. (x - y) + (u - v) = (x + u) - (y + v) /\ (x - y) - (u - v) = (x - u) - (y - v)
    OBVIOUS
  <1> QED
    BY <1>2, <1>3 DEF Same

LEMMA SameTimes ==
  ASSUME NEW x \in Int, NEW y \in Int, NEW u \in Int, NEW v \in Int, Same(x, y), Same(u, v)
  PROVE  Same(x * u, y * v)
  <1>1. x - y \in Int /\ u - v \in Int /\ Zero(x - y) /\ Zero(u - v)
    BY DEF Same
  <1>2. Zero((x - y) * u) /\ Zero(y * (u - v))
    BY <1>1, ZeroTimes
  <1>3. (x - y) * u \in Int /\ y * (u - v) \in Int
    OBVIOUS
  <1>4. Zero((x - y) * u + y * (u - v))
    BY <1>2, <1>3, ZeroPlus
  <1>5. (x - y) * u + y * (u - v) = x * u - y * v
    OBVIOUS
  <1> QED
    BY <1>4, <1>5 DEF Same

(* Minus subtracts in the field.                                            *)
LEMMA MinusSubtracts ==
  ASSUME NEW x \in Int, NEW y \in Int
  PROVE  Minus(x, y) \in Scalars /\ Minus(x, y) \in Int /\ Same(Minus(x, y), x - y)
  <1> DEFINE z == x + Order - y
  <1>1. z \in Int /\ x - y \in Int /\ z - (x - y) = Order
    BY OrderType
  <1>2. Same(z, x - y)
    BY <1>1, OrderIsZero DEF Same
  <1> HIDE DEF z
  <1>3. z % Order \in Scalars /\ z % Order \in Int /\ Same(z % Order, z)
    BY <1>1, Remainder
  <1>4. Same(z % Order, x - y)
    BY <1>1, <1>2, <1>3, SameChain
  <1> QED
    BY <1>3, <1>4 DEF Minus, z

----------------------------------------------------------------------------
(* The order is prime: everything but 0 has an inverse.  The least positive *)
(* n that is a multiple of x in the field divides the order.                *)
LEMMA InverseExists ==
  ASSUME NEW x \in Int, ~Zero(x)
  PROVE  \E k \in Int : Same(k * x, 1)
  <1> DEFINE Multiples == {n \in Nat : n > 0 /\ \E k \in Int : Same(k * x, n)}
  <1>1. x % Order \in Multiples
    <2>1. x % Order \in Scalars /\ x % Order \in Int /\ Same(x, x % Order)
      BY Remainder
    <2>2. x % Order # 0
      <3>1. ASSUME x % Order = 0 PROVE Zero(x)
        BY <2>1, <3>1 DEF Same
      <3> QED
        BY <3>1
    <2>3. x % Order \in Nat /\ x % Order > 0
      BY <2>1, <2>2, OrderType DEF Scalars
    <2>4. 1 * x = x /\ 1 \in Int
      OBVIOUS
    <2> QED
      BY <2>1, <2>3, <2>4
  <1>2. PICK m \in Multiples : \A n \in Multiples : m <= n
    BY <1>1, LeastNatural
  <1>3. PICK k \in Int : Same(k * x, m)
    OBVIOUS
  <1>4. m \in Nat /\ m > 0 /\ m < Order
    <2>1. x % Order \in Scalars /\ m <= x % Order
      BY <1>1, <1>2, Remainder
    <2>2. m \in Nat /\ m > 0
      OBVIOUS
    <2> QED
      BY <2>1, <2>2, OrderType DEF Scalars
  <1>5. Order % m = 0
    <2> DEFINE r == Order % m
               q == Order \div m
    <2>1. r \in Nat /\ r < m /\ q \in Int /\ Order = q * m + r
      BY <1>4, OrderType
    <2> HIDE DEF r, q
    <2>2. Zero(k * x - m) /\ k * x - m \in Int
      BY <1>3, <1>4 DEF Same
    <2> DEFINE d == k * x - m
    <2>3. d \in Int /\ Zero(d)
      BY <2>2
    <2> HIDE DEF d
    <2>4. Zero(q * d) /\ q * d \in Int
      BY <2>1, <2>3, ZeroTimes
    <2>5. Zero(q * (k * x - m)) /\ q * (k * x - m) \in Int
      BY <2>4 DEF d
    <2>6. Zero(-(q * (k * x - m)) - Order)
      <3>1. Zero(q * (k * x - m) + Order)
        BY <2>5, OrderIsZero, OrderType, ZeroPlus
      <3>2. Zero(0 - (q * (k * x - m) + Order))
        BY <3>1, <2>5, OrderType, ZeroIsZero, ZeroPlus
      <3>3. 0 - (q * (k * x - m) + Order) = -(q * (k * x - m)) - Order
        BY <2>5, OrderType
      <3> QED
        BY <3>2, <3>3
    <2>7. -(q * (k * x - m)) - Order = ((-q) * k) * x - r
      BY <1>4, <2>1, OrderType
    <2>8. Zero(((-q) * k) * x - r)
      BY <2>6, <2>7
    <2>9. (-q) * k \in Int
      BY <2>1
    <2>10. ASSUME r > 0 PROVE r \in Multiples
      BY <2>1, <2>8, <2>9, <2>10 DEF Same
    <2>11. r = 0
      BY <1>2, <1>4, <2>1, <2>10
    <2> QED
      BY <2>11 DEF r
  <1>6. m = 1
    <2>1. m \in 2..(Order - 1) \/ m = 1
      BY <1>4, OrderType
    <2> QED
      BY <1>5, <2>1, PrimeOrder
  <1> QED
    BY <1>3, <1>6

LEMMA Cancels ==
  ASSUME NEW x \in Int, NEW y \in Int, ~Zero(x), Zero(x * y)
  PROVE  Zero(y)
  <1>1. PICK k \in Int : Same(k * x, 1)
    BY InverseExists
  <1> DEFINE d == k * x - 1
             e == x * y
  <1>2. d \in Int /\ Zero(d) /\ e \in Int /\ Zero(e)
    BY <1>1 DEF Same
  <1>3. k * e - d * y = y
    OBVIOUS
  <1> HIDE DEF d, e
  <1>4. Zero(k * e) /\ Zero(d * y)
    <2>1. Zero(k * e)
      BY <1>2, ZeroTimes
    <2>2. Zero(d * y)
      BY <1>2, ZeroTimes
    <2> QED
      BY <2>1, <2>2
  <1>5. Zero(k * e - d * y)
    <2>1. k * e \in Int /\ d * y \in Int
      BY <1>2
    <2> QED
      BY <1>4, <2>1, ZeroPlus
  <1> QED
    BY <1>3, <1>5 DEF d, e

(* invert returns the inverse.                                              *)
LEMMA InvertInverts ==
  ASSUME NEW x \in Scalars, x # 0
  PROVE  invert(x) \in Scalars /\ invert(x) \in Int /\ Same(x * invert(x), 1)
  <1>1. x \in Int /\ ~Zero(x)
    <2>1. x \in Int /\ -Order < x /\ x < Order
      BY OrderType DEF Scalars
    <2> QED
      BY <2>1, ZeroBelowOrder
  <1>2. PICK k \in Int : Same(k * x, 1)
    BY <1>1, InverseExists
  <1>3. k % Order \in Scalars /\ k % Order \in Int /\ Same(k % Order, k)
    BY Remainder
  <1>4. Same(x * (k % Order), 1)
    <2>1. Same(x * (k % Order), x * k)
      BY <1>1, <1>3, SameItself, SameTimes
    <2>2. x * k = k * x /\ x * k \in Int /\ x * (k % Order) \in Int
      BY <1>1, <1>3
    <2> QED
      BY <1>2, <2>1, <2>2, SameChain
  <1>5. 1 \in Scalars
    BY OrderType DEF Scalars
  <1>6. \A y \in Scalars : (x * y) % Order = 1 <=> Same(x * y, 1)
    <2> SUFFICES ASSUME NEW y \in Scalars PROVE (x * y) % Order = 1 <=> Same(x * y, 1)
      OBVIOUS
    <2>1. x * y \in Int
      BY <1>1, ScalarRemainder
    <2> QED
      BY <1>5, <2>1, ScalarRemainder, SameRemainders
  <1>7. \E y \in Scalars : (x * y) % Order = 1
    BY <1>3, <1>4, <1>6
  <1>8. invert(x) \in Scalars /\ (x * invert(x)) % Order = 1
    BY <1>7 DEF invert
  <1> QED
    BY <1>6, <1>8, ScalarRemainder

----------------------------------------------------------------------------
(* Sums in the field.                                                       *)
LEMMA SumsSame ==
  ASSUME NEW S, IsFiniteSet(S), NEW f, NEW g, \A x \in S : f[x] \in Int /\ g[x] \in Int,
         \A x \in S : Same(f[x], g[x])
  PROVE  Same(SumOver(f, S), SumOver(g, S))
  <1> DEFINE Good == {T \in SUBSET S : Same(SumOver(f, T), SumOver(g, T))}
  <1>1. {} \in Good
    BY SumEmpty, SameItself, 0 \in Int
  <1>2. ASSUME NEW T \in SUBSET S, T # {}, \A x \in T : T \ {x} \in Good PROVE T \in Good
    <2>1. PICK x \in T : TRUE
      BY <1>2
    <2> DEFINE U == T \ {x}
    <2>2. U \in SUBSET S /\ U \in Good
      BY <1>2
    <2>3. SumOver(f, T) = f[x] + SumOver(f, U) /\ SumOver(f, U) \in Int
      BY <2>2, SumStep
    <2>4. SumOver(g, T) = g[x] + SumOver(g, U) /\ SumOver(g, U) \in Int
      BY <2>2, SumStep
    <2>5. f[x] \in Int /\ g[x] \in Int /\ Same(f[x], g[x])
      OBVIOUS
    <2>6. Same(SumOver(f, U), SumOver(g, U))
      BY <2>2
    <2> QED
      BY <2>3, <2>4, <2>5, <2>6, SamePlus
  <1> HIDE DEF Good
  <1>3. S \in Good
    BY <1>1, <1>2, FiniteSetsReached
  <1> QED
    BY <1>3 DEF Good

LEMMA SumsEqual ==
  ASSUME NEW S, IsFiniteSet(S), NEW f, NEW g, \A x \in S : f[x] \in Int /\ g[x] = f[x]
  PROVE  SumOver(f, S) = SumOver(g, S)
  <1> DEFINE Good == {T \in SUBSET S : SumOver(f, T) = SumOver(g, T)}
  <1>1. {} \in Good
    BY SumEmpty
  <1>2. ASSUME NEW T \in SUBSET S, T # {}, \A x \in T : T \ {x} \in Good PROVE T \in Good
    <2>1. PICK x \in T : TRUE
      BY <1>2
    <2>2. T \ {x} \in Good
      BY <1>2
    <2>3. SumOver(f, T) = f[x] + SumOver(f, T \ {x})
      BY SumStep
    <2>4. SumOver(g, T) = g[x] + SumOver(g, T \ {x})
      BY SumStep
    <2> QED
      BY <2>2, <2>3, <2>4
  <1> HIDE DEF Good
  <1>3. S \in Good
    BY <1>1, <1>2, FiniteSetsReached
  <1> QED
    BY <1>3 DEF Good

LEMMA SumOfSums ==
  ASSUME NEW S, IsFiniteSet(S), NEW f, NEW g, NEW h,
         \A x \in S : f[x] \in Int /\ g[x] \in Int /\ h[x] = f[x] + g[x]
  PROVE  SumOver(h, S) = SumOver(f, S) + SumOver(g, S)
  <1> DEFINE Good == {T \in SUBSET S : SumOver(h, T) = SumOver(f, T) + SumOver(g, T)}
  <1>0. \A x \in S : h[x] \in Int
    OBVIOUS
  <1>1. {} \in Good
    BY SumEmpty
  <1>2. ASSUME NEW T \in SUBSET S, T # {}, \A x \in T : T \ {x} \in Good PROVE T \in Good
    <2>1. PICK x \in T : TRUE
      BY <1>2
    <2> DEFINE U == T \ {x}
    <2>2. U \in SUBSET S /\ U \in Good
      BY <1>2
    <2>3. SumOver(f, T) = f[x] + SumOver(f, U) /\ SumOver(f, U) \in Int
      BY <2>2, SumStep
    <2>4. SumOver(g, T) = g[x] + SumOver(g, U) /\ SumOver(g, U) \in Int
      BY <2>2, SumStep
    <2>5. SumOver(h, T) = h[x] + SumOver(h, U)
      BY <1>0, SumStep
    <2>6. SumOver(h, U) = SumOver(f, U) + SumOver(g, U)
      BY <2>2
    <2>7. f[x] \in Int /\ g[x] \in Int /\ h[x] = f[x] + g[x]
      OBVIOUS
    <2> HIDE DEF U
    <2> QED
      BY <2>3, <2>4, <2>5, <2>6, <2>7
  <1> HIDE DEF Good
  <1>3. S \in Good
    BY <1>1, <1>2, FiniteSetsReached
  <1> QED
    BY <1>3 DEF Good

LEMMA SumOfMultiples ==
  ASSUME NEW S, IsFiniteSet(S), NEW c \in Int, NEW f, NEW g,
         \A x \in S : f[x] \in Int /\ g[x] = c * f[x]
  PROVE  SumOver(g, S) = c * SumOver(f, S)
  <1> DEFINE Good == {T \in SUBSET S : SumOver(g, T) = c * SumOver(f, T)}
  <1>0. \A x \in S : g[x] \in Int
    OBVIOUS
  <1>1. {} \in Good
    BY SumEmpty
  <1>2. ASSUME NEW T \in SUBSET S, T # {}, \A x \in T : T \ {x} \in Good PROVE T \in Good
    <2>1. PICK x \in T : TRUE
      BY <1>2
    <2> DEFINE U == T \ {x}
    <2>2. U \in SUBSET S /\ U \in Good
      BY <1>2
    <2>3. SumOver(f, T) = f[x] + SumOver(f, U) /\ SumOver(f, U) \in Int
      BY <2>2, SumStep
    <2>4. SumOver(g, T) = g[x] + SumOver(g, U)
      BY <1>0, SumStep
    <2>5. SumOver(g, U) = c * SumOver(f, U)
      BY <2>2
    <2>6. f[x] \in Int /\ g[x] = c * f[x]
      OBVIOUS
    <2> HIDE DEF U
    <2>7. c * f[x] + c * SumOver(f, U) = c * (f[x] + SumOver(f, U))
      BY <2>3, <2>6
    <2> QED
      BY <2>3, <2>4, <2>5, <2>6, <2>7
  <1> HIDE DEF Good
  <1>3. S \in Good
    BY <1>1, <1>2, FiniteSetsReached
  <1> QED
    BY <1>3 DEF Good

LEMMA SumOfZeros ==
  ASSUME NEW S, IsFiniteSet(S), NEW f, \A x \in S : f[x] = 0
  PROVE  SumOver(f, S) = 0
  <1>1. \A x \in S : f[x] \in Int /\ f[x] = 0 * f[x]
    OBVIOUS
  <1>2. SumOver(f, S) \in Int
    BY <1>1, SumStep
  <1>3. SumOver(f, S) = 0 * SumOver(f, S)
    BY <1>1, SumOfMultiples, 0 \in Int
  <1> QED
    BY <1>2, <1>3

(* Sums are exchanged: a[x][k] over S and over K, in either order.          *)
LEMMA SumsExchange ==
  ASSUME NEW S, IsFiniteSet(S), NEW K, IsFiniteSet(K), NEW a,
         \A x \in S : \A k \in K : a[x][k] \in Int
  PROVE  SumOver([x \in S |-> SumOver(a[x], K)], S)
           = SumOver([k \in K |-> SumOver([x \in S |-> a[x][k]], S)], K)
  <1> DEFINE column(k) == [x \in S |-> a[x][k]]
             columns   == [k \in K |-> SumOver(column(k), S)]
             rows(L)   == [x \in S |-> SumOver(a[x], L)]
             Good      == {L \in SUBSET K : SumOver(rows(L), S) = SumOver(columns, L)}
  <1>1. \A k \in K : columns[k] \in Int
    <2> SUFFICES ASSUME NEW k \in K PROVE SumOver(column(k), S) \in Int
      OBVIOUS
    <2>1. \A x \in S : column(k)[x] \in Int
      OBVIOUS
    <2> HIDE DEF column
    <2> QED
      BY <2>1, SumStep
  <1>2. \A L \in SUBSET K : \A x \in S : rows(L)[x] \in Int
    <2> SUFFICES ASSUME NEW L \in SUBSET K, NEW x \in S PROVE SumOver(a[x], L) \in Int
      OBVIOUS
    <2> QED
      BY SumStep
  <1>3. {} \in Good
    <2> DEFINE r == rows({})
    <2>1. \A x \in S : r[x] = 0
      BY SumEmpty
    <2> HIDE DEF r
    <2>2. SumOver(r, S) = 0
      BY <2>1, SumOfZeros
    <2> QED
      BY <2>2, SumEmpty DEF r
  <1>4. ASSUME NEW L \in SUBSET K, L # {}, \A k \in L : L \ {k} \in Good PROVE L \in Good
    <2>1. PICK k \in L : TRUE
      BY <1>4
    <2> DEFINE M == L \ {k}
               f == rows(L)
               g == rows(M)
               h == column(k)
    <2>2. M \in SUBSET K /\ k \in K /\ SumOver(g, S) = SumOver(columns, M)
      BY <1>4
    <2>3. \A x \in S : f[x] = h[x] + g[x]
      <3> SUFFICES ASSUME NEW x \in S PROVE SumOver(a[x], L) = a[x][k] + SumOver(a[x], M)
        OBVIOUS
      <3> QED
        BY SumStep
    <2>4. \A x \in S : h[x] \in Int /\ g[x] \in Int
      BY <1>2, <2>2
    <2>5. SumOver(columns, L) = columns[k] + SumOver(columns, M)
      <3> HIDE DEF columns
      <3> QED
        BY <1>1, SumStep
    <2>6. columns[k] = SumOver(h, S)
      BY <2>2
    <2> HIDE DEF f, g, h
    <2>7. SumOver(f, S) = SumOver(h, S) + SumOver(g, S)
      BY <2>3, <2>4, SumOfSums
    <2> QED
      BY <2>2, <2>5, <2>6, <2>7 DEF f
  <1> HIDE DEF Good
  <1>5. K \in Good
    BY <1>3, <1>4, FiniteSetsReached
  <1> QED
    BY <1>5 DEF Good

----------------------------------------------------------------------------
(* Products in the field.                                                   *)
LEMMA ProductsEqual ==
  ASSUME NEW S, IsFiniteSet(S), NEW f, NEW g, \A x \in S : f[x] \in Int /\ g[x] = f[x]
  PROVE  ProductOver(f, S) = ProductOver(g, S)
  <1> DEFINE Good == {T \in SUBSET S : ProductOver(f, T) = ProductOver(g, T)}
  <1>1. {} \in Good
    BY ProductEmpty
  <1>2. ASSUME NEW T \in SUBSET S, T # {}, \A x \in T : T \ {x} \in Good PROVE T \in Good
    <2>1. PICK x \in T : TRUE
      BY <1>2
    <2>2. T \ {x} \in Good
      BY <1>2
    <2>3. ProductOver(f, T) = f[x] * ProductOver(f, T \ {x})
      BY ProductStep
    <2>4. ProductOver(g, T) = g[x] * ProductOver(g, T \ {x})
      BY ProductStep
    <2> QED
      BY <2>2, <2>3, <2>4
  <1> HIDE DEF Good
  <1>3. S \in Good
    BY <1>1, <1>2, FiniteSetsReached
  <1> QED
    BY <1>3 DEF Good

LEMMA OneIsNotZero == ~Zero(1)
  <1>1. 1 \in Int /\ -Order < 1 /\ 1 < Order
    BY OrderType
  <1> QED
    BY <1>1, ZeroBelowOrder

LEMMA ProductIsNotZero ==
  ASSUME NEW S, IsFiniteSet(S), NEW f, \A x \in S : f[x] \in Int /\ ~Zero(f[x])
  PROVE  ~Zero(ProductOver(f, S))
  <1> DEFINE Good == {T \in SUBSET S : ~Zero(ProductOver(f, T))}
  <1>1. {} \in Good
    BY ProductEmpty, OneIsNotZero
  <1>2. ASSUME NEW T \in SUBSET S, T # {}, \A x \in T : T \ {x} \in Good PROVE T \in Good
    <2>1. PICK x \in T : TRUE
      BY <1>2
    <2> DEFINE U == T \ {x}
    <2>2. U \in SUBSET S /\ ~Zero(ProductOver(f, U))
      BY <1>2
    <2>3. ProductOver(f, T) = f[x] * ProductOver(f, U) /\ ProductOver(f, U) \in Int
      BY <2>2, ProductStep
    <2>4. f[x] \in Int /\ ~Zero(f[x])
      OBVIOUS
    <2> QED
      BY <2>2, <2>3, <2>4, Cancels
  <1> HIDE DEF Good
  <1>3. S \in Good
    BY <1>1, <1>2, FiniteSetsReached
  <1> QED
    BY <1>3 DEF Good

(* Sum and Product are the remainders of a sum and a product.               *)
LEMMA SumIs == ASSUME NEW f PROVE Sum(f) = SumOver(f, DOMAIN f) % Order
  BY DEF Sum, FoldFunction, SumOver

LEMMA ProductIs == ASSUME NEW f PROVE Product(f) = ProductOver(f, DOMAIN f) % Order
  BY DEF Product, FoldFunction, ProductOver

----------------------------------------------------------------------------
(* Lagrange coefficients.  Signers have distinct indices below the order.   *)
Indices == 1..(Order - 1)

Numerator(i, S)   == ProductOver([j \in S \ {i} |-> j], S \ {i})
Denominator(i, S) == ProductOver([j \in S \ {i} |-> Minus(j, i)], S \ {i})

LEMMA SignersFinite ==
  ASSUME NEW S \in SUBSET Indices
  PROVE  IsFiniteSet(S) /\ \A i \in S : i \in Int /\ i \in Scalars /\ i # 0
  <1>1. 1 \in Int /\ Order - 1 \in Int
    BY OrderType
  <1>2. IsFiniteSet(Indices)
    BY <1>1, FS_Interval DEF Indices
  <1>3. \A i \in Indices : i \in Int /\ i \in Scalars /\ i # 0
    BY OrderType DEF Indices, Scalars
  <1>4. IsFiniteSet(S)
    BY <1>2, FS_Subset
  <1> QED
    BY <1>3, <1>4

LEMMA DistinctIndices ==
  ASSUME NEW i \in Indices, NEW j \in Indices, i # j
  PROVE  ~Zero(j - i) /\ ~Zero(Minus(j, i))
  <1>1. i \in Int /\ j \in Int /\ j - i \in Int
    BY OrderType DEF Indices
  <1>2. -Order < j - i /\ j - i < Order /\ j - i # 0
    BY OrderType DEF Indices
  <1>3. ~Zero(j - i)
    BY <1>1, <1>2, ZeroBelowOrder
  <1>4. Minus(j, i) \in Int /\ Same(Minus(j, i), j - i)
    BY <1>1, MinusSubtracts
  <1>5. ASSUME Zero(Minus(j, i)) PROVE FALSE
    <2> DEFINE m == Minus(j, i)
               d == j - i
    <2>1. Zero(m - d) /\ m - d \in Int /\ m \in Int /\ d \in Int /\ Zero(m)
      BY <1>1, <1>4, <1>5 DEF Same
    <2> HIDE DEF m, d
    <2>2. Zero(m - (m - d))
      BY <2>1, ZeroPlus
    <2>3. m - (m - d) = d
      BY <2>1
    <2> QED
      BY <1>3, <2>2, <2>3 DEF d
  <1> QED
    BY <1>3, <1>5

LEMMA FractionParts ==
  ASSUME NEW S \in SUBSET Indices, NEW i \in S
  PROVE  /\ Numerator(i, S) \in Int
         /\ Denominator(i, S) \in Int /\ ~Zero(Denominator(i, S))
  <1> DEFINE f == [j \in S \ {i} |-> j]
             g == [j \in S \ {i} |-> Minus(j, i)]
  <1>1. IsFiniteSet(S \ {i})
    BY SignersFinite, S \ {i} \in SUBSET Indices
  <1>2. \A j \in S \ {i} : f[j] \in Int
    BY SignersFinite
  <1>3. \A j \in S \ {i} : g[j] \in Int /\ ~Zero(g[j])
    BY DistinctIndices, MinusSubtracts, SignersFinite
  <1> HIDE DEF f, g
  <1>4. ProductOver(f, S \ {i}) \in Int /\ ProductOver(g, S \ {i}) \in Int
    BY <1>1, <1>2, <1>3, ProductStep
  <1>5. ~Zero(ProductOver(g, S \ {i}))
    BY <1>1, <1>3, ProductIsNotZero
  <1> QED
    BY <1>4, <1>5 DEF f, g, Numerator, Denominator

(* One more signer multiplies both parts of every other signer's fraction.  *)
LEMMA FractionStep ==
  ASSUME NEW S \in SUBSET Indices, NEW i \in S, NEW a \in S, i # a
  PROVE  /\ Numerator(i, S) = a * Numerator(i, S \ {a})
         /\ Denominator(i, S) = Minus(a, i) * Denominator(i, S \ {a})
  <1> DEFINE T == S \ {i}
             U == (S \ {a}) \ {i}
             f == [j \in T |-> j]
             g == [j \in T |-> Minus(j, i)]
             fU == [j \in U |-> j]
             gU == [j \in U |-> Minus(j, i)]
  <1>1. IsFiniteSet(T) /\ IsFiniteSet(U)
    BY SignersFinite, T \in SUBSET Indices, U \in SUBSET Indices
  <1>2. T \ {a} = U /\ a \in T /\ U \in SUBSET T
    OBVIOUS
  <1>3. f[a] = a /\ g[a] = Minus(a, i)
    BY <1>2
  <1>4. \A j \in T : f[j] \in Int /\ g[j] \in Int
    BY MinusSubtracts, SignersFinite
  <1>5. \A j \in U : f[j] \in Int /\ fU[j] = f[j] /\ g[j] \in Int /\ gU[j] = g[j]
    BY <1>2, <1>4
  <1> HIDE DEF f, g, fU, gU, T, U
  <1>6. ProductOver(f, T) = f[a] * ProductOver(f, U)
    BY <1>1, <1>2, <1>4, ProductStep
  <1>7. ProductOver(g, T) = g[a] * ProductOver(g, U)
    BY <1>1, <1>2, <1>4, ProductStep
  <1>8. ProductOver(f, U) = ProductOver(fU, U) /\ ProductOver(g, U) = ProductOver(gU, U)
    BY <1>1, <1>5, ProductsEqual
  <1> QED
    BY <1>3, <1>6, <1>7, <1>8 DEF f, g, fU, gU, T, U, Numerator, Denominator

(* A coefficient is its numerator over its denominator.                     *)
LEMMA CoefficientIsFraction ==
  ASSUME NEW S \in SUBSET Indices, NEW i \in S
  PROVE  /\ coefficient(i, S) \in Scalars
         /\ coefficient(i, S) \in Int
         /\ Same(coefficient(i, S) * Denominator(i, S), Numerator(i, S))
  <1> DEFINE N == Numerator(i, S)
             D == Denominator(i, S)
             n == N % Order
             d == D % Order
             v == invert(d)
             l == (n * v) % Order
  <1>1. l = coefficient(i, S)
    <2> DEFINE indices == [j \in S |-> j]
               others  == {k \in DOMAIN indices : indices[k] # i}
    <2>1. others = S \ {i} /\ \A k \in others : indices[k] = k
      OBVIOUS
    <2>2. /\ [k \in others |-> indices[k]] = [j \in S \ {i} |-> j]
          /\ [k \in others |-> Minus(indices[k], i)] = [j \in S \ {i} |-> Minus(j, i)]
      BY <2>1
    <2> QED
      BY <2>2, ProductIs, Zenon DEF coefficient, lagrange_coefficient, Numerator, Denominator
  <1>2. N \in Int /\ D \in Int /\ ~Zero(D)
    BY FractionParts
  <1> HIDE DEF N, D
  <1>3. n \in Scalars /\ n \in Int /\ Same(n, N) /\ d \in Scalars /\ d \in Int /\ Same(d, D)
    BY <1>2, Remainder
  <1>4. d # 0
    <2>1. ASSUME d = 0 PROVE FALSE
      <3>1. Same(D, d)
        BY <1>2, <1>3, SameSwap
      <3>2. D - d = D
        BY <1>2, <2>1
      <3> QED
        BY <1>2, <3>1, <3>2 DEF Same
    <2> QED
      BY <2>1
  <1> HIDE DEF n, d
  <1>5. v \in Int /\ Same(d * v, 1)
    BY <1>3, <1>4, InvertInverts
  <1> HIDE DEF v
  <1>6. n * v \in Int
    BY <1>3, <1>5
  <1>7. l \in Scalars /\ l \in Int /\ Same(l, n * v)
    BY <1>6, Remainder
  <1> HIDE DEF l
  <1>8. Same(l * D, N)
    <2>1. Same(D, d)
      BY <1>2, <1>3, SameSwap
    <2>2. Same(l * D, (n * v) * d)
      BY <1>2, <1>3, <1>6, <1>7, <2>1, SameTimes
    <2>3. Same(n * (d * v), N * 1)
      <3>1. d * v \in Int /\ 1 \in Int
        BY <1>3, <1>5
      <3> QED
        BY <1>2, <1>3, <1>5, <3>1, SameTimes
    <2>4. (n * v) * d = n * (d * v) /\ N * 1 = N
      BY <1>2, <1>3, <1>5
    <2>5. l * D \in Int /\ n * (d * v) \in Int
      BY <1>2, <1>3, <1>5, <1>7
    <2> QED
      BY <1>2, <2>2, <2>3, <2>4, <2>5, SameChain
  <1> QED
    BY <1>1, <1>7, <1>8 DEF N, D

(* What a signer's coefficient loses when signer a leaves.                  *)
LEMMA CoefficientStep ==
  ASSUME NEW S \in SUBSET Indices, NEW i \in S, NEW a \in S, i # a
  PROVE  Same((a - i) * coefficient(i, S), a * coefficient(i, S \ {a}))
  <1> DEFINE U == S \ {a}
             l == coefficient(i, S)
             k == coefficient(i, U)
             N == Numerator(i, U)
             D == Denominator(i, U)
             m == Minus(a, i)
  <1>1. U \in SUBSET Indices /\ i \in U
    OBVIOUS
  <1>2. N \in Int /\ D \in Int /\ ~Zero(D)
    BY <1>1, FractionParts
  <1>3. Numerator(i, S) = a * N /\ Denominator(i, S) = m * D
    BY FractionStep
  <1>4. l \in Int /\ Same(l * (m * D), a * N)
    BY <1>3, CoefficientIsFraction
  <1>5. k \in Int /\ Same(k * D, N)
    BY <1>1, CoefficientIsFraction
  <1>6. a \in Int /\ i \in Int
    BY SignersFinite
  <1>7. m \in Int /\ Same(m, a - i)
    BY <1>6, MinusSubtracts
  <1> HIDE DEF U, l, k, N, D, m
  <1>8. Same(a * (k * D), a * N)
    <2>1. k * D \in Int
      BY <1>2, <1>5
    <2> QED
      BY <1>2, <1>5, <1>6, <2>1, SameItself, SameTimes
  <1>9. Zero(l * m - a * k)
    <2> DEFINE x == l * (m * D)
               y == a * (k * D)
               z == a * N
               e == l * m - a * k
    <2>1. x \in Int /\ y \in Int /\ z \in Int /\ e \in Int
      BY <1>2, <1>4, <1>5, <1>6, <1>7
    <2>2. Same(x, z) /\ Same(y, z)
      BY <1>4, <1>8
    <2>3. x - y = D * e
      BY <1>2, <1>4, <1>5, <1>6, <1>7
    <2> HIDE DEF x, y, z, e
    <2>4. Same(x, y)
      BY <2>1, <2>2, SameSwap, SameChain
    <2>5. Zero(D * e)
      BY <2>3, <2>4 DEF Same
    <2>6. Zero(e)
      BY <1>2, <2>1, <2>5, Cancels
    <2> QED
      BY <2>6 DEF e
  <1>10. Same((a - i) * l, m * l)
    BY <1>4, <1>6, <1>7, SameItself, SameSwap, SameTimes
  <1>11. Same(m * l, a * k)
    <2>1. m * l = l * m
      BY <1>4, <1>7
    <2> QED
      BY <1>9, <2>1 DEF Same
  <1>12. (a - i) * l \in Int /\ m * l \in Int /\ a * k \in Int
    BY <1>4, <1>5, <1>6, <1>7
  <1>13. Same((a - i) * l, a * k)
    BY <1>10, <1>11, <1>12, SameChain
  <1> QED
    BY <1>13 DEF l, k, U

----------------------------------------------------------------------------
(* Interpolation at zero of the values f of the signers S.                  *)
Terms(f, S)       == [i \in S |-> coefficient(i, S) * f[i]]
Interpolate(f, S) == SumOver(Terms(f, S), S)

LEMMA TermsType ==
  ASSUME NEW S \in SUBSET Indices, NEW f, \A i \in S : f[i] \in Int
  PROVE  /\ \A i \in S : Terms(f, S)[i] \in Int
         /\ Interpolate(f, S) \in Int
  <1>1. \A i \in S : Terms(f, S)[i] \in Int
    <2> SUFFICES ASSUME NEW i \in S PROVE coefficient(i, S) * f[i] \in Int
      BY DEF Terms
    <2>1. coefficient(i, S) \in Int /\ f[i] \in Int
      BY CoefficientIsFraction
    <2> QED
      BY <2>1
  <1>2. IsFiniteSet(S)
    BY SignersFinite
  <1> QED
    BY <1>1, <1>2, SumStep DEF Interpolate

LEMMA InterpolateSame ==
  ASSUME NEW S \in SUBSET Indices, NEW f, NEW g,
         \A i \in S : f[i] \in Int /\ g[i] \in Int /\ Same(f[i], g[i])
  PROVE  Same(Interpolate(f, S), Interpolate(g, S))
  <1>1. ASSUME NEW i \in S PROVE Same(Terms(f, S)[i], Terms(g, S)[i])
    <2>1. coefficient(i, S) \in Int
      BY CoefficientIsFraction
    <2>2. f[i] \in Int /\ g[i] \in Int /\ Same(f[i], g[i])
      OBVIOUS
    <2> DEFINE l == coefficient(i, S)
    <2>3. Terms(f, S)[i] = l * f[i] /\ Terms(g, S)[i] = l * g[i]
      BY DEF Terms
    <2> HIDE DEF l
    <2>4. l \in Int
      BY <2>1 DEF l
    <2>5. Same(l * f[i], l * g[i])
      BY <2>2, <2>4, SameItself, SameTimes
    <2> QED
      BY <2>3, <2>5
  <1>2. \A i \in S : Terms(f, S)[i] \in Int /\ Terms(g, S)[i] \in Int
    BY TermsType
  <1>3. IsFiniteSet(S)
    BY SignersFinite
  <1> QED
    BY <1>1, <1>2, <1>3, SumsSame DEF Interpolate

(* One signer less, against every value times its signer's index.           *)
LEMMA InterpolateStep ==
  ASSUME NEW S \in SUBSET Indices, NEW a \in S, NEW f, NEW g,
         \A i \in S : f[i] \in Int /\ g[i] \in Int /\ Same(g[i], i * f[i])
  PROVE  Same(a * Interpolate(f, S) - Interpolate(g, S), a * Interpolate(f, S \ {a}))
  <1> DEFINE U == S \ {a}
             g0 == [i \in S |-> i * f[i]]
             F == Terms(f, S)
             G == Terms(g0, S)
             aF == [i \in S |-> a * F[i]]
             H == [i \in S |-> (a - i) * coefficient(i, S) * f[i]]
             FU == Terms(f, U)
             aFU == [i \in U |-> a * FU[i]]
  <1>1. IsFiniteSet(S) /\ IsFiniteSet(U) /\ U \in SUBSET S /\ U \in SUBSET Indices
    BY SignersFinite, U \in SUBSET Indices
  <1>2. a \in Int /\ \A i \in S : i \in Int
    BY SignersFinite
  <1>3. \A i \in S : g0[i] \in Int /\ Same(g[i], g0[i])
    BY <1>2
  <1>4. \A i \in S : F[i] \in Int /\ G[i] \in Int
    BY <1>3, TermsType
  <1>5. \A i \in U : FU[i] \in Int
    BY <1>1, TermsType
  <1>6. \A i \in S : H[i] \in Int /\ aF[i] = H[i] + G[i]
    <2> SUFFICES ASSUME NEW i \in S PROVE H[i] \in Int /\ aF[i] = H[i] + G[i]
      OBVIOUS
    <2> DEFINE l == coefficient(i, S)
    <2>1. l \in Int /\ f[i] \in Int /\ i \in Int
      BY <1>2, CoefficientIsFraction
    <2>2. H[i] = (a - i) * l * f[i] /\ aF[i] = a * (l * f[i]) /\ G[i] = l * (i * f[i])
      BY DEF Terms
    <2> HIDE DEF l, H, aF, G
    <2> QED
      BY <1>2, <2>1, <2>2
  <1>7. H[a] = 0
    <2>1. H[a] = (a - a) * coefficient(a, S) * f[a]
      OBVIOUS
    <2>2. coefficient(a, S) \in Int /\ f[a] \in Int
      BY CoefficientIsFraction
    <2> HIDE DEF H
    <2> QED
      BY <1>2, <2>1, <2>2
  <1>8. \A i \in U : aFU[i] \in Int /\ Same(H[i], aFU[i])
    <2> SUFFICES ASSUME NEW i \in U PROVE aFU[i] \in Int /\ Same(H[i], aFU[i])
      OBVIOUS
    <2> DEFINE l == coefficient(i, S)
               k == coefficient(i, U)
    <2>1. Same((a - i) * l, a * k)
      BY CoefficientStep
    <2>2. l \in Int /\ k \in Int /\ f[i] \in Int /\ i \in Int
      BY <1>1, <1>2, CoefficientIsFraction
    <2>3. H[i] = (a - i) * l * f[i] /\ aFU[i] = a * (k * f[i])
      BY <1>1 DEF Terms
    <2> HIDE DEF l, k, H, aFU
    <2>4. (a - i) * l \in Int /\ a * k \in Int
      BY <1>2, <2>2
    <2>5. Same(((a - i) * l) * f[i], (a * k) * f[i])
      BY <2>1, <2>2, <2>4, SameItself, SameTimes
    <2>6. (a * k) * f[i] = a * (k * f[i]) /\ aFU[i] \in Int
      BY <1>2, <2>2, <2>3
    <2> QED
      BY <2>3, <2>5, <2>6
  <1>9. \A i \in S : aF[i] = a * F[i]
    OBVIOUS
  <1>10. \A i \in U : aFU[i] = a * FU[i]
    OBVIOUS
  <1> DEFINE X == Interpolate(f, S)
             Y == Interpolate(g, S)
             Y0 == Interpolate(g0, S)
             Z == Interpolate(f, U)
  <1>11. X \in Int /\ Y \in Int /\ Y0 \in Int /\ Z \in Int
    <2>1. \A i \in U : f[i] \in Int
      BY <1>1
    <2> QED
      BY <1>1, <1>3, <2>1, TermsType
  <1>12. Same(Y, Y0)
    BY <1>3, InterpolateSame
  <1> HIDE DEF aF, H, aFU
  <1>13. SumOver(aF, S) = a * X
    <2> HIDE DEF F
    <2>1. SumOver(aF, S) = a * SumOver(F, S)
      BY <1>1, <1>2, <1>4, <1>9, SumOfMultiples
    <2> QED
      BY <2>1 DEF F, Interpolate
  <1>14. SumOver(aF, S) = SumOver(H, S) + Y0
    <2> HIDE DEF G
    <2>1. SumOver(aF, S) = SumOver(H, S) + SumOver(G, S)
      BY <1>1, <1>4, <1>6, SumOfSums
    <2> QED
      BY <2>1 DEF G, Interpolate
  <1>15. SumOver(H, S) = SumOver(H, U) /\ SumOver(H, U) \in Int
    <2>1. IsFiniteSet(S) /\ \A i \in S : H[i] \in Int
      BY <1>1, <1>6
    <2>2. \A T \in SUBSET S : /\ SumOver(H, T) \in Int
                             /\ \A x \in T : SumOver(H, T) = H[x] + SumOver(H, T \ {x})
      BY <2>1, SumStep
    <2>3. SumOver(H, S) = H[a] + SumOver(H, U) /\ SumOver(H, U) \in Int
      BY <2>2
    <2> QED
      BY <1>7, <2>3
  <1>16. Same(SumOver(H, U), SumOver(aFU, U))
    BY <1>1, <1>6, <1>8, SumsSame
  <1>17. SumOver(aFU, U) = a * Z
    <2> HIDE DEF FU
    <2>1. SumOver(aFU, U) = a * SumOver(FU, U)
      BY <1>1, <1>2, <1>5, <1>10, SumOfMultiples
    <2> QED
      BY <2>1 DEF FU, Interpolate
  <1> HIDE DEF X, Y, Y0, Z
  <1>18. a * X - Y0 = SumOver(H, U) /\ Same(a * X - Y0, a * Z)
    BY <1>2, <1>11, <1>13, <1>14, <1>15, <1>16, <1>17
  <1>19. Same(a * X - Y, a * X - Y0)
    <2>1. a * X \in Int
      BY <1>2, <1>11
    <2> QED
      BY <1>11, <1>12, <2>1, SameItself, SamePlus
  <1>20. Same(a * X - Y, a * Z)
    <2>1. a * X - Y \in Int /\ a * X - Y0 \in Int /\ a * Z \in Int
      BY <1>2, <1>11
    <2> QED
      BY <1>18, <1>19, <2>1, SameChain
  <1> QED
    BY <1>20 DEF X, Y, Z

(* The coefficients of any signers sum to 1.                                *)
LEMMA CoefficientsSumToOne ==
  ASSUME NEW S \in SUBSET Indices, S # {}, NEW one, \A i \in S : one[i] = 1
  PROVE  Same(Interpolate(one, S), 1)
  <1> DEFINE Good == {T \in SUBSET S : T # {} => Same(Interpolate(one, T), 1)}
  <1>1. {} \in Good
    OBVIOUS
  <1>2. ASSUME NEW T \in SUBSET S, T # {}, \A x \in T : T \ {x} \in Good PROVE T \in Good
    <2>1. PICK a \in T : TRUE
      BY <1>2
    <2>2. T \in SUBSET Indices /\ \A i \in T : i \in Int /\ one[i] \in Int /\ one[i] = 1
      BY SignersFinite
    <2>3. IsFiniteSet(T)
      BY <2>2, SignersFinite
    <2>4. CASE T = {a}
      <3> DEFINE l == coefficient(a, T)
      <3>1. l \in Int /\ Same(l * Denominator(a, T), Numerator(a, T))
        BY <2>2, CoefficientIsFraction
      <3>2. Denominator(a, T) = 1 /\ Numerator(a, T) = 1
        <4>1. T \ {a} = {}
          BY <2>4
        <4> QED
          BY <4>1, ProductEmpty DEF Denominator, Numerator
      <3>3. \A i \in T : Terms(one, T)[i] \in Int
        BY <2>2, TermsType
      <3>4. Interpolate(one, T) = Terms(one, T)[a] + SumOver(Terms(one, T), {})
        <4>1. T \ {a} = {}
          BY <2>4
        <4>2. \A x \in T : SumOver(Terms(one, T), T)
                             = Terms(one, T)[x] + SumOver(Terms(one, T), T \ {x})
          BY <2>3, <3>3, SumStep
        <4> QED
          BY <4>1, <4>2 DEF Interpolate
      <3>5. Terms(one, T)[a] = l * one[a]
        BY DEF Terms
      <3> HIDE DEF l
      <3>6. Interpolate(one, T) = l
        BY <2>2, <3>1, <3>4, <3>5, SumEmpty
      <3>7. Same(l, 1)
        BY <3>1, <3>2
      <3> QED
        BY <3>6, <3>7
    <2>5. CASE T # {a}
      <3>1. PICK b \in T : a # b
        BY <2>5
      <3> DEFINE X == Interpolate(one, T)
                 id == [i \in T |-> i]
                 Y == Interpolate(id, T)
      <3>2. \A i \in T : id[i] \in Int /\ Same(id[i], i * one[i])
        <4> SUFFICES ASSUME NEW i \in T PROVE id[i] \in Int /\ Same(id[i], i * one[i])
          OBVIOUS
        <4>1. i \in Int /\ i * one[i] = i
          BY <2>2
        <4> QED
          BY <4>1, SameItself
      <3> HIDE DEF id
      <3>3. X \in Int /\ Y \in Int /\ a \in Int /\ b \in Int
        BY <2>2, <3>2, TermsType
      <3>4. ASSUME NEW c \in T, T \ {c} # {} PROVE Same(c * X - Y, c)
        <4> DEFINE Z == Interpolate(one, T \ {c})
        <4>1. Same(c * X - Y, c * Z)
          BY <2>2, <3>2, InterpolateStep
        <4>2. Same(Z, 1)
          BY <1>2, <3>4
        <4>3. c \in Int /\ Z \in Int
          <5>1. T \ {c} \in SUBSET Indices
            BY <2>2
          <5> QED
            BY <2>2, <5>1, TermsType
        <4> HIDE DEF X, Y, Z
        <4>4. Same(c * Z, c * 1)
          BY <4>2, <4>3, SameItself, SameTimes
        <4>5. c * X - Y \in Int /\ c * Z \in Int /\ c * 1 = c
          BY <3>3, <4>3
        <4> QED
          BY <4>1, <4>3, <4>4, <4>5, SameChain
      <3>5. Same(a * X - Y, a) /\ Same(b * X - Y, b)
        BY <3>1, <3>4
      <3> HIDE DEF X, Y
      <3> DEFINE d == b - a
                 e == X - 1
                 p == a * X - Y
                 q == b * X - Y
      <3>6. p \in Int /\ q \in Int /\ d \in Int /\ e \in Int
        BY <3>3
      <3>7. Same(q - p, b - a)
        BY <3>3, <3>5, <3>6, SamePlus
      <3>8. (q - p) - (b - a) = d * e
        BY <3>3
      <3>9. Zero(d * e)
        BY <3>7, <3>8 DEF Same
      <3>10. ~Zero(d)
        BY <2>2, <3>1, DistinctIndices
      <3> HIDE DEF d, e
      <3>11. Zero(e)
        BY <3>6, <3>9, <3>10, Cancels
      <3> QED
        BY <3>11 DEF e, X, Same
    <2> QED
      BY <2>4, <2>5
  <1> HIDE DEF Good
  <1>3. IsFiniteSet(S)
    BY SignersFinite
  <1>4. S \in Good
    BY <1>1, <1>2, <1>3, FiniteSetsReached
  <1> QED
    BY <1>4 DEF Good

(* The powers the loop of evaluate runs through.                            *)
LEMMA PowerStep ==
  ASSUME NEW x \in Int, NEW k \in Nat
  PROVE  /\ power(x, 0) = 1
         /\ power(x, k) \in Int
         /\ power(x, k + 1) \in Int /\ Same(power(x, k + 1), x * power(x, k))
  <1> DEFINE f(n) == [j \in 1..n |-> x]
             P(n) == ProductOver(f(n), 1..n)
  <1>1. \A n : power(x, n) = P(n) % Order
    BY ProductIs DEF power
  <1>2. \A n \in Nat : P(n) \in Int
    <2> SUFFICES ASSUME NEW n \in Nat PROVE P(n) \in Int
      OBVIOUS
    <2>1. IsFiniteSet(1..n)
      BY FS_Interval, 1 \in Int, n \in Int
    <2>2. \A j \in 1..n : f(n)[j] \in Int
      OBVIOUS
    <2> HIDE DEF f
    <2> QED
      BY <2>1, <2>2, ProductStep
  <1>3. power(x, 0) = 1
    <2>1. 1..0 = {}
      OBVIOUS
    <2>2. P(0) = 1
      BY <2>1, ProductEmpty
    <2>3. 1 \in Scalars
      BY OrderType DEF Scalars
    <2> QED
      BY <1>1, <2>2, <2>3, ScalarRemainder
  <1>4. P(k + 1) = x * P(k)
    <2> DEFINE g == f(k + 1)
               h == f(k)
    <2>1. IsFiniteSet(1..(k + 1)) /\ IsFiniteSet(1..k)
      <3>1. 1 \in Int /\ k \in Int /\ k + 1 \in Int
        OBVIOUS
      <3> QED
        BY <3>1, FS_Interval
    <2>2. \A j \in 1..(k + 1) : g[j] \in Int
      OBVIOUS
    <2>3. k + 1 \in 1..(k + 1) /\ (1..(k + 1)) \ {k + 1} = 1..k /\ g[k + 1] = x
      OBVIOUS
    <2>4. \A j \in 1..k : g[j] \in Int /\ h[j] = g[j]
      OBVIOUS
    <2> HIDE DEF g, h
    <2>5. ProductOver(g, 1..(k + 1)) = g[k + 1] * ProductOver(g, (1..(k + 1)) \ {k + 1})
      BY <2>1, <2>2, <2>3, ProductStep
    <2>6. ProductOver(g, 1..k) = ProductOver(h, 1..k)
      BY <2>1, <2>4, ProductsEqual
    <2>7. ProductOver(g, 1..(k + 1)) = x * ProductOver(h, 1..k)
      BY <2>3, <2>5, <2>6
    <2> QED
      BY <2>7 DEF g, h
  <1>5. P(k) \in Int /\ P(k + 1) \in Int
    BY <1>2
  <1> HIDE DEF P
  <1>6. power(x, k) \in Int /\ Same(P(k), power(x, k))
    BY <1>1, <1>5, Remainder
  <1>7. power(x, k + 1) \in Int /\ Same(power(x, k + 1), P(k + 1))
    BY <1>1, <1>5, Remainder
  <1>8. Same(x * P(k), x * power(x, k))
    BY <1>5, <1>6, SameItself, SameTimes
  <1>9. x * power(x, k) \in Int
    BY <1>6
  <1> QED
    BY <1>3, <1>4, <1>5, <1>6, <1>7, <1>8, <1>9, SameChain

(* More than k signers interpolate the k-th power of their indices to the   *)
(* k-th power of zero.                                                      *)
Powers(k, S) == [i \in S |-> power(i, k)]

LEMMA PowersType ==
  ASSUME NEW S \in SUBSET Indices, NEW k \in Nat
  PROVE  /\ \A i \in S : /\ Powers(k, S)[i] \in Int
                        /\ Same(Powers(k + 1, S)[i], i * Powers(k, S)[i])
         /\ \A i \in S : Powers(0, S)[i] = 1
  BY SignersFinite, PowerStep DEF Powers

LEMMA PowersInterpolate ==
  ASSUME NEW k \in Nat, NEW S \in SUBSET Indices, Cardinality(S) > k
  PROVE  Same(Interpolate(Powers(k, S), S), IF k = 0 THEN 1 ELSE 0)
  <1> DEFINE Right(n, T) == Same(Interpolate(Powers(n, T), T), IF n = 0 THEN 1 ELSE 0)
             Good == {n \in Nat : \A T \in SUBSET Indices : Cardinality(T) > n => Right(n, T)}
  <1>1. 0 \in Good
    <2> SUFFICES ASSUME NEW T \in SUBSET Indices, Cardinality(T) > 0 PROVE Right(0, T)
      OBVIOUS
    <2>1. T # {}
      <3>1. Cardinality({}) = 0
        BY FS_EmptySet
      <3> QED
        BY <3>1
    <2> QED
      BY <2>1, PowersType, CoefficientsSumToOne
  <1>2. ASSUME NEW n \in Nat, n \in Good PROVE n + 1 \in Good
    <2> SUFFICES ASSUME NEW T \in SUBSET Indices, Cardinality(T) > n + 1 PROVE Right(n + 1, T)
      OBVIOUS
    <2>1. IsFiniteSet(T) /\ Cardinality(T) \in Nat
      BY SignersFinite, FS_CardinalityType
    <2>2. PICK a \in T : TRUE
      <3>1. Cardinality({}) = 0
        BY FS_EmptySet
      <3>2. T # {}
        BY <3>1
      <3> QED
        BY <3>2
    <2> DEFINE U == T \ {a}
               f == Powers(n, T)
               g == Powers(n + 1, T)
               e == IF n = 0 THEN 1 ELSE 0
               X == Interpolate(f, T)
               Y == Interpolate(g, T)
               Z == Interpolate(f, U)
    <2>3. U \in SUBSET Indices /\ Cardinality(U) = Cardinality(T) - 1
      BY <2>1, FS_RemoveElement
    <2>4. Same(X, e)
      BY <1>2, <2>1
    <2>5. \A i \in T : f[i] \in Int /\ g[i] \in Int /\ Same(g[i], i * f[i])
      BY PowersType, n + 1 \in Nat
    <2>6. Same(Z, e)
      <3> DEFINE fU == Powers(n, U)
      <3>1. Same(Interpolate(fU, U), e)
        BY <1>2, <2>1, <2>3
      <3>2. \A i \in U : fU[i] = f[i]
        BY DEF Powers
      <3>3. Terms(f, U) = Terms(fU, U)
        BY <3>2 DEF Terms
      <3> QED
        BY <3>1, <3>3 DEF Interpolate
    <2> HIDE DEF f, g
    <2>7. a \in Int /\ e \in Int
      BY SignersFinite
    <2>8. X \in Int /\ Y \in Int /\ Z \in Int
      BY <2>3, <2>5, TermsType
    <2>9. Same(a * X - Y, a * Z)
      BY <2>5, InterpolateStep
    <2> HIDE DEF X, Y, Z, e, U
    <2>10. Same(a * X, a * e) /\ Same(a * Z, a * e)
      BY <2>4, <2>6, <2>7, <2>8, SameItself, SameTimes
    <2> DEFINE aX == a * X
               aZ == a * Z
               ae == a * e
    <2>11. aX \in Int /\ aZ \in Int /\ ae \in Int
      BY <2>7, <2>8
    <2>12. Same(aX - Y, aZ) /\ Same(aX, ae) /\ Same(aZ, ae)
      BY <2>9, <2>10
    <2> HIDE DEF aX, aZ, ae
    <2>13. Same(aX - Y, ae)
      BY <2>8, <2>11, <2>12, SameChain
    <2>14. Same(aX - (aX - Y), ae - ae)
      BY <2>8, <2>11, <2>12, <2>13, SamePlus
    <2>15. aX - (aX - Y) = Y /\ ae - ae = 0
      BY <2>8, <2>11
    <2> QED
      BY <2>14, <2>15 DEF Y, g
  <1> HIDE DEF Good
  <1>3. \A n \in Nat : n \in Good
    BY <1>1, <1>2, NaturalsReached
  <1> QED
    BY <1>3 DEF Good

----------------------------------------------------------------------------
(* evaluate sums the coefficients times the powers.                         *)
Monomials(poly, i) == [k \in DOMAIN poly |-> poly[k] * power(i, k - 1)]

LEMMA EvaluateIs ==
  ASSUME NEW m \in Nat, NEW poly \in [1..m -> Scalars], NEW i \in Int
  PROVE  /\ \A k \in 1..m : Monomials(poly, i)[k] \in Int
         /\ SumOver(Monomials(poly, i), 1..m) \in Int
         /\ evaluate(poly, i) \in Scalars /\ evaluate(poly, i) \in Int
         /\ Same(evaluate(poly, i), SumOver(Monomials(poly, i), 1..m))
  <1>1. IsFiniteSet(1..m)
    BY FS_Interval, 1 \in Int, m \in Int
  <1>2. \A k \in 1..m : Monomials(poly, i)[k] \in Int
    <2> SUFFICES ASSUME NEW k \in 1..m PROVE poly[k] * power(i, k - 1) \in Int
      BY DEF Monomials
    <2>1. poly[k] \in Int
      BY ScalarRemainder
    <2>2. k - 1 \in Nat
      OBVIOUS
    <2>3. power(i, k - 1) \in Int
      BY <2>2, PowerStep
    <2> QED
      BY <2>1, <2>3
  <1>3. SumOver(Monomials(poly, i), 1..m) \in Int
    BY <1>1, <1>2, SumStep
  <1>4. evaluate(poly, i) = SumOver(Monomials(poly, i), 1..m) % Order
    BY SumIs DEF evaluate, Monomials
  <1> QED
    BY <1>2, <1>3, <1>4, Remainder, SameSwap

(* Shamir: the evaluations of a polynomial at as many signers as it has     *)
(* coefficients, or more, interpolate to its constant term.                 *)
THEOREM EvaluationsInterpolate ==
  ASSUME NEW m \in Nat, m >= 1, NEW poly \in [1..m -> Scalars],
         NEW S \in SUBSET Indices, Cardinality(S) >= m,
         NEW f, \A i \in S : f[i] = evaluate(poly, i)
  PROVE  Same(Interpolate(f, S), poly[1])
  <1> DEFINE K == 1..m
             row(i) == [k \in K |-> coefficient(i, S) * Monomials(poly, i)[k]]
             a == [i \in S |-> row(i)]
             v == [i \in S |-> SumOver(Monomials(poly, i), K)]
             column(k) == [i \in S |-> a[i][k]]
             columns == [k \in K |-> SumOver(column(k), S)]
             first == [k \in K |-> IF k = 1 THEN poly[1] ELSE 0]
  <1>1. IsFiniteSet(S) /\ IsFiniteSet(K) /\ \A i \in S : i \in Int
    BY SignersFinite, FS_Interval, 1 \in Int, m \in Int
  <1>2. \A k \in K : poly[k] \in Int /\ k - 1 \in Nat
    BY ScalarRemainder
  <1>3. ASSUME NEW i \in S
        PROVE  /\ \A k \in K : Monomials(poly, i)[k] \in Int /\ a[i][k] \in Int
               /\ f[i] \in Int /\ v[i] \in Int /\ Same(f[i], v[i])
               /\ SumOver(a[i], K) = Terms(v, S)[i]
    <2> DEFINE l == coefficient(i, S)
               M == Monomials(poly, i)
               r == row(i)
    <2>1. l \in Int
      BY CoefficientIsFraction
    <2>2. \A k \in K : M[k] \in Int
      BY <1>1, EvaluateIs
    <2>3. f[i] \in Int /\ v[i] \in Int /\ Same(f[i], v[i])
      BY <1>1, EvaluateIs
    <2>4. \A k \in K : r[k] = l * M[k]
      OBVIOUS
    <2>5. a[i] = r /\ Terms(v, S)[i] = l * SumOver(M, K)
      BY DEF Terms
    <2> HIDE DEF l, M, r, K
    <2>6. SumOver(r, K) = l * SumOver(M, K)
      BY <1>1, <2>1, <2>2, <2>4, SumOfMultiples
    <2>7. \A k \in K : r[k] \in Int
      BY <2>1, <2>2, <2>4
    <2> HIDE DEF a, v
    <2> QED
      BY <2>2, <2>3, <2>5, <2>6, <2>7 DEF M
  <1>4. ASSUME NEW k \in K
        PROVE  columns[k] \in Int /\ first[k] \in Int /\ Same(columns[k], first[k])
    <2> DEFINE pk == poly[k]
               p == Powers(k - 1, S)
               T == Terms(p, S)
               c == column(k)
               e == IF k - 1 = 0 THEN 1 ELSE 0
    <2>1. pk \in Int /\ k - 1 \in Nat
      BY <1>2
    <2>2. \A i \in S : p[i] \in Int
      BY <2>1, PowersType
    <2>3. (\A i \in S : T[i] \in Int) /\ SumOver(T, S) \in Int
      BY <2>2, TermsType DEF Interpolate
    <2>4. \A i \in S : c[i] = pk * T[i]
      <3> SUFFICES ASSUME NEW i \in S PROVE c[i] = pk * T[i]
        OBVIOUS
      <3> DEFINE l == coefficient(i, S)
                 w == power(i, k - 1)
      <3>1. l \in Int /\ p[i] \in Int
        BY <2>2, CoefficientIsFraction
      <3>2. p[i] = w
        BY DEF Powers
      <3>3. c[i] = l * (pk * w)
        BY DEF Monomials
      <3>4. T[i] = l * p[i]
        BY DEF Terms
      <3> HIDE DEF l, w, c, T, p, pk
      <3> QED
        BY <2>1, <3>1, <3>2, <3>3, <3>4
    <2>5. Same(SumOver(T, S), e)
      <3>1. Cardinality(S) > k - 1
        BY <1>1, FS_CardinalityType
      <3>2. Same(Interpolate(p, S), e)
        BY <2>1, <3>1, PowersInterpolate
      <3> QED
        BY <3>2 DEF Interpolate
    <2>6. columns[k] = SumOver(c, S)
      OBVIOUS
    <2>7. first[k] = pk * e
      <3>1. CASE k = 1
        BY <2>1, <3>1
      <3>2. CASE k # 1
        <4>1. first[k] = 0 /\ e = 0
          BY <3>2
        <4> QED
          BY <2>1, <4>1
      <3> QED
        BY <3>1, <3>2
    <2>8. e \in Int
      OBVIOUS
    <2> HIDE DEF T, c, e, pk, first, columns
    <2>9. SumOver(c, S) = pk * SumOver(T, S)
      BY <1>1, <2>1, <2>3, <2>4, SumOfMultiples
    <2>10. Same(pk * SumOver(T, S), pk * e)
      BY <2>1, <2>3, <2>5, <2>8, SameItself, SameTimes
    <2> QED
      BY <2>1, <2>3, <2>6, <2>7, <2>8, <2>9, <2>10
  <1>5. SumOver(first, K) = poly[1]
    <2> DEFINE others == K \ {1}
    <2>1. \A k \in K : first[k] \in Int
      BY <1>4
    <2>2. 1 \in K /\ first[1] = poly[1] /\ \A k \in others : first[k] = 0
      OBVIOUS
    <2>3. IsFiniteSet(others)
      BY <1>1, FS_Subset, others \in SUBSET K
    <2> HIDE DEF first, K
    <2>4. SumOver(first, K) = first[1] + SumOver(first, others)
      BY <1>1, <2>1, <2>2, SumStep
    <2>5. SumOver(first, others) = 0
      BY <2>2, <2>3, SumOfZeros
    <2> QED
      BY <1>2, <2>1, <2>2, <2>4, <2>5
  <1>6. Same(Interpolate(f, S), Interpolate(v, S))
    BY <1>3, InterpolateSame
  <1>7. Interpolate(v, S) = SumOver(columns, K)
    <2> DEFINE sums == [i \in S |-> SumOver(a[i], K)]
    <2>1. sums = Terms(v, S)
      <3>1. \A i \in S : sums[i] = Terms(v, S)[i]
        BY <1>3
      <3> QED
        BY <3>1 DEF Terms
    <2>2. \A i \in S : \A k \in K : a[i][k] \in Int
      BY <1>3
    <2> HIDE DEF a, K
    <2>3. SumOver(sums, S) = SumOver(columns, K)
      BY <1>1, <2>2, SumsExchange
    <2> QED
      BY <2>1, <2>3 DEF Interpolate
  <1>8. Same(SumOver(columns, K), SumOver(first, K))
    <2> HIDE DEF columns, first, K
    <2> QED
      BY <1>1, <1>4, SumsSame
  <1>9. Interpolate(f, S) \in Int /\ Interpolate(v, S) \in Int /\ poly[1] \in Int
    <2>1. 1 \in K
      OBVIOUS
    <2>2. \A i \in S : f[i] \in Int /\ v[i] \in Int
      BY <1>3
    <2> HIDE DEF v
    <2> QED
      BY <1>2, <2>1, <2>2, TermsType
  <1> HIDE DEF v, columns, first, K
  <1> QED
    BY <1>5, <1>6, <1>7, <1>8, <1>9, SameChain

(* Interpolation is additive, for two values of each signer and for many.   *)
LEMMA InterpolatePlus ==
  ASSUME NEW S \in SUBSET Indices, NEW f, NEW g, NEW h,
         \A i \in S : f[i] \in Int /\ g[i] \in Int /\ h[i] = f[i] + g[i]
  PROVE  Interpolate(h, S) = Interpolate(f, S) + Interpolate(g, S)
  <1>1. ASSUME NEW i \in S PROVE Terms(h, S)[i] = Terms(f, S)[i] + Terms(g, S)[i]
    <2> DEFINE l == coefficient(i, S)
    <2>1. l \in Int /\ f[i] \in Int /\ g[i] \in Int /\ h[i] = f[i] + g[i]
      BY CoefficientIsFraction
    <2>2. /\ Terms(h, S)[i] = l * h[i]
          /\ Terms(f, S)[i] = l * f[i]
          /\ Terms(g, S)[i] = l * g[i]
      BY DEF Terms
    <2> HIDE DEF l
    <2> QED
      BY <2>1, <2>2
  <1>2. \A i \in S : Terms(f, S)[i] \in Int /\ Terms(g, S)[i] \in Int
    BY TermsType
  <1>3. IsFiniteSet(S)
    BY SignersFinite
  <1> QED
    BY <1>1, <1>2, <1>3, SumOfSums DEF Interpolate

LEMMA InterpolateSum ==
  ASSUME NEW S \in SUBSET Indices, NEW K, IsFiniteSet(K), NEW a,
         \A i \in S : \A k \in K : a[i][k] \in Int
  PROVE  Interpolate([i \in S |-> SumOver(a[i], K)], S)
           = SumOver([k \in K |-> Interpolate([i \in S |-> a[i][k]], S)], K)
  <1> DEFINE b == [i \in S |-> [k \in K |-> coefficient(i, S) * a[i][k]]]
             v == [i \in S |-> SumOver(a[i], K)]
  <1>1. IsFiniteSet(S)
    BY SignersFinite
  <1>2. ASSUME NEW i \in S
        PROVE  /\ \A k \in K : b[i][k] \in Int
               /\ SumOver(b[i], K) = Terms(v, S)[i]
    <2> DEFINE l == coefficient(i, S)
               r == b[i]
    <2>1. l \in Int
      BY CoefficientIsFraction
    <2>2. \A k \in K : a[i][k] \in Int /\ r[k] = l * a[i][k]
      OBVIOUS
    <2>3. Terms(v, S)[i] = l * SumOver(a[i], K)
      BY DEF Terms
    <2> HIDE DEF l, r
    <2>4. SumOver(r, K) = l * SumOver(a[i], K)
      BY <2>1, <2>2, SumOfMultiples
    <2>5. \A k \in K : r[k] \in Int
      BY <2>1, <2>2
    <2> QED
      BY <2>3, <2>4, <2>5 DEF r
  <1>3. [i \in S |-> SumOver(b[i], K)] = Terms(v, S)
    BY <1>2 DEF Terms
  <1>4. ASSUME NEW k \in K
        PROVE  [i \in S |-> b[i][k]] = Terms([i \in S |-> a[i][k]], S)
    BY DEF Terms
  <1>5. SumOver([i \in S |-> SumOver(b[i], K)], S)
          = SumOver([k \in K |-> SumOver([i \in S |-> b[i][k]], S)], K)
    <2> HIDE DEF b
    <2> QED
      BY <1>1, <1>2, SumsExchange
  <1>6. [k \in K |-> SumOver([i \in S |-> b[i][k]], S)]
          = [k \in K |-> Interpolate([i \in S |-> a[i][k]], S)]
    BY <1>4 DEF Interpolate
  <1> QED
    BY <1>3, <1>5, <1>6 DEF Interpolate
=============================================================================
