---------------------------- MODULE ScalarField ----------------------------
(***************************************************************************)
(* Scalars, polynomials over them and interpolation at zero                *)
(* (crates/dkg/polynomial.rs, crates/signing/lagrange.rs), in a prime      *)
(* field small enough to enumerate.  A point of the curve is stood for by  *)
(* its discrete logarithm: g * s is s, and a scalar times a point is a     *)
(* product.                                                                *)
(***************************************************************************)
EXTENDS Integers, Sequences, FiniteSets, Functions

CONSTANT Order  \* of the scalar field; the code's is a 253-bit prime

ASSUME PrimeOrder ==
  Order \in Nat /\ Order > 1 /\ \A d \in 2..(Order - 1) : Order % d # 0

Scalars == 0..(Order - 1)

Sum(f)     == FoldFunction(+, 0, f) % Order
Product(f) == FoldFunction(LAMBDA x, y : x * y, 1, f) % Order

Minus(x, y) == (x + Order - y) % Order

(* Scalar::invert, which maps 0 to 0. *)
invert(x) == IF x = 0 THEN 0 ELSE CHOOSE y \in Scalars : (x * y) % Order = 1

----------------------------------------------------------------------------
(* A polynomial is the sequence of its coefficients, constant term first.   *)
random_full(degree) == [1..(degree + 1) -> Scalars]

(* Mutants: one coefficient too many; the constant term is drawn too. *)
random_one_more(degree, constant) == {poly \in random_full(degree + 1) : poly[1] = constant}
random_constant_drawn(degree, constant) == random_full(degree)

random(degree, constant) == {poly \in random_full(degree) : poly[1] = constant}

(* The running power of the loop, multiplied once more by x in each round.  *)
power(x, k) == Product([j \in 1..k |-> x])

(* Mutant: the sum is not reduced. *)
evaluate_unreduced(coefficients, x) ==
  SumFunction([k \in DOMAIN coefficients |-> coefficients[k] * power(x, k - 1)])

evaluate(coefficients, x) ==
  Sum([k \in DOMAIN coefficients |-> coefficients[k] * power(x, k - 1)])

(* The product over the entries j other than i of the slice signer_indices  *)
(* of j / (j - i): an index that occurs twice is multiplied in twice.       *)
lagrange_coefficient(i, signer_indices) ==
  LET others == {k \in DOMAIN signer_indices : signer_indices[k] # i}
  IN  (Product([k \in others |-> signer_indices[k]])
         * invert(Product([k \in others |-> Minus(signer_indices[k], i)]))) % Order

(* Its use for a set of signers: a slice without repetitions, whose order   *)
(* does not matter, so that each entry may be its own position.             *)
coefficient(i, signers) == lagrange_coefficient(i, [j \in signers |-> j])
=============================================================================
