--------------------------- MODULE MCFieldSigning ---------------------------
(* Instances of FieldSigning for TLC.                                       *)
EXTENDS FieldSigning

TwoDraws == {[d |-> 1, e |-> 2, rho |-> 3], [d |-> 4, e |-> 3, rho |-> 2]}
=============================================================================
