------------------------- MODULE MCProgramMigration -------------------------
(* Instances of ProgramMigration for TLC.                                   *)
EXTENDS ProgramMigration, TLC

MCRequests == [program_cid : Programs, args : Args]

(* The transfer validator: the transaction is a function of the request.    *)
OneOutput == [r \in MCRequests |-> {[tx |-> r]}]

(* Sessions are interchangeable.                                            *)
SessionSymmetry == Permutations(Sessions)
=============================================================================
