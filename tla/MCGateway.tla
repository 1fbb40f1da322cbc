------------------------------ MODULE MCGateway ------------------------------
(***************************************************************************)
(* TLC instance of Gateway.                                                *)
(***************************************************************************)
EXTENDS Gateway, TLC

\* A key with both limits, and one with none.
MCLimits == {[rpm |-> 2, tpm |-> 2], [rpm |-> 0, tpm |-> 0]}

RequestSymmetry == Permutations(Requests)

=============================================================================
