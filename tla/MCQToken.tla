------------------------------ MODULE MCQToken ------------------------------
(* Instances of QToken for TLC: two agents (M = 1) unless a cfg says more. *)
EXTENDS QToken

=============================================================================
