---------------------------- MODULE MCPaymentRefund ---------------------------
(* Instances of PaymentRefund for TLC.                                      *)
EXTENDS PaymentRefund, TLC

CONSTANTS a1, a2

AdminSymmetry == Permutations(Worker)
=============================================================================
