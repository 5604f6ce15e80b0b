---------------------------- MODULE MCPaymentOrder ----------------------------
(* Instances of PaymentOrder for TLC.                                       *)
EXTENDS PaymentOrder, TLC

CONSTANTS o1, w1, w2

WorkerSymmetry == Permutations(Worker)
=============================================================================
