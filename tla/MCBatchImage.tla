----------------------------- MODULE MCBatchImage -----------------------------
(* Instances of BatchImage for TLC.                                         *)
EXTENDS BatchImage, TLC

CONSTANTS w1, w2, c1, c2
=============================================================================
