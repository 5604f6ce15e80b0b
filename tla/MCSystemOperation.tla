-------------------------- MODULE MCSystemOperation --------------------------
(* Two operations, each requested under a key of its own *)
EXTENDS SystemOperation, TLC

CONSTANTS r1, r2, update, restart, k1, k2

MCKeyOf == (update :> k1) @@ (restart :> k2)
=============================================================================
