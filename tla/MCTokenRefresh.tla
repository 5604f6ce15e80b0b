--------------------------- MODULE MCTokenRefresh ---------------------------
(* Two processes: a background attempt in each, a request and an *)
(* administrator in the first                                    *)
EXTENDS TokenRefresh, TLC

CONSTANTS p1, p2, b1, b2, q1, m1

MCProcessOf == (b1 :> p1) @@ (b2 :> p2) @@ (q1 :> p1) @@ (m1 :> p1)
=============================================================================
