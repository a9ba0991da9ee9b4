--------------------------- MODULE MCBlendBackstop ---------------------------
(* Instance of BlendBackstop for TLC. *)
EXTENDS BlendBackstop, TLC

CONSTANTS u1, u2, p1, b1, c1, t1, x
=============================================================================
