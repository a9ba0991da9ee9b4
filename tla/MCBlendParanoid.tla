--------------------------- MODULE MCBlendParanoid ---------------------------
(* Instance of BlendParanoid for TLC: blobs with one and with two legs.    *)
EXTENDS BlendParanoid, TLC

CONSTANTS u1, u2, p1, a1, a2

MCBlobs == {(0 :> 1 @@ 1 :> 0), (0 :> 1 @@ 1 :> 2)}

MCLapsedValues == {None, 0 :> 1 @@ 1 :> 0}

Symmetry == Permutations({a1, a2}) \cup Permutations({u1, u2})
=============================================================================
