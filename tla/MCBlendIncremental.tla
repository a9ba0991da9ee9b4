-------------------------- MODULE MCBlendIncremental --------------------------
(* Instance of BlendIncremental for TLC: blobs with one and with two legs. *)
EXTENDS BlendIncremental, TLC

CONSTANTS u1, u2, p1, a1, a2

MCBlobs == {(0 :> 1 @@ 1 :> 0), (0 :> 1 @@ 1 :> 2)}

\* What a lapsed or evicted Positions entry may carry: nothing, or its last value.
MCLapsedValues == {None, 0 :> 1 @@ 1 :> 0}

\* The same with a value the ScVal decoder rejects.
MCLapsedValuesUndecodable == MCLapsedValues \cup {Undecodable}
=============================================================================
