---------------------------- MODULE MCBlendConfig ----------------------------
(* One pool of two reserves; one oracle of each kind.  Reserves, contents and *)
(* backstops are interchangeable.                                             *)
EXTENDS BlendConfig, TLC

Symmetry ==
    Permutations(Assets) \cup Permutations(Contents) \cup Permutations(Prices)
        \cup Permutations(Backstops)

=============================================================================
