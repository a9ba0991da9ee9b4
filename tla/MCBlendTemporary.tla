-------------------------- MODULE MCBlendTemporary --------------------------
(* One pool and user; assets at indexes 0 and 1, tokens of the first.      *)
EXTENDS BlendTemporary, TLC

CONSTANTS a0, a1

MCIndexOf == (a0 :> 0 @@ a1 :> 1)

MCScopes == {{"auction", "queued"}, {"user emission", "reserve", "pool"},
             {"emission", "reserve"}}
=============================================================================
