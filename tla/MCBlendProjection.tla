--------------------------- MODULE MCBlendProjection ---------------------------
(* Instance of BlendProjection for TLC. *)
EXTENDS BlendProjection
================================================================================
