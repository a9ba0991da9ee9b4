---------------------------- MODULE MCBlendOracle ----------------------------
(* One pool, one feed of one asset read by an aggregator, or a mock oracle. *)
EXTENDS BlendOracle

=============================================================================
