------------------------------ MODULE MCAdapters ------------------------------
(* A Soroswap pair with two holders, two FxDAO vaults, and an Aquarius pool,  *)
(* seeded or not, with a classic and a range position of one owner.           *)
EXTENDS Adapters

=============================================================================
