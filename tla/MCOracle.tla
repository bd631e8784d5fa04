------------------------------ MODULE MCOracle ------------------------------
(***************************************************************************)
(* Two outputs of one address, as an account may be funded more than once.  *)
(***************************************************************************)
EXTENDS Oracle
=============================================================================
