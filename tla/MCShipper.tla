----------------------------- MODULE MCShipper -----------------------------
(* A small instance of Shipper for TLC.                                     *)
EXTENDS Shipper, TLC

RunsAreAlike == Permutations(Run)
=============================================================================
