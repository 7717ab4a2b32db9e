---------------------------- MODULE MCControlPlane ----------------------------
(* A small instance of ControlPlane for TLC.                                 *)
EXTENDS ControlPlane
CONSTANTS dev, block, nobody, r1, r2, none
=============================================================================
