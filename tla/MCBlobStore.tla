---------------------------- MODULE MCBlobStore ----------------------------
(* A small instance of BlobStore for TLC.                                   *)
EXTENDS BlobStore, TLC
=============================================================================
