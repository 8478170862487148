------------------------------ MODULE MCVolume ------------------------------
(* Small instances of Volume.                                              *)
EXTENDS Volume
=============================================================================
