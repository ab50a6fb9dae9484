------------------------------ MODULE MCUcsi ------------------------------
(* Instances of Ucsi: see the .cfg files.                                  *)
EXTENDS Ucsi
=============================================================================
