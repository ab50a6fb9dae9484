----------------------------- MODULE MCAossQmp ------------------------------
(* AossQmp with constants given in the configurations. *)
EXTENDS AossQmp
=============================================================================
