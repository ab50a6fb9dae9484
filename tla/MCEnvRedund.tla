---------------------------- MODULE MCEnvRedund ----------------------------
(* The redundant environment on a device that may do everything wrong.     *)
EXTENDS EnvRedund

AnyReadFault == SUBSET {1, 2}
=============================================================================
