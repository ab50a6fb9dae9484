--------------------------- MODULE MCGlinkSession ---------------------------
(***************************************************************************)
(* Instances of GlinkSession.  TxCap and RxCap are messages, not bytes.    *)
(***************************************************************************)
EXTENDS GlinkSession

OneIntent == {101}
TwoIntents == {101, 102}
=============================================================================
