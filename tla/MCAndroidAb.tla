----------------------------- MODULE MCAndroidAb ----------------------------
(***************************************************************************)
(* Two slots, two tries, two priorities: enough for an update to use up    *)
(* its tries and for a tie to be broken by every field.                    *)
(***************************************************************************)
EXTENDS AndroidAb

Both == {1, 2}
=============================================================================
