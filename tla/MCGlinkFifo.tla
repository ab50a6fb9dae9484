---------------------------- MODULE MCGlinkFifo -----------------------------
(***************************************************************************)
(* A ring scaled down by four: 8 bytes of pmic_glink.c are 2 here.  The    *)
(* messages have the proportions of the ones the driver exchanges.         *)
(***************************************************************************)
EXTENDS GlinkFifo

Msg(id, hlen, dlen, rhdr, rpay) ==
    [id |-> id, hlen |-> hlen, dlen |-> dlen, rhdr |-> rhdr, rpay |-> rpay]

MCMessage == {
    Msg("version", 2, 0, 2, 0),     \* a bare struct qpg_msg
    Msg("intent", 4, 0, 2, 2),      \* one struct, header and pair
    Msg("data", 4, 1, 4, 1),        \* TX_DATA, its payload padded
    Msg("open", 6, 0, 2, 3)         \* the name padded by the sender
}
=============================================================================
