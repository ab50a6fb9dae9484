----------------------------- MODULE MCAltmode -----------------------------
(* Instances of Altmode: see the .cfg files.                               *)
EXTENDS Altmode

Conn(d, p, m, h, o) == [dp |-> d, pin |-> p, mux |-> m, hpd |-> h, orientation |-> o]

(* Unplugged, DisplayPort not yet entered, and DisplayPort with the pin    *)
(* assignments 0 and D.                                                    *)
MCConns == {Conn(FALSE, NoPin, 0, FALSE, "none"),
            Conn(TRUE, NoPin, 1, FALSE, "normal"),
            Conn(TRUE, 0, 2, FALSE, "normal"),
            Conn(TRUE, 3, 3, TRUE, "normal")}
=============================================================================
