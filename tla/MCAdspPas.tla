----------------------------- MODULE MCAdspPas -----------------------------
(***************************************************************************)
(* AdspPas with an ADSP that may do anything the boot loader can tell      *)
(* apart.                                                                  *)
(***************************************************************************)
EXTENDS AdspPas

Once(sigs) == {[n |-> 1, sigs |-> sigs]}
Then(sig1, sig2) == {[n |-> 1, sigs |-> {sig1}], [n |-> 2, sigs |-> {sig2}]}

(* A silent ADSP; handover, ready or a crash alone; handover and ready in  *)
(* one update and in either order; a crash after the handover.             *)
MCOrders == {{}, Once({"handover"}), Once({"ready"}), Once({"fatal"}),
             Once({"handover", "ready"}), Then("handover", "ready"),
             Then("ready", "handover"), Then("handover", "fatal")}
=============================================================================
