---------------------------- MODULE MCStateRewind ----------------------------
(* States of zero, one and two bits, so that neighbours differ in length.   *)
EXTENDS StateRewind

MCStates == {<<>>, <<0>>, <<1>>, <<0, 1>>, <<1, 1>>}
=============================================================================
