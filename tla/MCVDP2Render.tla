---------------------------- MODULE MCVDP2Render ----------------------------
(* Values are 0 and 1; the numbers of lines and of ring entries are given   *)
(* in the configurations.                                                   *)
EXTENDS VDP2Render
=============================================================================
