---------------------------- MODULE MCPPURender ----------------------------
(* The numbers of lines and ring entries are given in the configurations.   *)
EXTENDS PPURender
=============================================================================
