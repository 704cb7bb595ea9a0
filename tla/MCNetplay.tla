------------------------------ MODULE MCNetplay ------------------------------
(* Two ports with a pad each.                                               *)
EXTENDS Netplay

MCDevice == <<"pad", "pad">>
MCMaxFed(as) == IF as = {"command"} THEN 3 ELSE 2
MCMaxLogins(as) == IF as = {"leave"} THEN 3 ELSE 2
MCSymmetry == Permutations(Clients)
MCSaved == <<>>
=============================================================================
