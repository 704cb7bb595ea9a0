-------------------------- MODULE MCCDInterface_MT --------------------------
(* A disc of a few sectors and a ring that holds exactly one window.       *)
EXTENDS CDInterface_MT

\* The disc and the two addresses past its end, which hints may carry.
MCLbas == LBA_Read_Minimum .. (LBA_Read_Maximum + 2)
=============================================================================
