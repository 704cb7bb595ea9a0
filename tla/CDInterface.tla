----------------------------- MODULE CDInterface -----------------------------
(***************************************************************************)
(* What a disc interface promises its caller, whichever class implements   *)
(* it: the object opens or its constructor throws, each ReadRawSector call *)
(* returns, and it returns either the sector that was asked for or a       *)
(* failure with a zeroed buffer.  CDInterface_MT implements it with a read *)
(* thread, a request queue and a cache; CDInterface_ST in the calling      *)
(* thread.                                                                 *)
(***************************************************************************)
EXTENDS Integers

CONSTANTS LBA_Read_Minimum,  \* first address the disc readers handle sanely
          LBA_Read_Maximum,  \* last one
          Lbas,              \* the addresses the emulated system asks for
          NoData             \* a zeroed buffer

VARIABLES phase,   \* "new", "open", "closing" or "closed"
          busy,    \* a sector is being read
          lba,     \* the address last asked for
          ret      \* what was returned for it, once it has been

absvars == <<phase, busy, lba, ret>>

InRange(l) == LBA_Read_Minimum <= l /\ l <= LBA_Read_Maximum

\* A sector is identified by its address: reading it yields its address.
Failed == [ok |-> FALSE, data |-> NoData]
Sector(l) == [ok |-> TRUE, data |-> l]

AbsInit == phase = "new" /\ busy = FALSE /\ lba = 0 /\ ret = Failed

AbsOpen == /\ phase = "new"
           /\ phase' \in {"open", "closing"}
           /\ UNCHANGED <<busy, lba, ret>>

\* A call for an address off the disc fails at once.
AbsCall(l) == /\ phase = "open" /\ ~ busy
              /\ busy' = InRange(l)
              /\ lba' = l /\ ret' = Failed
              /\ UNCHANGED phase

AbsReturn == /\ busy
             /\ busy' = FALSE
             /\ ret' \in {Failed, Sector(lba)}
             /\ UNCHANGED <<phase, lba>>

AbsClose == /\ phase = "open" /\ ~ busy
            /\ phase' = "closing"
            /\ UNCHANGED <<busy, lba, ret>>

AbsClosed == /\ phase = "closing"
             /\ phase' = "closed"
             /\ UNCHANGED <<busy, lba, ret>>

AbsNext == \/ AbsOpen \/ AbsReturn \/ AbsClose \/ AbsClosed
           \/ \E l \in Lbas : AbsCall(l)

\* The object is not obliged to be used, but an open, a read and a close finish.
AbsSpec == /\ AbsInit /\ [][AbsNext]_absvars
           /\ WF_absvars(AbsOpen) /\ WF_absvars(AbsReturn) /\ WF_absvars(AbsClosed)
=============================================================================
