----------------------------- MODULE StateRewind -----------------------------
(***************************************************************************)
(* State rewinding, state_rewind.cpp: the youngest saved state is kept     *)
(* whole in ss_prev; each older one is kept in the ring bcs as the bytes   *)
(* that differ from the next younger one (an XOR over the shorter of the   *)
(* two), compressed.  A saved state is a sequence of bits, and its length  *)
(* may change from one frame to the next.                                  *)
(***************************************************************************)
EXTENDS Integers, Sequences, FiniteSets

CONSTANTS States,     \* the save states: sequences of bits
          srwframes   \* the setting

ASSUME SrwAssumption == srwframes \in Nat /\ States \subseteq Seq({0, 1})

VARIABLES Active, Enabled,
          bcs,        \* the ring
          bcs_pos,    \* where the next packet goes
          ss_prev,    \* the youngest state: empty or one
          mach        \* what a save state taken now would hold

vars == <<Active, Enabled, bcs, bcs_pos, ss_prev, mach>>

Larger(a, b) == IF a > b THEN a ELSE b
Smaller(a, b) == IF a < b THEN a ELSE b

BcsSize == Larger(3, srwframes) - 1
Slots == 0 .. (BcsSize - 1)
NoPacket == [data |-> {}, uncompressed_len |-> 0]

Init == /\ Active = FALSE /\ Enabled = FALSE
        /\ bcs = [i \in Slots |-> NoPacket] /\ bcs_pos = 0
        /\ ss_prev = {} /\ mach \in States

\* prev XORed with cur as far as both reach.
XOR(prev, cur) == [i \in DOMAIN prev |->
                     IF i <= Smaller(Len(prev), Len(cur)) THEN (prev[i] + cur[i]) % 2
                     ELSE prev[i]]

\* What comes out of the decompressor's buffer of len bytes.
Decompress(packet) ==
  LET d == CHOOSE d \in packet.data : TRUE
  IN  [i \in 1 .. packet.uncompressed_len |-> IF i <= Len(d) THEN d[i] ELSE 0]

\* Mutant: the differences outlive the state they are differences from.
CleanupPrevOnly == UNCHANGED bcs /\ ss_prev' = {}

Cleanup == /\ bcs' = [i \in Slots |-> NoPacket]
           /\ ss_prev' = {}

-----------------------------------------------------------------------------
MDFNSRW_Begin ==
  IF Enabled' /\ ~ Active
  THEN \/ Active' = TRUE /\ bcs_pos' = 0 /\ UNCHANGED <<bcs, ss_prev>>
       \/ Cleanup /\ UNCHANGED <<Active, bcs_pos>>           \* out of memory
  ELSE UNCHANGED <<Active, bcs, bcs_pos, ss_prev>>

MDFNSRW_End ==
  IF Active THEN Cleanup /\ Active' = FALSE /\ UNCHANGED bcs_pos
  ELSE UNCHANGED <<Active, bcs, bcs_pos, ss_prev>>

MDFNI_EnableStateRewind(enable) ==
  /\ Enabled' = enable
  /\ IF enable THEN MDFNSRW_Begin ELSE MDFNSRW_End
  /\ UNCHANGED mach

\* A game is loaded or closed.
LoadGame == ~ Active /\ UNCHANGED Enabled /\ MDFNSRW_Begin /\ mach' \in States
CloseGame == UNCHANGED <<Enabled, mach>> /\ MDFNSRW_End

-----------------------------------------------------------------------------
Before(p) == (p + BcsSize - 1) % BcsSize

After(p) == (p + 1) % BcsSize

\* Load ss_prev, then rebuild the state before it from the packet behind bcs_pos.
DoRewind ==
  /\ Active
  /\ \/ /\ ss_prev = {}
        /\ UNCHANGED <<bcs, bcs_pos, ss_prev, mach>>
     \/ \E cur \in ss_prev :
          /\ mach' = cur
          /\ LET smp == bcs[Before(bcs_pos)] IN
               \/ /\ smp.data = {}
                  /\ UNCHANGED <<bcs, bcs_pos, ss_prev>>
               \/ /\ smp.data # {}
                  /\ bcs' = [bcs EXCEPT ![Before(bcs_pos)].data = {}]
                  /\ bcs_pos' = Before(bcs_pos)
                  /\ ss_prev' = {XOR(Decompress(smp), cur)}
  /\ UNCHANGED <<Active, Enabled>>

\* Mutant: the packet is given the length of the younger state.
PacketOfLengthOfCur(prev, cur) ==
  [data |-> {XOR(prev, cur)}, uncompressed_len |-> Len(cur)]

Packet(prev, cur) == [data |-> {XOR(prev, cur)}, uncompressed_len |-> Len(prev)]

DoRecord ==
  /\ Active
  /\ \/ ss_prev = {} /\ UNCHANGED <<bcs, bcs_pos>>
     \/ \E prev \in ss_prev :
          /\ bcs' = [bcs EXCEPT ![bcs_pos] = Packet(prev, mach)]
          /\ bcs_pos' = After(bcs_pos)
  /\ ss_prev' = {mach}
  /\ UNCHANGED <<Active, Enabled, mach>>

\* A save, a load, or an allocation throws: rewinding ends.  A load that throws
\* half way has already replaced part of the machine's state.
FrameFails ==
  /\ Active /\ MDFNSRW_End
  /\ mach' \in {mach} \cup ss_prev
  /\ UNCHANGED Enabled

\* The core emulates a frame, or the player changes what it emulates.
Emulate == mach' \in States /\ UNCHANGED <<Active, Enabled, bcs, bcs_pos, ss_prev>>

Next == \/ \E enable \in BOOLEAN : MDFNI_EnableStateRewind(enable)
        \/ LoadGame \/ CloseGame
        \/ DoRewind \/ DoRecord \/ FrameFails \/ Emulate

Spec == Init /\ [][Next]_vars

-----------------------------------------------------------------------------
TypeOK ==
  /\ Active \in BOOLEAN /\ Enabled \in BOOLEAN
  /\ bcs_pos \in Slots
  /\ \A i \in Slots : bcs[i].uncompressed_len \in Nat /\ Cardinality(bcs[i].data) <= 1
  /\ ss_prev \subseteq Seq({0, 1}) /\ Cardinality(ss_prev) <= 1
  /\ mach \in States

\* How far behind bcs_pos slot i is: 1 is the packet written last.
Distance(i) == IF i < bcs_pos THEN bcs_pos - i ELSE bcs_pos - i + BcsSize

\* The packets are the last few written, with no gap, and there are none without
\* the whole state they are differences from: whatever mixture of recording,
\* rewinding past the oldest, wrapping round and failing came before.
PacketsContiguous ==
  /\ \A i, j \in Slots : bcs[i].data # {} /\ Distance(j) < Distance(i) => bcs[j].data # {}
  /\ ss_prev = {} => \A i \in Slots : bcs[i].data = {}
  /\ ~ Active => ss_prev = {}

\* The states the ring stands for, youngest first, as rewinding would rebuild them.
Held == Cardinality({i \in Slots : bcs[i].data # {}})
Slot(k) == CHOOSE i \in Slots : Distance(i) = k
Rebuilt ==
  LET r[k \in 0 .. Held] == IF k = 0 THEN CHOOSE x \in ss_prev : TRUE
                            ELSE XOR(Decompress(bcs[Slot(k)]), r[k - 1])
  IN  IF ss_prev = {} THEN <<>> ELSE [i \in 1 .. (Held + 1) |-> r[Held + 1 - i]]

\* The ring of differences is a bounded stack of whole states.
Abstract == INSTANCE RewindStack WITH running <- Active, stack <- Rebuilt,
                                      Depth <- BcsSize + 1
ImplementsStack == Abstract!StackSpec
=============================================================================
