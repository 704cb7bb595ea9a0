-------------------------- MODULE StateRewind_proofs --------------------------
(***************************************************************************)
(* Proofs about StateRewind for every setting of srwframes and every set   *)
(* of save states.                                                         *)
(***************************************************************************)
EXTENDS StateRewind, FiniteSetTheorems, WellFoundedInduction, TLAPS

Occupied(i) == bcs[i].data # {}

IInv == /\ Active \in BOOLEAN
        /\ bcs_pos \in Slots
        /\ bcs = [i \in Slots |-> [data |-> bcs[i].data,
                                   uncompressed_len |-> bcs[i].uncompressed_len]]
        /\ PacketsContiguous

-----------------------------------------------------------------------------
(* The ring *)

LEMMA SizeLemma == BcsSize \in Nat /\ BcsSize >= 2
BY SrwAssumption DEF BcsSize, Larger

\* Before and After are inverse steps round the ring.
LEMMA AroundLemma ==
  ASSUME NEW p \in Slots
  PROVE  /\ Before(p) = IF p = 0 THEN BcsSize - 1 ELSE p - 1
         /\ After(p) = IF p = BcsSize - 1 THEN 0 ELSE p + 1
         /\ Before(p) \in Slots /\ After(p) \in Slots
<1>1. p \in Nat /\ p < BcsSize /\ BcsSize \in Nat /\ BcsSize >= 2
  BY SizeLemma DEF Slots
<1>2. CASE p = 0
  <2>1. Before(p) = BcsSize - 1 /\ After(p) = 1
    BY <1>1, <1>2 DEF Before, After
  <2> QED BY <1>1, <1>2, <2>1 DEF Slots
<1>3. CASE 0 < p /\ p < BcsSize - 1
  <2>1. Before(p) = p - 1 /\ After(p) = p + 1
    BY <1>1, <1>3 DEF Before, After
  <2> QED BY <1>1, <1>3, <2>1 DEF Slots
<1>4. CASE p = BcsSize - 1
  <2>1. Before(p) = p - 1 /\ After(p) = 0
    BY <1>1, <1>4 DEF Before, After
  <2> QED BY <1>1, <1>4, <2>1 DEF Slots
<1> QED BY <1>1, <1>2, <1>3, <1>4

\* When the position moves on, every packet is one place further behind it, and
\* the slot that has just been written is right behind.
LEMMA ForwardLemma ==
  ASSUME bcs_pos \in Slots, bcs_pos' = After(bcs_pos), NEW i \in Slots
  PROVE  Distance(i)' = IF i = bcs_pos THEN 1 ELSE Distance(i) + 1
BY AroundLemma, SizeLemma DEF Distance, Slots

\* When it moves back, the slot it moves to is as far behind it as can be.
LEMMA BackLemma ==
  ASSUME bcs_pos \in Slots, bcs_pos' = Before(bcs_pos), NEW i \in Slots
  PROVE  Distance(i)' = IF i = Before(bcs_pos) THEN BcsSize ELSE Distance(i) - 1
BY AroundLemma, SizeLemma DEF Distance, Slots

LEMMA DistanceLemma ==
  ASSUME bcs_pos \in Slots, NEW i \in Slots
  PROVE  /\ Distance(i) \in 1 .. BcsSize
         /\ Distance(i) = 1 <=> i = Before(bcs_pos)
         /\ Distance(i) = BcsSize <=> i = bcs_pos
BY AroundLemma, SizeLemma DEF Distance, Slots

-----------------------------------------------------------------------------
LEMMA CleanupLemma ==
  ASSUME IInv, Cleanup, bcs_pos' \in Slots, Active' \in BOOLEAN
  PROVE  IInv'
<1>1. \A i \in Slots : bcs'[i] = NoPacket
  BY DEF Cleanup
<1>2. bcs' = [i \in Slots |-> [data |-> bcs'[i].data,
                               uncompressed_len |-> bcs'[i].uncompressed_len]]
  BY DEF Cleanup, NoPacket
<1> QED BY <1>1, <1>2 DEF IInv, PacketsContiguous, Cleanup, NoPacket

\* Where nothing but the machine changes, or rewinding starts.
LEMMA UnchangedLemma ==
  ASSUME IInv, UNCHANGED <<bcs, bcs_pos, ss_prev>>, Active' \in {Active, TRUE}
  PROVE  IInv'
BY DEF IInv, PacketsContiguous, Distance

LEMMA BeginLemma == ASSUME IInv, MDFNSRW_Begin PROVE IInv'
<1>1. CASE Active' = TRUE /\ bcs_pos' = 0 /\ UNCHANGED <<bcs, ss_prev>> /\ ~ Active
  <2>1. \A i \in Slots : ~ Occupied(i)
    BY <1>1 DEF IInv, PacketsContiguous, Occupied
  <2>2. 0 \in Slots
    BY SizeLemma DEF Slots
  <2> QED BY <1>1, <2>1, <2>2 DEF IInv, PacketsContiguous, Occupied
<1>2. CASE Cleanup /\ UNCHANGED <<Active, bcs_pos>>
  BY <1>2, CleanupLemma DEF IInv
<1>3. CASE UNCHANGED <<Active, bcs, bcs_pos, ss_prev>>
  BY <1>3, UnchangedLemma
<1> QED BY <1>1, <1>2, <1>3 DEF MDFNSRW_Begin

LEMMA EndLemma == ASSUME IInv, MDFNSRW_End PROVE IInv'
<1>1. CASE Active
  BY <1>1, CleanupLemma DEF IInv, MDFNSRW_End
<1>2. CASE ~ Active
  BY <1>2, UnchangedLemma DEF MDFNSRW_End
<1> QED BY <1>1, <1>2

LEMMA RewindLemma == ASSUME IInv, DoRewind PROVE IInv'
<1> DEFINE b == Before(bcs_pos)
<1>1. CASE UNCHANGED <<bcs, bcs_pos, ss_prev>>
  BY <1>1, UnchangedLemma DEF DoRewind
<1>2. CASE /\ ss_prev # {} /\ bcs[b].data # {}
           /\ bcs' = [bcs EXCEPT ![b].data = {}]
           /\ bcs_pos' = b /\ ss_prev' # {}
  <2>1. b \in Slots /\ bcs_pos \in Slots
    BY AroundLemma DEF IInv
  <2>2. /\ bcs' = [i \in Slots |-> [data |-> bcs'[i].data,
                                    uncompressed_len |-> bcs'[i].uncompressed_len]]
        /\ \A i \in Slots : Occupied(i)' <=> (i # b /\ Occupied(i))
    <3>1. bcs' = [i \in Slots |-> IF i = b THEN [bcs[i] EXCEPT !.data = {}] ELSE bcs[i]]
      BY <1>2, <2>1 DEF IInv
    <3>2. bcs'[b] = [data |-> {}, uncompressed_len |-> bcs[b].uncompressed_len]
      <4>1. bcs[b] = [data |-> bcs[b].data, uncompressed_len |-> bcs[b].uncompressed_len]
        BY <2>1 DEF IInv
      <4>2. bcs'[b] = [bcs[b] EXCEPT !.data = {}]
        BY <2>1, <3>1
      <4> QED BY <4>1, <4>2
    <3>3. \A i \in Slots : i # b => bcs'[i] = bcs[i]
      BY <3>1
    <3> HIDE DEF b
    <3>4. ASSUME NEW i \in Slots
          PROVE  /\ bcs'[i] = [data |-> bcs'[i].data, uncompressed_len |-> bcs'[i].uncompressed_len]
                 /\ Occupied(i)' <=> (i # b /\ Occupied(i))
      BY <3>2, <3>3 DEF IInv, Occupied
    <3> QED BY <3>1, <3>4
  <2>3. ASSUME NEW i \in Slots, NEW j \in Slots, Occupied(i)', Distance(j)' < Distance(i)'
        PROVE  Occupied(j)'
    <3>1. i # b /\ Occupied(i) /\ Distance(i)' = Distance(i) - 1
      BY <1>2, <2>1, <2>2, <2>3, BackLemma
    <3>2. Distance(i) \in 1 .. BcsSize /\ Distance(j) \in 1 .. BcsSize
      BY <2>1, DistanceLemma
    <3>3. j # b /\ Distance(j)' = Distance(j) - 1
      BY <1>2, <2>1, <2>3, <3>1, <3>2, BackLemma, SizeLemma
    <3>4. Distance(j) < Distance(i)
      BY <2>3, <3>1, <3>2, <3>3
    <3> QED BY <2>2, <3>1, <3>3, <3>4 DEF IInv, PacketsContiguous, Occupied
  <2>4. Active /\ Active' = Active
    BY DEF DoRewind
  <2> QED BY <1>2, <2>1, <2>2, <2>3, <2>4 DEF IInv, PacketsContiguous, Occupied
<1> QED BY <1>1, <1>2 DEF DoRewind

LEMMA RecordLemma == ASSUME IInv, DoRecord PROVE IInv'
<1>1. Active /\ Active' = Active /\ ss_prev' # {}
  BY DEF DoRecord
<1>2. CASE ss_prev = {} /\ UNCHANGED <<bcs, bcs_pos>>
  BY <1>1, <1>2 DEF IInv, PacketsContiguous
<1>3. ASSUME NEW prev \in ss_prev,
             bcs' = [bcs EXCEPT ![bcs_pos] = Packet(prev, mach)], bcs_pos' = After(bcs_pos)
      PROVE  IInv'
  <2>1. bcs_pos \in Slots /\ bcs_pos' \in Slots
    BY <1>3, AroundLemma DEF IInv
  <2>2. /\ bcs' = [i \in Slots |-> [data |-> bcs'[i].data,
                                    uncompressed_len |-> bcs'[i].uncompressed_len]]
        /\ \A i \in Slots : Occupied(i)' <=> (i = bcs_pos \/ Occupied(i))
    BY <1>3, <2>1 DEF IInv, Occupied, Packet
  <2>3. ASSUME NEW i \in Slots, NEW j \in Slots, Occupied(i)', Distance(j)' < Distance(i)'
        PROVE  Occupied(j)'
    <3>1. Distance(i) \in 1 .. BcsSize /\ Distance(j) \in 1 .. BcsSize
      BY <2>1, DistanceLemma
    <3>2. CASE j = bcs_pos
      BY <2>2, <3>2
    <3>3. CASE j # bcs_pos
      <4>1. Distance(j)' = Distance(j) + 1
        BY <1>3, <2>1, <3>3, ForwardLemma
      <4>2. i # bcs_pos /\ Distance(i)' = Distance(i) + 1
        BY <1>3, <2>1, <2>3, <3>1, <4>1, ForwardLemma
      <4>3. Occupied(i) /\ Distance(j) < Distance(i)
        BY <2>2, <2>3, <3>1, <4>1, <4>2
      <4> QED BY <2>2, <4>3 DEF IInv, PacketsContiguous, Occupied
    <3> QED BY <3>2, <3>3
  <2> QED BY <1>1, <2>1, <2>2, <2>3 DEF IInv, PacketsContiguous, Occupied
<1> QED BY <1>2, <1>3 DEF DoRecord

LEMMA Step == ASSUME IInv, [Next]_vars PROVE IInv'
<1>1. CASE \E enable \in BOOLEAN : MDFNI_EnableStateRewind(enable)
  BY <1>1, BeginLemma, EndLemma DEF MDFNI_EnableStateRewind
<1>2. CASE LoadGame
  BY <1>2, BeginLemma DEF LoadGame
<1>3. CASE CloseGame \/ FrameFails
  BY <1>3, EndLemma DEF CloseGame, FrameFails
<1>4. CASE DoRewind
  BY <1>4, RewindLemma
<1>5. CASE DoRecord
  BY <1>5, RecordLemma
<1>6. CASE Emulate \/ UNCHANGED vars
  BY <1>6, UnchangedLemma DEF Emulate, vars
<1> QED BY <1>1, <1>2, <1>3, <1>4, <1>5, <1>6 DEF Next

LEMMA Start == Init => IInv
<1> SUFFICES ASSUME Init PROVE IInv
  OBVIOUS
<1>1. 0 \in Slots
  BY SizeLemma DEF Slots
<1>2. /\ bcs = [i \in Slots |-> [data |-> bcs[i].data, uncompressed_len |-> bcs[i].uncompressed_len]]
      /\ \A i \in Slots : bcs[i].data = {}
  BY DEF Init, NoPacket
<1> QED BY <1>1, <1>2 DEF Init, IInv, PacketsContiguous

\* Whatever mixture of recording, rewinding, wrapping round, switching off and
\* failing: the packets form one run behind bcs_pos, and none outlives the state
\* it is a difference from (DoRecord, DoRewind and Cleanup).
THEOREM Contiguous == Spec => []PacketsContiguous
<1>1. IInv => PacketsContiguous
  BY DEF IInv
<1> QED BY <1>1, Start, Step, PTL DEF Spec

-----------------------------------------------------------------------------
(* Induction over the natural numbers, from the least element of a set.     *)

LEMMA NatLeast ==
  ASSUME NEW T, T \subseteq Nat, T # {}
  PROVE  \E n \in T : \A m \in T : n <= m
<1> DEFINE R == OpToRel(<, Nat)
<1>1. R = {ss \in Nat \X Nat : ss[1] < ss[2]}
  BY DEF OpToRel
<1>2. IsWellFoundedOn(R, Nat)
  BY NatLessThanWellFounded
<1> HIDE DEF R
<1>3. PICK n \in T : \A m \in T : ~ (<<m, n>> \in R)
  BY <1>2, WFMin
<1>4. ASSUME NEW m \in T, m < n PROVE <<m, n>> \in R
  <2> DEFINE p == <<m, n>>
  <2>1. p \in Nat \X Nat /\ p[1] = m /\ p[2] = n
    OBVIOUS
  <2> HIDE DEF p
  <2>2. p \in R
    BY <2>1, <1>1, <1>4
  <2> QED BY <2>2 DEF p
<1>5. ASSUME NEW m \in T PROVE n <= m
  <2>1. ~ (m < n)
    BY <1>3, <1>4
  <2> QED BY <2>1
<1> QED BY <1>5

LEMMA NatAll ==
  ASSUME NEW T, T \subseteq Nat, 0 \in T, \A n \in T : n + 1 \in T
  PROVE  T = Nat
<1>1. SUFFICES ASSUME Nat \ T # {} PROVE FALSE
  OBVIOUS
<1>2. PICK n \in Nat \ T : \A m \in Nat \ T : n <= m
  BY <1>1, NatLeast
<1>3. n - 1 \in Nat \ T
  BY <1>2
<1> QED BY <1>2, <1>3

-----------------------------------------------------------------------------
(* The differences: XOR with the same state twice gives back the first,     *)
(* whichever of the two is longer.                                          *)

Bits == Seq({0, 1})

LEMMA XORLemma ==
  ASSUME NEW prev \in Bits, NEW cur \in Bits
  PROVE  /\ XOR(prev, cur) \in Bits /\ Len(XOR(prev, cur)) = Len(prev)
         /\ XOR(XOR(prev, cur), cur) = prev
<1> DEFINE n == Smaller(Len(prev), Len(cur))
           x == XOR(prev, cur)
<1>1. /\ Len(prev) \in Nat /\ DOMAIN prev = 1 .. Len(prev) /\ Len(cur) \in Nat
      /\ n \in Nat /\ n <= Len(prev) /\ n <= Len(cur)
      /\ prev = [i \in 1 .. Len(prev) |-> prev[i]]
  BY DEF Smaller, Bits
<1>2. \A i \in 1 .. Len(prev) : prev[i] \in {0, 1} /\ (i <= n => cur[i] \in {0, 1})
  BY <1>1 DEF Bits
<1>3. x = [i \in 1 .. Len(prev) |-> IF i <= n THEN (prev[i] + cur[i]) % 2 ELSE prev[i]]
  BY <1>1 DEF XOR
<1>4. \A a, b \in {0, 1} : ((a + b) % 2) \in {0, 1} /\ (((a + b) % 2) + b) % 2 = a
  OBVIOUS
<1> HIDE DEF n, x
<1>5. x \in [1 .. Len(prev) -> {0, 1}]
  BY <1>2, <1>3, <1>4
<1>6. x \in Bits /\ Len(x) = Len(prev)
  BY <1>1, <1>5 DEF Bits
<1>7. XOR(x, cur) = prev
  <2>1. n = Smaller(Len(x), Len(cur)) /\ DOMAIN x = 1 .. Len(prev)
    BY <1>5, <1>6 DEF n
  <2>2. XOR(x, cur) = [i \in 1 .. Len(prev) |-> IF i <= n THEN (x[i] + cur[i]) % 2 ELSE x[i]]
    BY <2>1 DEF XOR
  <2>3. ASSUME NEW i \in 1 .. Len(prev)
        PROVE  (IF i <= n THEN (x[i] + cur[i]) % 2 ELSE x[i]) = prev[i]
    <3>1. CASE i <= n
      <4>1. x[i] = (prev[i] + cur[i]) % 2
        BY <1>3, <3>1
      <4>2. (((prev[i] + cur[i]) % 2) + cur[i]) % 2 = prev[i]
        BY <1>2, <1>4, <3>1
      <4> QED BY <3>1, <4>1, <4>2
    <3>2. CASE ~ (i <= n)
      BY <1>3, <3>2
    <3> QED BY <3>1, <3>2
  <2> QED BY <1>1, <2>2, <2>3
<1> QED BY <1>6, <1>7 DEF x

IsPacket(s) == \/ s.data = {}
               \/ \E d \in Bits : s.data = {d} /\ Len(d) = s.uncompressed_len

LEMMA DecompressLemma ==
  ASSUME NEW s, NEW d \in Bits, s.data = {d}, Len(d) = s.uncompressed_len
  PROVE  Decompress(s) = d
<1>1. (CHOOSE e \in s.data : TRUE) = d
  OBVIOUS
<1>2. Decompress(s) = [i \in 1 .. Len(d) |-> IF i <= Len(d) THEN d[i] ELSE 0]
  BY <1>1 DEF Decompress
<1>3. Len(d) \in Nat /\ d = [i \in 1 .. Len(d) |-> d[i]]
  BY DEF Bits
<1> QED BY <1>2, <1>3

LEMMA PacketLemma ==
  ASSUME NEW prev \in Bits, NEW cur \in Bits
  PROVE  /\ IsPacket(Packet(prev, cur)) /\ Packet(prev, cur).data # {}
         /\ XOR(Decompress(Packet(prev, cur)), cur) = prev
<1> DEFINE s == Packet(prev, cur)
<1>1. s.data = {XOR(prev, cur)} /\ s.uncompressed_len = Len(prev)
  BY DEF Packet
<1>2. XOR(prev, cur) \in Bits /\ Len(XOR(prev, cur)) = s.uncompressed_len
  BY <1>1, XORLemma
<1> HIDE DEF s
<1>3. Decompress(s) = XOR(prev, cur)
  BY <1>1, <1>2, DecompressLemma
<1>4. IsPacket(s) /\ s.data # {}
  BY <1>1, <1>2 DEF IsPacket
<1> QED BY <1>3, <1>4, XORLemma DEF s

-----------------------------------------------------------------------------
(* The slots, counted from the position back.                               *)

Behind(p, i) == IF i < p THEN p - i ELSE p - i + BcsSize
SlotOf(p, k) == IF k <= p THEN p - k ELSE p - k + BcsSize

LEMMA SlotLemma ==
  ASSUME NEW p \in Slots, NEW k \in 1 .. BcsSize
  PROVE  /\ SlotOf(p, k) \in Slots /\ Behind(p, SlotOf(p, k)) = k
         /\ \A i \in Slots : Behind(p, i) = k => i = SlotOf(p, k)
BY SizeLemma DEF SlotOf, Behind, Slots

LEMMA BehindLemma ==
  ASSUME NEW p \in Slots, NEW i \in Slots
  PROVE  Behind(p, i) \in 1 .. BcsSize
BY SizeLemma DEF Behind, Slots

\* The packets are the h last written.
Holds(b, p, h) == /\ h \in 0 .. BcsSize
                  /\ \A i \in Slots : b[i].data # {} <=> Behind(p, i) <= h

LEMMA HoldsLemma ==
  ASSUME NEW b, NEW p \in Slots,
         \A i, j \in Slots : b[i].data # {} /\ Behind(p, j) < Behind(p, i) => b[j].data # {}
  PROVE  \E h : Holds(b, p, h)
<1> DEFINE T == {n \in Nat : n = BcsSize \/ (n < BcsSize /\ b[SlotOf(p, n + 1)].data = {})}
<1>1. BcsSize \in T
  BY SizeLemma
<1>2. PICK h \in T : \A m \in T : h <= m
  <2>1. T \subseteq Nat /\ T # {}
    BY <1>1
  <2> HIDE DEF T
  <2> QED BY <2>1, NatLeast
<1>3. h \in 0 .. BcsSize
  BY SizeLemma
<1>4. ASSUME NEW i \in Slots, b[i].data # {} PROVE Behind(p, i) <= h
  <2>1. CASE h = BcsSize
    BY <2>1, BehindLemma
  <2>2. CASE h < BcsSize /\ b[SlotOf(p, h + 1)].data = {}
    <3> DEFINE j == SlotOf(p, h + 1)
    <3>1. h + 1 \in 1 .. BcsSize
      BY <2>2, SizeLemma
    <3>2. j \in Slots /\ Behind(p, j) = h + 1
      BY <3>1, SlotLemma
    <3> HIDE DEF j
    <3>3. ~ (Behind(p, j) < Behind(p, i))
      BY <1>4, <2>2, <3>2 DEF j
    <3>4. i # j
      BY <1>4, <2>2 DEF j
    <3>5. Behind(p, i) # h + 1
      BY <3>1, <3>4, SlotLemma DEF j
    <3> QED BY <2>2, <3>2, <3>3, <3>5, BehindLemma
  <2> QED BY <2>1, <2>2
<1>5. ASSUME NEW i \in Slots, Behind(p, i) <= h PROVE b[i].data # {}
  <2> DEFINE m == Behind(p, i) - 1
  <2>1. m \in Nat /\ m < BcsSize /\ m < h /\ m + 1 = Behind(p, i) /\ m + 1 \in 1 .. BcsSize
    BY <1>3, <1>5, BehindLemma, SizeLemma
  <2>2. i = SlotOf(p, m + 1)
    BY <2>1, SlotLemma
  <2> HIDE DEF m
  <2>3. m \notin T
    BY <1>2, <2>1
  <2> QED BY <2>1, <2>2, <2>3
<1> QED BY <1>3, <1>4, <1>5 DEF Holds

LEMMA HeldLemma ==
  ASSUME NEW b, NEW p \in Slots, NEW h, Holds(b, p, h)
  PROVE  Cardinality({i \in Slots : b[i].data # {}}) = h
<1> DEFINE S == {i \in Slots : b[i].data # {}}
           f == [k \in 1 .. h |-> SlotOf(p, k)]
<1>1. h \in Nat /\ 1 .. h \subseteq 1 .. BcsSize
  BY SizeLemma DEF Holds
<1>2. \A i \in S : i \in Slots /\ Behind(p, i) \in 1 .. h
  BY <1>1, BehindLemma DEF Holds
<1>3. \A k \in 1 .. h : SlotOf(p, k) \in S /\ Behind(p, SlotOf(p, k)) = k
  <2> TAKE k \in 1 .. h
  <2>1. k \in 1 .. BcsSize /\ k <= h
    BY <1>1
  <2>2. SlotOf(p, k) \in Slots /\ Behind(p, SlotOf(p, k)) = k
    BY <2>1, SlotLemma
  <2> QED BY <2>1, <2>2 DEF Holds
<1>4. \A i \in S : SlotOf(p, Behind(p, i)) = i
  BY <1>1, <1>2, SlotLemma
<1> HIDE DEF S
<1>5. f \in [1 .. h -> S]
  BY <1>3
<1>6. \A k, l \in 1 .. h : f[k] = f[l] => k = l
  BY <1>3
<1>7. \A i \in S : \E k \in 1 .. h : f[k] = i
  <2> TAKE i \in S
  <2>1. Behind(p, i) \in 1 .. h /\ f[Behind(p, i)] = i
    BY <1>2, <1>4
  <2> QED BY <2>1
<1> HIDE DEF f
<1>8. f \in Bijection(1 .. h, S)
  BY <1>5, <1>6, <1>7 DEF Bijection, Injection, Surjection, IsInjective
<1>9. Cardinality(1 .. h) = h /\ IsFiniteSet(1 .. h)
  BY <1>1, FS_Interval
<1>10. ExistsBijection(1 .. h, S)
  BY <1>8 DEF ExistsBijection
<1> QED BY <1>9, <1>10, FS_Bijection DEF S

-----------------------------------------------------------------------------
(* Rebuilding: the k-th state before the youngest.                          *)

Chain(b, p, x, h, r) ==
  r = [k \in 0 .. h |-> IF k = 0 THEN x ELSE XOR(Decompress(b[SlotOf(p, k)]), r[k - 1])]

LEMMA ChainExists ==
  ASSUME NEW b, NEW p, NEW x, NEW h \in Nat
  PROVE  \E r : Chain(b, p, x, h, r)
<1> DEFINE T == {m \in Nat : \E r : Chain(b, p, x, m, r)}
<1>1. 0 \in T
  <2> DEFINE r == [k \in 0 .. 0 |-> x]
  <2>1. Chain(b, p, x, 0, r)
    BY DEF Chain
  <2> HIDE DEF r
  <2> QED BY <2>1
<1>2. ASSUME NEW m \in T PROVE m + 1 \in T
  <2>1. PICK r : Chain(b, p, x, m, r)
    OBVIOUS
  <2> DEFINE q == [k \in 0 .. (m + 1) |->
                     IF k = 0 THEN x ELSE XOR(Decompress(b[SlotOf(p, k)]), r[k - 1])]
  <2>2. \A k \in 0 .. m : q[k] = r[k]
    BY <2>1 DEF Chain
  <2>3. \A k \in 0 .. (m + 1) : k # 0 => q[k - 1] = r[k - 1]
    <3>1. \A k \in 0 .. (m + 1) : k # 0 => k - 1 \in 0 .. m
      OBVIOUS
    <3> HIDE DEF q
    <3> QED BY <2>2, <3>1
  <2>4. q = [k \in 0 .. (m + 1) |->
               IF k = 0 THEN x ELSE XOR(Decompress(b[SlotOf(p, k)]), q[k - 1])]
    BY <2>3
  <2> HIDE DEF q
  <2>5. Chain(b, p, x, m + 1, q)
    BY <2>4 DEF Chain
  <2> QED BY <2>5
<1> HIDE DEF T
<1>3. T \subseteq Nat
  BY DEF T
<1>4. T = Nat
  BY <1>1, <1>2, <1>3, NatAll
<1> QED BY <1>4 DEF T

\* Where the packets of one ring are those of another, one place further back, so
\* are the states.
SamePackets(c, q, b, p, n) ==
  \A k \in 1 .. n : /\ c[SlotOf(q, k)].data = b[SlotOf(p, k + 1)].data
                    /\ c[SlotOf(q, k)].uncompressed_len = b[SlotOf(p, k + 1)].uncompressed_len

LEMMA ChainsAgree ==
  ASSUME NEW b, NEW p, NEW x, NEW h \in Nat, NEW r, Chain(b, p, x, h, r),
         NEW c, NEW q, NEW y, NEW l \in Nat, NEW s, Chain(c, q, y, l, s),
         y = r[1], NEW n \in Nat, n <= l, n + 1 <= h, SamePackets(c, q, b, p, n)
  PROVE  s[n] = r[n + 1]
<1> DEFINE T == {k \in Nat : k <= n => s[k] = r[k + 1]}
<1>1. 0 \in T
  BY DEF Chain
<1>2. ASSUME NEW k \in T PROVE k + 1 \in T
  <2>1. CASE k + 1 <= n
    <3> DEFINE m == k + 1
    <3>1. m \in 1 .. n /\ m \in 0 .. l /\ m # 0 /\ m - 1 = k
          /\ m + 1 \in 0 .. h /\ m + 1 # 0 /\ (m + 1) - 1 = m
      BY <2>1
    <3>2. s[k] = r[m]
      BY <2>1
    <3> HIDE DEF m
    <3> DEFINE v == c[SlotOf(q, m)]
               w == b[SlotOf(p, m + 1)]
    <3>3. s[m] = XOR(Decompress(v), s[k])
      BY <3>1 DEF Chain
    <3>4. r[m + 1] = XOR(Decompress(w), r[m])
      BY <3>1 DEF Chain
    <3>5. v.data = w.data /\ v.uncompressed_len = w.uncompressed_len
      BY <3>1 DEF SamePackets
    <3> HIDE DEF v, w
    <3>6. Decompress(v) = Decompress(w)
      BY <3>5 DEF Decompress
    <3>7. s[m] = r[m + 1]
      BY <3>2, <3>3, <3>4, <3>6
    <3> QED BY <3>7 DEF m
  <2>2. CASE ~ (k + 1 <= n)
    BY <2>2
  <2> QED BY <2>1, <2>2
<1>3. T \subseteq Nat
  OBVIOUS
<1> HIDE DEF T
<1>4. T = Nat
  BY <1>1, <1>2, <1>3, NatAll
<1> QED BY <1>4 DEF T

\* The stack a state of the ring stands for.
Unrolled(b, p, ss, h) ==
  LET At(k) == CHOOSE i \in Slots : Behind(p, i) = k
      r[k \in 0 .. h] == IF k = 0 THEN CHOOSE x \in ss : TRUE
                         ELSE XOR(Decompress(b[At(k)]), r[k - 1])
  IN  [i \in 1 .. (h + 1) |-> r[h + 1 - i]]
RebuiltOf(b, p, ss) ==
  IF ss = {} THEN <<>> ELSE Unrolled(b, p, ss, Cardinality({i \in Slots : b[i].data # {}}))

LEMMA RebuiltHere == /\ Rebuilt = RebuiltOf(bcs, bcs_pos, ss_prev)
                     /\ Rebuilt' = RebuiltOf(bcs', bcs_pos', ss_prev')
BY DEF Rebuilt, RebuiltOf, Unrolled, Held, Slot, Distance, Behind

Reversed(r, h) == [i \in 1 .. (h + 1) |-> r[h + 1 - i]]

Rebuilds(b, p, x, h) ==
  \E r : Chain(b, p, x, h, r) /\ RebuiltOf(b, p, {x}) = Reversed(r, h)

LEMMA RebuiltLemma ==
  ASSUME NEW b, NEW p \in Slots, NEW x, NEW h, Holds(b, p, h)
  PROVE  Rebuilds(b, p, x, h)
<1> DEFINE c == CHOOSE r : Chain(b, p, x, h, r)
           At(k) == CHOOSE i \in Slots : Behind(p, i) = k
<1>1. h \in Nat /\ 1 .. h \subseteq 1 .. BcsSize
  BY SizeLemma DEF Holds
<1>2. Chain(b, p, x, h, c)
  BY <1>1, ChainExists
<1>3. \A k \in 0 .. h : k # 0 => At(k) = SlotOf(p, k)
  <2> SUFFICES ASSUME NEW k \in 0 .. h, k # 0 PROVE At(k) = SlotOf(p, k)
    OBVIOUS
  <2>1. k \in 1 .. BcsSize
    BY <1>1
  <2> QED BY <2>1, SlotLemma
<1> DEFINE Is(r) == r = [k \in 0 .. h |-> IF k = 0 THEN CHOOSE y \in {x} : TRUE
                                        ELSE XOR(Decompress(b[At(k)]), r[k - 1])]
<1>4. ASSUME NEW r PROVE Is(r) <=> Chain(b, p, x, h, r)
  <2>1. (CHOOSE y \in {x} : TRUE) = x
    OBVIOUS
  <2> HIDE DEF At
  <2>2. [k \in 0 .. h |-> IF k = 0 THEN CHOOSE y \in {x} : TRUE
                          ELSE XOR(Decompress(b[At(k)]), r[k - 1])]
        = [k \in 0 .. h |-> IF k = 0 THEN x
                            ELSE XOR(Decompress(b[SlotOf(p, k)]), r[k - 1])]
    BY <1>3, <2>1
  <2> QED BY <2>2 DEF Chain
<1> HIDE DEF Is
<1>5. (CHOOSE r : Is(r)) = c
  BY <1>4
<1>6. RebuiltOf(b, p, {x}) = Unrolled(b, p, {x}, h)
  BY HeldLemma DEF RebuiltOf
<1>7. Unrolled(b, p, {x}, h) = [i \in 1 .. (h + 1) |-> (CHOOSE r : Is(r))[h + 1 - i]]
  BY DEF Unrolled, Is
<1>8. RebuiltOf(b, p, {x}) = Reversed(c, h)
  BY <1>5, <1>6, <1>7 DEF Reversed
<1> QED BY <1>2, <1>8 DEF Rebuilds

-----------------------------------------------------------------------------
(* Recording pushes, rewinding pops.                                        *)

LEMMA AheadLemma ==
  ASSUME NEW p \in Slots
  PROVE  /\ After(p) \in Slots
         /\ \A i \in Slots : Behind(After(p), i) = IF i = p THEN 1 ELSE Behind(p, i) + 1
         /\ SlotOf(After(p), 1) = p
         /\ \A k \in 1 .. (BcsSize - 1) :
              SlotOf(p, k) # p /\ SlotOf(After(p), k + 1) = SlotOf(p, k)
BY AroundLemma, SizeLemma DEF Behind, SlotOf, Slots

LEMMA BackwardLemma ==
  ASSUME NEW p \in Slots
  PROVE  /\ Before(p) \in Slots
         /\ \A i \in Slots :
              Behind(Before(p), i) = IF i = Before(p) THEN BcsSize ELSE Behind(p, i) - 1
         /\ SlotOf(p, 1) = Before(p)
         /\ \A k \in 1 .. (BcsSize - 1) :
              SlotOf(p, k + 1) # Before(p) /\ SlotOf(Before(p), k) = SlotOf(p, k + 1)
BY AroundLemma, SizeLemma DEF Behind, SlotOf, Slots

\* A packet more is a state more, or one in place of the oldest.
LEMMA PushedHolds ==
  ASSUME NEW b, NEW p \in Slots, NEW h, Holds(b, p, h),
         NEW c, c[p].data # {}, \A i \in Slots : i # p => c[i] = b[i]
  PROVE  Holds(c, After(p), IF h < BcsSize THEN h + 1 ELSE BcsSize)
<1>1. h \in 0 .. BcsSize /\ BcsSize \in Nat /\ BcsSize >= 2
  BY SizeLemma DEF Holds
<1>2. ASSUME NEW i \in Slots
      PROVE  c[i].data # {} <=> Behind(After(p), i) <= (IF h < BcsSize THEN h + 1 ELSE BcsSize)
  <2>1. CASE i = p
    BY <1>1, <2>1, AheadLemma
  <2>2. CASE i # p
    <3>1. c[i].data # {} <=> Behind(p, i) <= h
      BY <2>2 DEF Holds
    <3>2. Behind(After(p), i) = Behind(p, i) + 1
      BY <2>2, AheadLemma
    <3>3. Behind(p, i) \in 1 .. (BcsSize - 1)
      BY <2>2, SizeLemma DEF Behind, Slots
    <3> QED BY <1>1, <3>1, <3>2, <3>3
  <2> QED BY <2>1, <2>2
<1> QED BY <1>1, <1>2 DEF Holds

Pushed(b, p, h, prev, cur, S, c) ==
  /\ p \in Slots /\ Holds(b, p, h) /\ prev \in Bits /\ cur \in Bits
  /\ RebuiltOf(b, p, {prev}) \in Seq(S) /\ cur \in S
  /\ c[p] = Packet(prev, cur) /\ \A i \in Slots : i # p => c[i] = b[i]

LEMMA PushedLemma ==
  ASSUME NEW b, NEW p, NEW h, NEW prev, NEW cur, NEW S, NEW c, Pushed(b, p, h, prev, cur, S, c)
  PROVE  RebuiltOf(c, After(p), {cur}) = Abstract!Push(RebuiltOf(b, p, {prev}), cur)
<1>0. /\ p \in Slots /\ Holds(b, p, h) /\ prev \in Bits /\ cur \in Bits
      /\ RebuiltOf(b, p, {prev}) \in Seq(S) /\ cur \in S
      /\ c[p] = Packet(prev, cur) /\ \A i \in Slots : i # p => c[i] = b[i]
  BY DEF Pushed
<1> USE <1>0
<1> DEFINE q == After(p)
           g == IF h < BcsSize THEN h + 1 ELSE BcsSize
<1>1. /\ h \in Nat /\ h <= BcsSize /\ BcsSize \in Nat /\ BcsSize >= 2
      /\ g \in Nat /\ g <= BcsSize /\ g - 1 <= h /\ g >= 1
  BY SizeLemma DEF Holds
<1>2. Holds(c, q, g)
  BY PacketLemma, PushedHolds
<1>3. /\ q \in Slots /\ SlotOf(q, 1) = p
      /\ \A k \in 1 .. (BcsSize - 1) : SlotOf(p, k) # p /\ SlotOf(q, k + 1) = SlotOf(p, k)
  BY AheadLemma
<1> HIDE DEF q
<1>4. PICK r : Chain(b, p, prev, h, r) /\ RebuiltOf(b, p, {prev}) = Reversed(r, h)
  <2>1. Rebuilds(b, p, prev, h)
    BY RebuiltLemma
  <2> QED BY <2>1 DEF Rebuilds
<1> HIDE DEF g
<1>5. PICK s : Chain(c, q, cur, g, s) /\ RebuiltOf(c, q, {cur}) = Reversed(s, g)
  <2>1. Rebuilds(c, q, cur, g)
    BY <1>2, <1>3, RebuiltLemma
  <2> QED BY <2>1 DEF Rebuilds
<1>6. s[0] = cur /\ r[0] = prev
  BY <1>1, <1>4, <1>5 DEF Chain
<1>7. s[1] = prev
  <2>1. 1 \in 0 .. g /\ 1 # 0 /\ 1 - 1 = 0
    BY <1>1
  <2>2. s[1] = XOR(Decompress(c[SlotOf(q, 1)]), s[0])
    BY <1>5, <2>1 DEF Chain
  <2> QED BY <1>3, <1>6, <2>2, PacketLemma
<1>8. ASSUME NEW n \in 0 .. (g - 1) PROVE s[n + 1] = r[n]
  <2>1. n \in Nat /\ n <= h /\ n + 1 <= g /\ prev = s[1] /\ h \in Nat /\ g \in Nat
    BY <1>1, <1>7
  <2>2. SamePackets(b, p, c, q, n)
    <3> SUFFICES ASSUME NEW k \in 1 .. n
                 PROVE  b[SlotOf(p, k)] = c[SlotOf(q, k + 1)]
      BY DEF SamePackets
    <3>1. k \in 1 .. (BcsSize - 1) /\ k \in 1 .. BcsSize
      BY <1>1
    <3>2. SlotOf(p, k) \in Slots /\ SlotOf(p, k) # p /\ SlotOf(q, k + 1) = SlotOf(p, k)
      BY <1>3, <3>1, SlotLemma
    <3> QED BY <3>2
  <2>3. Chain(c, q, cur, g, s) /\ Chain(b, p, prev, h, r)
    BY <1>4, <1>5
  <2> QED BY ONLY <2>1, <2>2, <2>3, ChainsAgree
<1> DEFINE A == RebuiltOf(b, p, {prev})
           B == RebuiltOf(c, q, {cur})
           t == Append(A, cur)
<1>9. /\ A \in Seq(S) /\ Len(A) = h + 1 /\ \A i \in 1 .. (h + 1) : A[i] = r[h + 1 - i]
      /\ B = [i \in 1 .. (g + 1) |-> s[g + 1 - i]]
  <2>1. A \in Seq(S)
    OBVIOUS
  <2>2. A = [i \in 1 .. (h + 1) |-> r[h + 1 - i]] /\ B = [i \in 1 .. (g + 1) |-> s[g + 1 - i]]
    BY <1>4, <1>5 DEF Reversed
  <2> HIDE DEF A, B
  <2>3. DOMAIN A = 1 .. (h + 1) /\ h + 1 \in Nat
    BY <1>1, <2>2
  <2> QED BY <2>1, <2>2, <2>3
<1> HIDE DEF A, B
<1>10. /\ t \in Seq(S) /\ Len(t) = h + 2
       /\ \A i \in 1 .. (h + 2) : t[i] = IF i = h + 2 THEN cur ELSE A[i]
  BY <1>1, <1>9
<1> HIDE DEF t
<1>11. \A i \in 1 .. (h + 2) : t[i] = IF i = h + 2 THEN cur ELSE r[h + 1 - i]
  BY <1>1, <1>9, <1>10
<1>12. \A n \in 0 .. g : s[n] = IF n = 0 THEN cur ELSE r[n - 1]
  <2> SUFFICES ASSUME NEW n \in 0 .. g, n # 0 PROVE s[n] = r[n - 1]
    BY <1>6
  <2>1. n - 1 \in 0 .. (g - 1) /\ (n - 1) + 1 = n
    BY <1>1
  <2> DEFINE m == n - 1
  <2>2. s[m + 1] = r[m]
    BY <2>1, <1>8
  <2> QED BY <2>1, <2>2
<1>13. Abstract!Push(A, cur) = IF h + 2 > BcsSize + 1 THEN Tail(t) ELSE t
  BY <1>10 DEF Abstract!Push, t
<1>14. CASE h < BcsSize
  <2>1. g = h + 1 /\ ~ (h + 2 > BcsSize + 1)
    BY <1>1, <1>14 DEF g
  <2>2. ASSUME NEW i \in 1 .. (h + 2) PROVE t[i] = s[g + 1 - i]
    <3>1. g + 1 - i \in 0 .. g /\ g + 1 - i - 1 = h + 1 - i /\ (g + 1 - i = 0 <=> i = h + 2)
      BY <1>1, <2>1
    <3> DEFINE m == g + 1 - i
    <3>2. s[m] = IF m = 0 THEN cur ELSE r[m - 1]
      <4>1. m \in 0 .. g
        BY <3>1
      <4> HIDE DEF m
      <4> QED BY <1>12, <4>1
    <3>3. (m = 0 <=> i = h + 2) /\ m - 1 = h + 1 - i
      BY <1>1, <2>1
    <3> HIDE DEF m
    <3>4. t[i] = s[m]
      BY <1>11, <3>2, <3>3
    <3> QED BY <3>4 DEF m
  <2>3. t = [i \in 1 .. (h + 2) |-> t[i]]
    BY <1>1, <1>10
  <2>4. g + 1 = h + 2
    BY <1>1, <2>1
  <2>5. t = B
    BY <1>9, <2>2, <2>3, <2>4
  <2> QED BY <1>13, <2>1, <2>5 DEF A, B, q
<1>15. CASE ~ (h < BcsSize)
  <2>1. g = h /\ h = BcsSize /\ h + 2 > BcsSize + 1
    BY <1>1, <1>15 DEF g
  <2>2. /\ Tail(t) \in Seq(S) /\ Len(Tail(t)) = h + 1
        /\ \A i \in 1 .. (h + 1) : Tail(t)[i] = t[i + 1]
    BY <1>1, <1>10
  <2>3. ASSUME NEW i \in 1 .. (h + 1) PROVE Tail(t)[i] = s[g + 1 - i]
    <3>1. /\ g + 1 - i \in 0 .. g /\ g + 1 - i - 1 = h + 1 - (i + 1)
          /\ (g + 1 - i = 0 <=> i + 1 = h + 2) /\ i + 1 \in 1 .. (h + 2)
      BY <1>1, <2>1
    <3> DEFINE m == g + 1 - i
    <3>2. s[m] = IF m = 0 THEN cur ELSE r[m - 1]
      <4>1. m \in 0 .. g
        BY <3>1
      <4> HIDE DEF m
      <4> QED BY <1>12, <4>1
    <3>3. t[i + 1] = IF i + 1 = h + 2 THEN cur ELSE r[h + 1 - (i + 1)]
      BY <1>11, <3>1
    <3>4. (m = 0 <=> i + 1 = h + 2) /\ m - 1 = h + 1 - (i + 1)
      BY <1>1, <2>1
    <3>5. Tail(t)[i] = t[i + 1]
      BY <2>2
    <3> HIDE DEF m
    <3>6. Tail(t)[i] = s[m]
      BY <3>2, <3>3, <3>4, <3>5
    <3> QED BY <3>6 DEF m
  <2>4. Tail(t) = [i \in 1 .. (h + 1) |-> Tail(t)[i]]
    <3> DEFINE u == Tail(t)
    <3>1. u \in Seq(S) /\ Len(u) = h + 1
      BY <2>2
    <3> HIDE DEF u
    <3>2. u = [i \in 1 .. (h + 1) |-> u[i]]
      BY <3>1
    <3> QED BY <3>2 DEF u
  <2>5. g + 1 = h + 1
    BY <2>1
  <2>6. Tail(t) = B
    BY <1>9, <2>3, <2>4, <2>5
  <2> QED BY <1>13, <2>1, <2>6 DEF A, B, q
<1> QED BY <1>14, <1>15

\* A packet less is a state less.
LEMMA PoppedLemma ==
  ASSUME NEW b, NEW p \in Slots, NEW h, Holds(b, p, h), NEW cur,
         NEW S, RebuiltOf(b, p, {cur}) \in Seq(S),
         b[Before(p)].data # {},
         NEW c, c[Before(p)].data = {}, \A i \in Slots : i # Before(p) => c[i] = b[i]
  PROVE  LET A == RebuiltOf(b, p, {cur})
             y == XOR(Decompress(b[Before(p)]), cur)
         IN  /\ Len(A) > 1
             /\ RebuiltOf(c, Before(p), {y}) = SubSeq(A, 1, Len(A) - 1)
<1> DEFINE q == Before(p)
           g == h - 1
           y == XOR(Decompress(b[Before(p)]), cur)
           A == RebuiltOf(b, p, {cur})
<1>1. /\ q \in Slots /\ SlotOf(p, 1) = q
      /\ \A i \in Slots : Behind(q, i) = IF i = q THEN BcsSize ELSE Behind(p, i) - 1
      /\ \A k \in 1 .. (BcsSize - 1) : SlotOf(p, k + 1) # q /\ SlotOf(q, k) = SlotOf(p, k + 1)
  BY BackwardLemma
<1>2. h \in Nat /\ h <= BcsSize /\ BcsSize \in Nat /\ BcsSize >= 2 /\ h >= 1
  <2>1. h \in Nat /\ h <= BcsSize /\ BcsSize \in Nat /\ BcsSize >= 2
    BY SizeLemma DEF Holds
  <2>2. Behind(p, q) = 1
    BY <1>1, <2>1, SlotLemma
  <2>3. Behind(p, q) <= h
    BY <1>1 DEF Holds
  <2> QED BY <2>1, <2>2, <2>3
<1>3. g \in Nat /\ g <= BcsSize - 1 /\ g + 1 = h
  BY <1>2
<1>4. Holds(c, q, g)
  <2>1. ASSUME NEW i \in Slots PROVE c[i].data # {} <=> Behind(q, i) <= g
    <3>1. CASE i = q
      BY <1>1, <1>2, <3>1
    <3>2. CASE i # q
      <4>1. c[i].data # {} <=> Behind(p, i) <= h
        BY <3>2 DEF Holds
      <4>2. Behind(q, i) = Behind(p, i) - 1 /\ Behind(p, i) \in 1 .. BcsSize
        BY <1>1, <3>2, BehindLemma
      <4> QED BY <1>2, <4>1, <4>2
    <3> QED BY <3>1, <3>2
  <2> QED BY <1>2, <1>3, <2>1 DEF Holds
<1>5. PICK r : Chain(b, p, cur, h, r) /\ A = Reversed(r, h)
  <2>1. Rebuilds(b, p, cur, h)
    BY RebuiltLemma
  <2> QED BY <2>1 DEF Rebuilds
<1> HIDE DEF g, y
<1>6. PICK s : Chain(c, q, y, g, s) /\ RebuiltOf(c, q, {y}) = Reversed(s, g)
  <2>1. Rebuilds(c, q, y, g)
    BY <1>1, <1>4, RebuiltLemma
  <2> QED BY <2>1 DEF Rebuilds
<1>7. r[1] = y
  <2>1. 0 \in 0 .. h /\ 1 \in 0 .. h /\ 1 # 0 /\ 1 - 1 = 0
    BY <1>2
  <2>2. r[0] = cur /\ r[1] = XOR(Decompress(b[SlotOf(p, 1)]), r[0])
    BY <1>5, <2>1 DEF Chain
  <2> QED BY <1>1, <2>2 DEF y
<1> HIDE DEF q
<1>8. ASSUME NEW n \in 0 .. g PROVE s[n] = r[n + 1]
  <2>1. n \in Nat /\ n <= g /\ n + 1 <= h /\ y = r[1] /\ h \in Nat /\ g \in Nat
    BY <1>2, <1>3, <1>7
  <2>2. SamePackets(c, q, b, p, n)
    <3> SUFFICES ASSUME NEW k \in 1 .. n
                 PROVE  c[SlotOf(q, k)] = b[SlotOf(p, k + 1)]
      BY DEF SamePackets
    <3>1. k \in 1 .. (BcsSize - 1) /\ k + 1 \in 1 .. BcsSize
      BY <1>2, <1>3
    <3>2. SlotOf(p, k + 1) \in Slots /\ SlotOf(p, k + 1) # q /\ SlotOf(q, k) = SlotOf(p, k + 1)
      BY <1>1, <3>1, SlotLemma
    <3> QED BY <3>2 DEF q
  <2>3. Chain(b, p, cur, h, r) /\ Chain(c, q, y, g, s)
    BY <1>5, <1>6
  <2> QED BY ONLY <2>1, <2>2, <2>3, ChainsAgree
<1>9. A \in Seq(S) /\ Len(A) = h + 1 /\ \A i \in 1 .. (h + 1) : A[i] = r[h + 1 - i]
  <2>1. A \in Seq(S) /\ A = [i \in 1 .. (h + 1) |-> r[h + 1 - i]]
    BY <1>5 DEF Reversed
  <2> HIDE DEF A
  <2>2. DOMAIN A = 1 .. (h + 1) /\ h + 1 \in Nat
    BY <1>2, <2>1
  <2> QED BY <2>1, <2>2
<1> HIDE DEF A
<1>10. /\ SubSeq(A, 1, h) \in Seq(S) /\ Len(SubSeq(A, 1, h)) = h
       /\ \A i \in 1 .. h : SubSeq(A, 1, h)[i] = A[i]
  BY <1>2, <1>9
<1>11. ASSUME NEW i \in 1 .. h PROVE SubSeq(A, 1, h)[i] = s[g + 1 - i]
  <2>1. g + 1 - i \in 0 .. g /\ (g + 1 - i) + 1 = h + 1 - i /\ i \in 1 .. (h + 1)
    BY <1>2, <1>3
  <2> DEFINE m == g + 1 - i
  <2>2. m \in 0 .. g
    BY <2>1
  <2> HIDE DEF m
  <2>3. s[m] = r[m + 1]
    BY <1>8, <2>2
  <2> QED BY <1>9, <1>10, <2>1, <2>3 DEF m
<1>12. SubSeq(A, 1, h) = [i \in 1 .. h |-> SubSeq(A, 1, h)[i]]
  BY <1>2, <1>10
<1>13. SubSeq(A, 1, h) = RebuiltOf(c, q, {y})
  BY <1>3, <1>6, <1>11, <1>12 DEF Reversed
<1>14. Len(A) > 1 /\ Len(A) - 1 = h
  BY <1>2, <1>9
<1> QED BY <1>13, <1>14 DEF A, y, q

-----------------------------------------------------------------------------
(* The ring implements the stack: the states that can be rebuilt are states *)
(* that were recorded.                                                      *)

MInv == /\ IInv
        /\ ss_prev = {} \/ \E x \in Bits : ss_prev = {x}
        /\ \A i \in Slots : IsPacket(bcs[i])
        /\ mach \in States
        /\ Rebuilt \in Seq(States)

LEMMA RebuiltHolds ==
  ASSUME IInv
  PROVE  \E h : Holds(bcs, bcs_pos, h)
<1>1. /\ bcs_pos \in Slots
      /\ \A i, j \in Slots : bcs[i].data # {} /\ Behind(bcs_pos, j) < Behind(bcs_pos, i)
                               => bcs[j].data # {}
  BY DEF IInv, PacketsContiguous, Distance, Behind
<1> QED BY <1>1, HoldsLemma

LEMMA EmptyLemma == /\ ss_prev = {} => Rebuilt = <<>>
                    /\ ss_prev' = {} => Rebuilt' = <<>>
BY RebuiltHere DEF RebuiltOf

\* The youngest is on top.
LEMMA TopLemma ==
  ASSUME IInv, NEW cur, ss_prev = {cur}, Rebuilt \in Seq(States)
  PROVE  Rebuilt # <<>> /\ Abstract!Top(Rebuilt) = cur /\ cur \in States
<1>1. PICK h : Holds(bcs, bcs_pos, h)
  BY RebuiltHolds
<1>2. Rebuilds(bcs, bcs_pos, cur, h)
  BY <1>1, RebuiltLemma DEF IInv
<1>3. PICK r : Chain(bcs, bcs_pos, cur, h, r) /\ Rebuilt = Reversed(r, h)
  BY <1>2, RebuiltHere DEF Rebuilds
<1>4. h \in Nat
  BY <1>1, SizeLemma DEF Holds
<1>5. r[0] = cur
  BY <1>3, <1>4 DEF Chain
<1>6. Rebuilt = [i \in 1 .. (h + 1) |-> r[h + 1 - i]]
  BY <1>3 DEF Reversed
<1>7. DOMAIN Rebuilt = 1 .. (h + 1) /\ Len(Rebuilt) = h + 1
  BY <1>4, <1>6
<1>8. Rebuilt[h + 1] = cur
  BY <1>4, <1>5, <1>6
<1> QED BY <1>4, <1>7, <1>8 DEF Abstract!Top

\* Nothing but the machine changes: the states in the ring are the same.
LEMMA SameRebuilt ==
  ASSUME UNCHANGED <<bcs, bcs_pos, ss_prev>>
  PROVE  Rebuilt' = Rebuilt
BY RebuiltHere

LEMMA StartMapped == Init => MInv /\ Abstract!StackInit
<1> SUFFICES ASSUME Init PROVE MInv /\ Abstract!StackInit
  OBVIOUS
<1>1. IInv
  BY Start
<1>2. \A i \in Slots : IsPacket(bcs[i])
  BY DEF Init, NoPacket, IsPacket
<1>3. ss_prev = {} /\ Rebuilt = <<>> /\ mach \in States /\ Active = FALSE
  BY EmptyLemma DEF Init
<1> QED BY <1>1, <1>2, <1>3 DEF MInv, Abstract!StackInit

LEMMA CleanupMapped ==
  ASSUME MInv, IInv', Cleanup, mach' \in States
  PROVE  MInv' /\ Rebuilt' = <<>>
<1>1. ss_prev' = {} /\ \A i \in Slots : IsPacket(bcs'[i])
  BY DEF Cleanup, NoPacket, IsPacket
<1>2. Rebuilt' = <<>>
  BY <1>1, EmptyLemma
<1> QED BY <1>1, <1>2 DEF MInv

LEMMA KeptMapped ==
  ASSUME MInv, IInv', UNCHANGED <<bcs, ss_prev>>, ss_prev = {} \/ UNCHANGED bcs_pos,
         mach' \in States
  PROVE  MInv' /\ Rebuilt' = Rebuilt
<1>1. Rebuilt' = Rebuilt
  BY SameRebuilt, EmptyLemma
<1> QED BY <1>1 DEF MInv

LEMMA BeginMapped ==
  ASSUME MInv, IInv', MDFNSRW_Begin, mach' \in States
  PROVE  /\ MInv' /\ Rebuilt' = Rebuilt
         /\ Active' = Active \/ (Active' = TRUE /\ ~ Active /\ UNCHANGED ss_prev)
<1>1. CASE Active' = TRUE /\ ~ Active /\ UNCHANGED <<bcs, ss_prev>>
  <2>1. ss_prev = {}
    BY <1>1 DEF MInv, IInv, PacketsContiguous
  <2> QED BY <1>1, <2>1, KeptMapped
<1>2. CASE Cleanup /\ ~ Active /\ UNCHANGED Active
  <2>1. Rebuilt = <<>>
    BY <1>2, EmptyLemma DEF MInv, IInv, PacketsContiguous
  <2> QED BY <1>2, <2>1, CleanupMapped
<1>3. CASE UNCHANGED <<Active, bcs, bcs_pos, ss_prev>>
  BY <1>3, KeptMapped
<1> QED BY <1>1, <1>2, <1>3 DEF MDFNSRW_Begin

LEMMA EndMapped ==
  ASSUME MInv, IInv', MDFNSRW_End, mach' \in States,
         mach' \in {mach} \cup ss_prev, Active \/ mach' = mach
  PROVE  MInv' /\ [Abstract!StackNext]_(Abstract!stackvars)
<1>1. CASE Active
  <2>1. MInv' /\ Rebuilt' = <<>> /\ Active' = FALSE
    BY <1>1, CleanupMapped DEF MDFNSRW_End
  <2>2. mach' \in {mach} \cup {Rebuilt[i] : i \in DOMAIN Rebuilt \cap {Len(Rebuilt)}}
    <3>1. CASE mach' = mach
      BY <3>1
    <3>2. CASE mach' \in ss_prev
      <4>1. ss_prev = {mach'}
        BY <3>2 DEF MInv
      <4>2. Rebuilt # <<>> /\ Rebuilt[Len(Rebuilt)] = mach' /\ Rebuilt \in Seq(States)
        BY <4>1, TopLemma DEF MInv, Abstract!Top
      <4>3. Len(Rebuilt) \in DOMAIN Rebuilt
        BY <4>2
      <4> QED BY <4>2, <4>3
    <3> QED BY <3>1, <3>2
  <2>3. Abstract!Stop
    BY <1>1, <2>1, <2>2 DEF Abstract!Stop
  <2> QED BY <2>1, <2>3 DEF Abstract!StackNext
<1>2. CASE ~ Active
  <2>1. UNCHANGED <<Active, bcs, bcs_pos, ss_prev>> /\ mach' = mach
    BY <1>2 DEF MDFNSRW_End
  <2>2. MInv' /\ Rebuilt' = Rebuilt
    BY <2>1, KeptMapped
  <2> QED BY <2>1, <2>2 DEF Abstract!stackvars
<1> QED BY <1>1, <1>2

LEMMA RecordMapped ==
  ASSUME MInv, IInv', DoRecord
  PROVE  MInv' /\ Abstract!Record
<1>1. Active /\ Active' = Active /\ mach' = mach /\ ss_prev' = {mach} /\ mach \in Bits
      /\ mach \in States
  BY SrwAssumption DEF DoRecord, MInv, Bits
<1>2. CASE ss_prev = {} /\ UNCHANGED <<bcs, bcs_pos>>
  <2>1. Rebuilt = <<>> /\ \A i \in Slots : bcs[i].data = {}
    BY <1>2, EmptyLemma DEF MInv, IInv, PacketsContiguous
  <2>2. Holds(bcs, bcs_pos, 0)
    BY <2>1, BehindLemma, SizeLemma DEF Holds, MInv, IInv
  <2>3. Rebuilds(bcs, bcs_pos, mach, 0)
    BY <2>2, RebuiltLemma DEF MInv, IInv
  <2>4. PICK r : Chain(bcs, bcs_pos, mach, 0, r) /\ Rebuilt' = Reversed(r, 0)
    BY <1>1, <1>2, <2>3, RebuiltHere DEF Rebuilds
  <2>5. r[0] = mach
    BY <2>4 DEF Chain
  <2>6. Rebuilt' = <<mach>>
    <3>1. Reversed(r, 0) = [i \in 1 .. 1 |-> mach]
      BY <2>5 DEF Reversed
    <3> QED BY <2>4, <3>1
  <2>7. Abstract!Push(<<>>, mach) = <<mach>>
    <3>1. Append(<<>>, mach) = <<mach>> /\ Len(<<mach>>) = 1
      OBVIOUS
    <3> QED BY <3>1, SizeLemma DEF Abstract!Push
  <2>8. MInv'
    BY <1>1, <1>2, <2>6 DEF MInv
  <2> QED BY <1>1, <2>1, <2>6, <2>7, <2>8 DEF Abstract!Record
<1>3. ASSUME NEW prev \in ss_prev,
             bcs' = [bcs EXCEPT ![bcs_pos] = Packet(prev, mach)], bcs_pos' = After(bcs_pos)
      PROVE  MInv' /\ Abstract!Record
  <2>1. ss_prev = {prev} /\ prev \in Bits /\ bcs_pos \in Slots
    BY <1>3 DEF MInv, IInv
  <2>2. bcs'[bcs_pos] = Packet(prev, mach) /\ \A i \in Slots : i # bcs_pos => bcs'[i] = bcs[i]
    BY <1>3, <2>1 DEF MInv, IInv
  <2>3. PICK h : Holds(bcs, bcs_pos, h)
    BY RebuiltHolds DEF MInv
  <2>4. Rebuilt = RebuiltOf(bcs, bcs_pos, {prev}) /\ Rebuilt \in Seq(States)
    BY <2>1, RebuiltHere DEF MInv
  <2>5. Rebuilt' = RebuiltOf(bcs', After(bcs_pos), {mach})
    BY <1>1, <1>3, RebuiltHere
  <2>6. Rebuilt' = Abstract!Push(Rebuilt, mach)
    <3>1. Pushed(bcs, bcs_pos, h, prev, mach, States, bcs')
      BY <1>1, <2>1, <2>2, <2>3, <2>4 DEF Pushed
    <3> QED BY <2>4, <2>5, <3>1, PushedLemma
  <2>7. Rebuilt' \in Seq(States)
    <3> DEFINE t == Append(Rebuilt, mach)
    <3>1. t \in Seq(States) /\ t # <<>>
      BY <1>1, <2>4
    <3>2. Rebuilt' = t \/ Rebuilt' = Tail(t)
      BY <2>6 DEF Abstract!Push
    <3> HIDE DEF t
    <3> QED BY <3>1, <3>2
  <2>8. \A i \in Slots : IsPacket(bcs'[i])
    BY <1>1, <2>1, <2>2, PacketLemma DEF MInv
  <2>9. MInv'
    BY <1>1, <2>7, <2>8 DEF MInv
  <2> QED BY <1>1, <2>6, <2>9 DEF Abstract!Record
<1> QED BY <1>2, <1>3 DEF DoRecord

LEMMA RewindMapped ==
  ASSUME MInv, IInv', DoRewind
  PROVE  MInv' /\ [Abstract!StackNext]_(Abstract!stackvars)
<1> DEFINE b == Before(bcs_pos)
           smp == bcs[b]
<1>1. Active /\ Active' = Active
  BY DEF DoRewind
<1>2. CASE ss_prev = {} /\ UNCHANGED <<bcs, bcs_pos, ss_prev, mach>>
  <2>1. MInv' /\ Rebuilt' = Rebuilt
    BY <1>2, KeptMapped DEF MInv
  <2> QED BY <1>1, <1>2, <2>1 DEF Abstract!stackvars
<1>3. ASSUME NEW cur \in ss_prev, mach' = cur, smp.data = {},
             UNCHANGED <<bcs, bcs_pos, ss_prev>>
      PROVE  MInv' /\ Abstract!Rewind
  <2>1. ss_prev = {cur} /\ IInv /\ Rebuilt \in Seq(States)
    BY <1>3 DEF MInv
  <2>2. Rebuilt # <<>> /\ Abstract!Top(Rebuilt) = cur /\ cur \in States
    BY <2>1, TopLemma
  <2>3. MInv' /\ Rebuilt' = Rebuilt
    BY <1>3, <2>2, KeptMapped
  <2>4. Abstract!Pop(Rebuilt) = Rebuilt
    <3>1. PICK h : Holds(bcs, bcs_pos, h)
      BY <2>1, RebuiltHolds
    <3>2. h = 0
      <4>1. b \in Slots /\ Behind(bcs_pos, b) = 1
        <5>1. bcs_pos \in Slots /\ 1 \in 1 .. BcsSize
          BY <2>1, SizeLemma DEF IInv
        <5>2. b \in Slots /\ SlotOf(bcs_pos, 1) = b
          BY <5>1, BackwardLemma
        <5>3. Behind(bcs_pos, SlotOf(bcs_pos, 1)) = 1
          BY <5>1, SlotLemma
        <5> QED BY <5>2, <5>3
      <4>2. ~ (1 <= h) /\ h \in Nat
        BY <1>3, <3>1, <4>1, SizeLemma DEF Holds
      <4> QED BY <4>2
    <3>3. PICK r : Rebuilt = Reversed(r, 0)
      <4>1. Rebuilds(bcs, bcs_pos, cur, h)
        BY <2>1, <3>1, RebuiltLemma DEF IInv
      <4> QED BY <2>1, <3>2, <4>1, RebuiltHere DEF Rebuilds
    <3>4. DOMAIN Rebuilt = 1 .. 1
      BY <3>3 DEF Reversed
    <3>5. Len(Rebuilt) = 1
      BY <2>1, <3>4
    <3> QED BY <3>5 DEF Abstract!Pop
  <2> QED BY <1>1, <1>3, <2>2, <2>3, <2>4 DEF Abstract!Rewind
<1>4. ASSUME NEW cur \in ss_prev, mach' = cur, smp.data # {},
             bcs' = [bcs EXCEPT ![b].data = {}], bcs_pos' = b,
             ss_prev' = {XOR(Decompress(smp), cur)}
      PROVE  MInv' /\ Abstract!Rewind
  <2>1. /\ ss_prev = {cur} /\ IInv /\ Rebuilt \in Seq(States) /\ cur \in Bits
        /\ bcs_pos \in Slots /\ b \in Slots
    BY <1>4, BackwardLemma DEF MInv, IInv
  <2>2. Rebuilt # <<>> /\ Abstract!Top(Rebuilt) = cur /\ cur \in States
    BY <2>1, TopLemma
  <2>3. bcs'[b].data = {} /\ \A i \in Slots : i # b => bcs'[i] = bcs[i]
    <3>1. bcs' = [i \in Slots |-> IF i = b THEN [bcs[i] EXCEPT !.data = {}] ELSE bcs[i]]
      BY <1>4, <2>1 DEF IInv
    <3>2. bcs'[b] = [smp EXCEPT !.data = {}]
      BY <2>1, <3>1
    <3>3. smp = [data |-> smp.data, uncompressed_len |-> smp.uncompressed_len]
      BY <2>1 DEF IInv
    <3> HIDE DEF smp
    <3>4. bcs'[b].data = {}
      BY <3>2, <3>3
    <3> QED BY <3>1, <3>4
  <2>4. PICK h : Holds(bcs, bcs_pos, h)
    BY <2>1, RebuiltHolds
  <2>5. Rebuilt = RebuiltOf(bcs, bcs_pos, {cur})
    BY <2>1, RebuiltHere
  <2>6. Rebuilt' = RebuiltOf(bcs', b, {XOR(Decompress(smp), cur)})
    BY <1>4, RebuiltHere
  <2>7. Len(Rebuilt) > 1 /\ Rebuilt' = SubSeq(Rebuilt, 1, Len(Rebuilt) - 1)
    BY <1>4, <2>1, <2>3, <2>4, <2>5, <2>6, PoppedLemma
  <2>8. Rebuilt' = Abstract!Pop(Rebuilt)
    BY <2>7 DEF Abstract!Pop
  <2>9. Rebuilt' \in Seq(States)
    BY <2>1, <2>7
  <2>10. XOR(Decompress(smp), cur) \in Bits
    <3>1. IsPacket(smp)
      BY <2>1 DEF MInv
    <3>2. PICK d \in Bits : smp.data = {d} /\ Len(d) = smp.uncompressed_len
      BY <1>4, <3>1 DEF IsPacket
    <3>3. Decompress(smp) = d
      BY <3>2, DecompressLemma
    <3> QED BY <2>1, <3>3, XORLemma
  <2>11. \A i \in Slots : IsPacket(bcs'[i])
    BY <2>3 DEF MInv, IsPacket
  <2>12. MInv'
    BY <1>4, <2>2, <2>9, <2>10, <2>11 DEF MInv
  <2> QED BY <1>1, <1>4, <2>2, <2>8, <2>12 DEF Abstract!Rewind
<1> QED BY <1>1, <1>2, <1>3, <1>4 DEF DoRewind, Abstract!StackNext

LEMMA StepMapped ==
  ASSUME MInv, [Next]_vars
  PROVE  MInv' /\ [Abstract!StackNext]_(Abstract!stackvars)
<1>1. IInv'
  BY Step DEF MInv
<1>2. ASSUME NEW enable \in BOOLEAN, MDFNI_EnableStateRewind(enable)
      PROVE  MInv' /\ [Abstract!StackNext]_(Abstract!stackvars)
  <2>1. mach' = mach /\ mach \in States
    BY <1>2 DEF MDFNI_EnableStateRewind, MInv
  <2>2. CASE enable
    <3>1. /\ MInv' /\ Rebuilt' = Rebuilt
          /\ Active' = Active \/ (Active' = TRUE /\ ~ Active)
      BY <1>1, <1>2, <2>1, <2>2, BeginMapped DEF MDFNI_EnableStateRewind
    <3>2. Active' = TRUE /\ ~ Active => Abstract!Start
      BY <2>1, <3>1 DEF Abstract!Start, MInv, IInv
    <3> QED BY <2>1, <3>1, <3>2 DEF Abstract!StackNext, Abstract!stackvars
  <2>3. CASE ~ enable
    BY <1>1, <1>2, <2>1, <2>3, EndMapped DEF MDFNI_EnableStateRewind
  <2> QED BY <2>2, <2>3
<1>3. CASE LoadGame
  <2>1. /\ MInv' /\ Rebuilt' = Rebuilt /\ mach' \in States
        /\ Active' = Active \/ (Active' = TRUE /\ ~ Active)
    BY <1>1, <1>3, BeginMapped DEF LoadGame
  <2>2. CASE Active' = Active
    <3>1. Abstract!Run
      BY <2>1, <2>2 DEF Abstract!Run
    <3> QED BY <2>1, <3>1 DEF Abstract!StackNext
  <2>3. CASE Active' = TRUE /\ ~ Active
    <3>1. Abstract!Start
      BY <2>1, <2>3 DEF Abstract!Start, MInv, IInv
    <3> QED BY <2>1, <3>1 DEF Abstract!StackNext
  <2> QED BY <2>1, <2>2, <2>3
<1>4. CASE CloseGame
  BY <1>1, <1>4, EndMapped DEF CloseGame, MInv
<1>5. CASE FrameFails
  <2>1. mach' \in States
    <3>1. CASE mach' = mach
      BY <3>1 DEF MInv
    <3>2. CASE mach' \in ss_prev
      <4>1. ss_prev = {mach'} /\ IInv /\ Rebuilt \in Seq(States)
        BY <3>2 DEF MInv
      <4> QED BY <4>1, TopLemma
    <3> QED BY <1>5, <3>1, <3>2 DEF FrameFails
  <2> QED BY <1>1, <1>5, <2>1, EndMapped DEF FrameFails
<1>6. CASE DoRewind
  BY <1>1, <1>6, RewindMapped
<1>7. CASE DoRecord
  BY <1>1, <1>7, RecordMapped DEF Abstract!StackNext
<1>8. CASE Emulate
  <2>1. MInv' /\ Rebuilt' = Rebuilt /\ mach' \in States /\ Active' = Active
    BY <1>1, <1>8, KeptMapped DEF Emulate
  <2>2. Abstract!Run
    BY <2>1 DEF Abstract!Run
  <2> QED BY <2>1, <2>2 DEF Abstract!StackNext
<1>9. CASE UNCHANGED vars
  <2>1. UNCHANGED <<Active, bcs, bcs_pos, ss_prev, mach>> /\ mach \in States
    BY <1>9 DEF vars, MInv
  <2>2. MInv' /\ Rebuilt' = Rebuilt
    BY <1>1, <2>1, KeptMapped
  <2> QED BY <2>1, <2>2 DEF Abstract!stackvars
<1> QED BY <1>2, <1>3, <1>4, <1>5, <1>6, <1>7, <1>8, <1>9 DEF Next

\* What the ring of compressed differences rebuilds is, after any mixture of recording,
\* rewinding, wrapping round, states that change their length, games loaded and
\* closed and failures, the bounded stack of whole states that was recorded.
THEOREM RingIsAStack == Spec => ImplementsStack
<1>1. Init => MInv /\ Abstract!StackInit
  BY StartMapped
<1>2. MInv /\ [Next]_vars => MInv' /\ [Abstract!StackNext]_(Abstract!stackvars)
  BY StepMapped
<1> QED BY <1>1, <1>2, PTL DEF Spec, ImplementsStack, Abstract!StackSpec
=============================================================================
