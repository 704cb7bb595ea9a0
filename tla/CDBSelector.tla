----------------------------- MODULE CDBSelector -----------------------------
(***************************************************************************)
(* The sector buffers of the Saturn's CD block and its selector, the first *)
(* half of ss/cdb.cpp: buffers in doubly linked lists, one list of free    *)
(* buffers and one per partition, and the filters that send a sector to a  *)
(* partition.  The operators take the lists and return them changed; the   *)
(* commands that use them are in CDBlock.                                  *)
(***************************************************************************)
EXTENDS Integers, Sequences, FiniteSets, SequencesExt

CONSTANTS NumBuffers,   \* 0xC8
          NumFilters,   \* 0x18, filters and partitions alike
          LeadOut       \* frame address behind the last sector

ASSUME SelectorAssumption == /\ NumBuffers \in Nat \ {0} /\ NumFilters \in Nat \ {0}
                             /\ LeadOut \in Nat \ {0}

Bufs == 0 .. (NumBuffers - 1)
Filters == 0 .. (NumFilters - 1)
None == -1                          \* 0xFF

\* Sectors go by their frame address; 0 is one the program writes itself.
Fads == 1 .. LeadOut
Written == 0
Sectors == Fads \cup {Written}

VARIABLES pool,        \* Buffers, FirstFreeBuf, FreeBufferCount and Partitions
          CDDevConn,   \* the filter the drive feeds
          TrueConn,    \* where a filter sends a sector that passes: a partition
          FalseConn,   \* ... and one that does not: a filter
          cond         \* what passes: MODE_SEL_FADR, and the range it selects

selVars == <<pool, CDDevConn, TrueConn, FalseConn, cond>>

-----------------------------------------------------------------------------
\* f with v at i, or f where i is no buffer.
SetLink(f, i, v) == [b \in DOMAIN f |-> IF b = i THEN v ELSE f[b]]

ResetBuffers(B) ==
  [B EXCEPT !.Prev = [b \in Bufs |-> b - 1],
            !.Next = [b \in Bufs |-> IF b = NumBuffers - 1 THEN None ELSE b + 1],
            !.FirstFreeBuf = 0, !.FreeBufferCount = NumBuffers,
            !.FirstBuf = [p \in Filters |-> None], !.LastBuf = [p \in Filters |-> None],
            !.Count = [p \in Filters |-> 0]]

\* Take b out of the list it is in.
Excise(B, b) ==
  [B EXCEPT !.Next = SetLink(SetLink(@, B.Prev[b], B.Next[b]), b, None),
            !.Prev = SetLink(SetLink(@, B.Next[b], B.Prev[b]), b, None)]

Buffer_Allocate(B) ==
  LET b == B.FirstFreeBuf
  IN  [Excise(B, b) EXCEPT !.FirstFreeBuf = IF B.Prev[b] = None THEN B.Next[b] ELSE @,
                           !.FreeBufferCount = @ - 1]

\* Mutant: the buffer that was first does not learn of the new one before it.
Buffer_FreeOneWay(B, b) ==
  [B EXCEPT !.Next[b] = B.FirstFreeBuf, !.Prev[b] = None,
            !.FirstFreeBuf = b, !.FreeBufferCount = @ + 1]

Buffer_Free(B, b) ==
  [B EXCEPT !.Prev = SetLink(SetLink(@, b, None), B.FirstFreeBuf, b),
            !.Next[b] = B.FirstFreeBuf,
            !.FirstFreeBuf = b, !.FreeBufferCount = @ + 1]

Partition_LinkBuffer(B, p, b) ==
  [B EXCEPT !.Next = SetLink(SetLink(@, b, None), B.LastBuf[p], b),
            !.Prev[b] = B.LastBuf[p],
            !.FirstBuf[p] = IF @ = None THEN b ELSE @,
            !.LastBuf[p] = b, !.Count[p] = @ + 1]

\* Mutant: the end of the partition stays where it was.
Partition_UnlinkBufferStale(B, p, b) ==
  [Excise(B, b) EXCEPT !.FirstBuf[p] = IF B.Prev[b] = None THEN B.Next[b] ELSE @,
                       !.Count[p] = @ - 1]

Partition_UnlinkBuffer(B, p, b) ==
  [Excise(B, b) EXCEPT !.FirstBuf[p] = IF B.Prev[b] = None THEN B.Next[b] ELSE @,
                       !.LastBuf[p] = IF B.Next[b] = None THEN B.Prev[b] ELSE @,
                       !.Count[p] = @ - 1]

\* The buffers from b on, n of them.
From(B, b, n) ==
  LET at[i \in 1 .. n] == IF i = 1 THEN b ELSE B.Next[at[i - 1]]
  IN  at

\* The buffers of a partition, and the buffer rbi places from its first.
InPartition(B, p) == From(B, B.FirstBuf[p], B.Count[p])
Partition_GetBuffer(B, p, rbi) == InPartition(B, p)[rbi + 1]

UnlinkAndFree(B, p, b) == Buffer_Free(Partition_UnlinkBuffer(B, p, b), b)

Partition_Clear(B, p) ==
  FoldLeft(LAMBDA C, b : UnlinkAndFree(C, p, b), B, InPartition(B, p))

ClearAll(B) == FoldLeft(Partition_Clear, B, [i \in 1 .. NumFilters |-> i - 1])

-----------------------------------------------------------------------------
(* Filters *)

TestFilterCond(f, s) == cond[f].fadr => s \in cond[f].range

\* The filter a sector comes to rest in, NumFilters of them tried at most; false
\* is where the filters send what they do not pass.
Settles(false, f, s) ==
  FoldLeft(LAMBDA cur, i : IF cur = None \/ TestFilterCond(cur, s) THEN cur ELSE false[cur],
           f, [i \in 1 .. (NumFilters - 1) |-> i])

\* The partition that sector s gets into from filter f, if any.
Destination(false, f, s) ==
  LET g == Settles(false, f, s)
  IN  IF g # None /\ TestFilterCond(g, s) THEN TrueConn[g] ELSE None

FilterBuf(B, false, f, b) ==
  LET p == Destination(false, f, B.Data[b])
  IN  IF p # None THEN Partition_LinkBuffer(B, p, b) ELSE Buffer_Free(B, b)

\* Mutant: another filter's output stays connected to the same input.
SetCDDeviceConnOnly(fnum) ==
  /\ CDDevConn' = fnum
  /\ UNCHANGED FalseConn

\* Connections made: what becomes of CDDevConn and of FalseConn.
SetCDDeviceConn(fnum) ==
  /\ CDDevConn' = fnum
  /\ FalseConn' = [f \in Filters |-> IF FalseConn[f] = fnum THEN None ELSE FalseConn[f]]

\* No output is connected to the input of fnum any more.
InputFreed(fnum) ==
  [dev |-> IF fnum # None /\ CDDevConn = fnum THEN None ELSE CDDevConn,
   false |-> [f \in Filters |-> IF FalseConn[f] = fnum THEN None ELSE FalseConn[f]]]

Filter_DisconnectInput(fnum) ==
  /\ CDDevConn' = InputFreed(fnum).dev
  /\ FalseConn' = InputFreed(fnum).false

Filter_SetFalseConn(fnum, fconn) ==
  /\ CDDevConn' = InputFreed(fconn).dev
  /\ FalseConn' = [InputFreed(fconn).false EXCEPT ![fnum] = fconn]

\* Mutant: the drive stays connected to what it was.
ConnectOutputs(p) ==
  /\ FalseConn' = [FalseConn EXCEPT ![p] = None]
  /\ TrueConn' = [TrueConn EXCEPT ![p] = p]
  /\ UNCHANGED CDDevConn

\* Files and authentication connect the drive to filter p, p to partition p,
\* and p's other output to nothing.
ConnectDriveTo(p) ==
  /\ CDDevConn' = p
  /\ FalseConn' = [f \in Filters |-> IF f = p \/ FalseConn[f] = p THEN None ELSE FalseConn[f]]
  /\ TrueConn' = [TrueConn EXCEPT ![p] = p]

NoCond == [fadr |-> FALSE, range |-> {}]

-----------------------------------------------------------------------------
(* Correctness *)

\* The list that starts at b, followed for as long as there are buffers.
ListFrom(B, b) ==
  LET at[i \in 0 .. NumBuffers] == IF i = 0 THEN b
                                   ELSE IF at[i - 1] = None THEN None ELSE B.Next[at[i - 1]]
      n == Cardinality({i \in 0 .. NumBuffers : at[i] # None})
  IN  [i \in 1 .. n |-> at[i - 1]]

\* A list of n buffers that starts at first is linked both ways.
WellLinked(B, first, n) ==
  LET l == ListFrom(B, first)
  IN  /\ Len(l) = n
      /\ \A i \in 1 .. n : B.Prev[l[i]] = IF i = 1 THEN None ELSE l[i - 1]
=============================================================================
