----------------------------- MODULE SectorStore -----------------------------
(***************************************************************************)
(* What the CD block's buffers promise a program: partitions that are      *)
(* queues of sectors, and a number of buffers that are free.  CDBlock      *)
(* implements this with linked lists that share one array.                 *)
(***************************************************************************)
EXTENDS Integers, Sequences, SequencesExt

CONSTANTS NumBuffers, Partitions, Sectors

VARIABLES partition,    \* the sectors of each partition, oldest first
          taken,        \* sectors a transfer has taken out of a partition
          free          \* buffers that hold nothing

storeVars == <<partition, taken, free>>

\* A sequence without the n members behind the first i; and these n.
Without(s, i, n) == SubSeq(s, 1, i) \o SubSeq(s, i + n + 1, Len(s))
Part(s, i, n) == SubSeq(s, i + 1, i + n)

\* The new sectors go, each in its turn, to the end of a partition or nowhere.
Sent(new, where, p) ==
  LET mine == SelectSeq([k \in DOMAIN new |-> k], LAMBDA k : where[k] = p)
  IN  [i \in DOMAIN mine |-> new[mine[i]]]

Into(before, after, new) ==
  \E where \in [DOMAIN new -> Partitions \cup {-1}] :
    after = [p \in Partitions |-> before[p] \o Sent(new, where, p)]

Used(parts, t) == Len(t) + FoldLeft(LAMBDA n, p : n + Len(parts[p]), 0, SetToSeq(Partitions))

\* Whatever happens, a buffer is free or holds a sector.
Counted == free' = NumBuffers - Used(partition', taken')

\* A sector from the disc goes to the end of a partition, or is passed by.
Arrive == /\ free > 0
          /\ \E s \in Sectors : Into(partition, partition', <<s>>)
          /\ UNCHANGED taken

\* Sectors that follow one another leave a partition, for good or for a transfer.
Leave == \E p \in Partitions : \E i \in 0 .. Len(partition[p]), n \in 1 .. Len(partition[p]) :
           /\ i + n <= Len(partition[p])
           /\ partition' = [partition EXCEPT ![p] = Without(@, i, n)]
           /\ \/ UNCHANGED taken
              \/ taken = <<>> /\ taken' = Part(partition[p], i, n)

Release == taken # <<>> /\ taken' = <<>> /\ UNCHANGED partition

\* They go from a partition through the filters to the end of others.
Move == \E p \in Partitions : \E i \in 0 .. Len(partition[p]), n \in 1 .. Len(partition[p]) :
          /\ i + n <= Len(partition[p])
          /\ Into([partition EXCEPT ![p] = Without(@, i, n)], partition', Part(partition[p], i, n))
          /\ UNCHANGED taken

Copy == \E p \in Partitions : \E i \in 0 .. Len(partition[p]), n \in 1 .. Len(partition[p]) :
          /\ i + n <= Len(partition[p]) /\ n <= free
          /\ Into(partition, partition', Part(partition[p], i, n))
          /\ UNCHANGED taken

\* Buffers are given to the program, which writes them, and then filtered.
Lend == \E n \in 1 .. free : \E s \in Sectors :
          taken = <<>> /\ taken' = [i \in 1 .. n |-> s] /\ UNCHANGED partition

Write == \E i \in DOMAIN taken, s \in Sectors :
           taken' = [taken EXCEPT ![i] = s] /\ UNCHANGED partition

Commit == taken # <<>> /\ taken' = <<>> /\ Into(partition, partition', taken)

Reset == partition' = [p \in Partitions |-> <<>>] /\ taken' \in {taken, <<>>}

\* There are no buffers before the first reset.
StoreInit == partition = [p \in Partitions |-> <<>>] /\ taken = <<>> /\ free = 0

StoreNext == (Arrive \/ Leave \/ Release \/ Move \/ Copy \/ Lend \/ Write \/ Commit \/ Reset) /\ Counted

StoreSpec == StoreInit /\ [][StoreNext]_storeVars
=============================================================================
