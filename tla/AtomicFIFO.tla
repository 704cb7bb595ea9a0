----------------------------- MODULE AtomicFIFO -----------------------------
(***************************************************************************)
(* AtomicFIFO.h: a ring of Size slots between one thread that writes and   *)
(* one that reads, with a counter that both change atomically.  Nothing in *)
(* it stops a write into a full ring; its users ask CanWrite first, or not.*)
(***************************************************************************)
EXTENDS Integers

CONSTANT Size

ASSUME SizeAssumption == Size \in Nat \ {0}

\* The slots hold v at first, which nobody reads.
NewFIFO(v) == [data |-> [i \in 0 .. (Size - 1) |-> v], read_pos |-> 0, write_pos |-> 0, in_count |-> 0]

CanRead(f) == f.in_count

\* An unsigned difference: after one write too many it is not zero either.
CanWrite(f) == f.in_count # Size

Peek(f, offs) == f.data[(f.read_pos + offs) % Size]

AdvanceRead(f, count) ==
  [f EXCEPT !.read_pos = (@ + count) % Size, !.in_count = @ - count]

\* Write, in the two steps that the other thread may tell apart.
Store(f, v) == [f EXCEPT !.data[f.write_pos] = v, !.write_pos = (@ + 1) % Size]
Publish(f) == [f EXCEPT !.in_count = @ + 1]
=============================================================================
