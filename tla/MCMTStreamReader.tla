--------------------------- MODULE MCMTStreamReader ---------------------------
(* A short loop, a stream that ends, a long one with a loop at its end, and  *)
(* an empty one.                                                             *)
EXTENDS MTStreamReader

S(n, l) == [size |-> n, loop_pos |-> l]
MCStreams == <<S(3, 1), S(5, 5), S(11, 7), S(0, 0)>>
=============================================================================
