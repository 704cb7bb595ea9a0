--------------------------- MODULE Frontend_proofs ---------------------------
(***************************************************************************)
(* Proofs about the two parts of the front end that talk to somebody else: *)
(* Netplay, for any players, ports and bounds, and below it Driver, for a  *)
(* FIFO of any size and any number of events.  The two specifications      *)
(* share neither variables nor definitions.                                *)
(***************************************************************************)
EXTENDS Netplay, Driver, FiniteSetTheorems, WellFoundedInduction, TLAPS


(* Induction over the natural numbers, from the least element of a set: the *)
(* set of the numbers for which something holds is all of Nat.              *)

LEMMA NatLeast ==
  ASSUME NEW T, T \subseteq Nat, T # {}
  PROVE  \E n \in T : \A m \in T : n <= m
<1> DEFINE R == OpToRel(<, Nat)
<1>1. R = {ss \in Nat \X Nat : ss[1] < ss[2]}
  BY DEF OpToRel
<1>2. IsWellFoundedOn(R, Nat)
  BY NatLessThanWellFounded
<1> HIDE DEF R
<1>3. PICK n \in T : \A m \in T : ~ (<<m, n>> \in R)
  BY <1>2, WFMin
<1>4. ASSUME NEW m \in T, m < n PROVE <<m, n>> \in R
  <2> DEFINE p == <<m, n>>
  <2>1. p \in Nat \X Nat /\ p[1] = m /\ p[2] = n
    OBVIOUS
  <2> HIDE DEF p
  <2>2. p \in R
    BY <2>1, <1>1, <1>4
  <2> QED BY <2>2 DEF p
<1>5. ASSUME NEW m \in T PROVE n <= m
  <2>1. ~ (m < n)
    BY <1>3, <1>4
  <2> QED BY <2>1
<1> QED BY <1>5

LEMMA NatAll ==
  ASSUME NEW T, T \subseteq Nat, 0 \in T, \A n \in T : n + 1 \in T
  PROVE  T = Nat
<1>1. SUFFICES ASSUME Nat \ T # {} PROVE FALSE
  OBVIOUS
<1>2. PICK n \in Nat \ T : \A m \in Nat \ T : n <= m
  BY <1>1, NatLeast
<1>3. n - 1 \in Nat \ T
  BY <1>2
<1> QED BY <1>2, <1>3

-----------------------------------------------------------------------------
(* Sequences *)

IsSeq(s) == s \in Seq({s[i] : i \in DOMAIN s})

\* Whatever has the numbers up to n for its domain is a sequence of length n.
LEMMA SeqFromDomain ==
  ASSUME NEW n \in Nat, NEW s, s = [i \in 1 .. n |-> s[i]]
  PROVE  IsSeq(s) /\ Len(s) = n
<1>1. s \in [1 .. n -> {s[i] : i \in DOMAIN s}]
  OBVIOUS
<1> QED BY <1>1 DEF IsSeq

LEMMA SeqShape ==
  ASSUME NEW s, IsSeq(s)
  PROVE  Len(s) \in Nat /\ DOMAIN s = 1 .. Len(s) /\ s = [i \in 1 .. Len(s) |-> s[i]]
BY DEF IsSeq

LEMMA SeqAppend ==
  ASSUME NEW s, IsSeq(s), NEW x
  PROVE  /\ IsSeq(Append(s, x)) /\ Len(Append(s, x)) = Len(s) + 1
         /\ \A i \in 1 .. (Len(s) + 1) :
              Append(s, x)[i] = IF i = Len(s) + 1 THEN x ELSE s[i]
<1> DEFINE S == {s[i] : i \in DOMAIN s} \cup {x}
           t == Append(s, x)
<1>1. s \in Seq(S) /\ x \in S
  BY SeqShape DEF IsSeq
<1> HIDE DEF S
<1>2. /\ t \in Seq(S) /\ Len(t) = Len(s) + 1 /\ Len(s) \in Nat
      /\ \A i \in 1 .. (Len(s) + 1) : t[i] = IF i = Len(s) + 1 THEN x ELSE s[i]
  BY <1>1
<1> HIDE DEF t
<1>3. t = [i \in 1 .. Len(t) |-> t[i]] /\ Len(t) \in Nat
  BY <1>2
<1>4. IsSeq(t)
  BY <1>3, SeqFromDomain
<1> QED BY <1>2, <1>4 DEF t

LEMMA SeqTail ==
  ASSUME NEW s, IsSeq(s), s # <<>>
  PROVE  /\ IsSeq(Tail(s)) /\ Len(Tail(s)) = Len(s) - 1
         /\ \A i \in 1 .. (Len(s) - 1) : Tail(s)[i] = s[i + 1]
<1> DEFINE S == {s[i] : i \in DOMAIN s}
           t == Tail(s)
<1>1. s \in Seq(S)
  BY DEF IsSeq
<1> HIDE DEF S
<1>2. /\ t \in Seq(S) /\ Len(t) = Len(s) - 1 /\ Len(s) \in Nat
      /\ \A i \in 1 .. (Len(s) - 1) : t[i] = s[i + 1]
  BY <1>1
<1> HIDE DEF t
<1>3. t = [i \in 1 .. Len(t) |-> t[i]] /\ Len(t) \in Nat
  BY <1>2
<1>4. IsSeq(t)
  BY <1>3, SeqFromDomain
<1> QED BY <1>2, <1>4 DEF t

LEMMA SeqFront ==
  ASSUME NEW s, IsSeq(s), NEW n \in 0 .. Len(s)
  PROVE  /\ IsSeq(SubSeq(s, 1, n)) /\ Len(SubSeq(s, 1, n)) = n
         /\ \A i \in 1 .. n : SubSeq(s, 1, n)[i] = s[i]
<1> DEFINE S == {s[i] : i \in DOMAIN s}
           t == SubSeq(s, 1, n)
<1>1. s \in Seq(S)
  BY DEF IsSeq
<1> HIDE DEF S
<1>2. /\ t \in Seq(S) /\ Len(t) = n /\ Len(s) \in Nat
      /\ \A i \in 1 .. n : t[i] = s[i]
  BY <1>1
<1> HIDE DEF t
<1>3. t = [i \in 1 .. Len(t) |-> t[i]] /\ Len(t) \in Nat
  BY <1>2
<1>4. IsSeq(t)
  BY <1>3, SeqFromDomain
<1> QED BY <1>2, <1>4 DEF t

-----------------------------------------------------------------------------
(* The folds over messages that the properties are about, and the values they *)
(* go through.                                                                *)

\* The controllers by which what follows a message is laid out.
Acked(dealt, msg) == IF msg.cmd = "CTRL_CHANGE_ACK" THEN msg.arg ELSE dealt

Does(how, x, msg) == CASE how = "held" -> Acked(x, msg)
                       [] how = "fed" -> Fed(x, msg)
                       [] how = "listed" -> Listed(x, msg)
                       [] how = "named" -> Named(x, msg)
                       [] how = "seated" -> Seated(x, msg)

Fold(how, base, s) == FoldLeft(LAMBDA x, msg : Does(how, x, msg), base, s)

\* Some positions, and the last of them.
LEMMA MaxLemma ==
  ASSUME NEW n \in Nat, NEW t \in SUBSET (1 .. n), t # {}
  PROVE  Max(t) \in t /\ \A y \in t : Max(t) >= y
<1> DEFINE T == {n - i : i \in t}
<1>1. T \subseteq Nat /\ T # {}
  <2>1. \A i \in t : i \in 1 .. n /\ n - i \in Nat
    OBVIOUS
  <2>2. PICK i \in t : TRUE
    OBVIOUS
  <2>3. n - i \in T
    BY <2>2
  <2> QED BY <2>1, <2>3
<1>2. PICK d \in T : \A m \in T : d <= m
  BY <1>1, NatLeast
<1>3. PICK x \in t : d = n - x
  BY <1>2
<1>4. \A y \in t : x >= y
  <2>1. SUFFICES ASSUME NEW y \in t PROVE x >= y
    OBVIOUS
  <2>2. \E i \in t : n - y = n - i
    BY <2>1
  <2>3. n - y \in T
    BY <2>2
  <2> QED BY <2>3, <1>2, <1>3
<1> QED BY <1>3, <1>4 DEF Max

\* What FoldLeft is defined by: a function on the sets of positions.
IsIter(how, base, s, g, S) ==
  g = [t \in SUBSET S |-> IF t = {} THEN base ELSE Does(how, g[t \ {Max(t)}], s[Max(t)])]

\* There is such a function, for as many positions as there may be.
LEMMA IterExists ==
  ASSUME NEW how, NEW base, NEW n \in Nat, NEW s
  PROVE  \E g : IsIter(how, base, s, g, 1 .. n)
<1> DEFINE T == {k \in Nat : \E g : IsIter(how, base, s, g, 1 .. k)}
<1>1. 0 \in T
  <2> DEFINE g == [t \in SUBSET (1 .. 0) |-> base]
  <2>1. \A t \in SUBSET (1 .. 0) : t = {}
    OBVIOUS
  <2>2. IsIter(how, base, s, g, 1 .. 0)
    BY <2>1 DEF IsIter
  <2> QED BY <2>2
<1>2. ASSUME NEW k \in T PROVE k + 1 \in T
  <2>1. PICK g : IsIter(how, base, s, g, 1 .. k)
    OBVIOUS
  <2> DEFINE h == [t \in SUBSET (1 .. (k + 1)) |->
                    IF t = {} THEN base ELSE Does(how, g[t \ {Max(t)}], s[Max(t)])]
  <2>2. \A t \in SUBSET (1 .. k) : h[t] = g[t]
    <3>1. SUFFICES ASSUME NEW t \in SUBSET (1 .. k) PROVE h[t] = g[t]
      OBVIOUS
    <3>2. t \in SUBSET (1 .. (k + 1))
      OBVIOUS
    <3>3. h[t] = IF t = {} THEN base ELSE Does(how, g[t \ {Max(t)}], s[Max(t)])
      BY <3>2
    <3>4. g[t] = IF t = {} THEN base ELSE Does(how, g[t \ {Max(t)}], s[Max(t)])
      BY <2>1 DEF IsIter
    <3> QED BY <3>3, <3>4
  <2>3. \A t \in SUBSET (1 .. (k + 1)) : t # {} => h[t \ {Max(t)}] = g[t \ {Max(t)}]
    <3>1. SUFFICES ASSUME NEW t \in SUBSET (1 .. (k + 1)), t # {}
                   PROVE  t \ {Max(t)} \in SUBSET (1 .. k)
      BY <2>2
    <3>2. k + 1 \in Nat /\ k \in Nat
      OBVIOUS
    <3>3. Max(t) \in t /\ \A y \in t : Max(t) >= y
      BY <3>1, <3>2, MaxLemma
    <3>4. ASSUME NEW y \in t, y # Max(t) PROVE y \in 1 .. k
      <4>1. y \in 1 .. (k + 1) /\ Max(t) \in 1 .. (k + 1) /\ Max(t) >= y
        BY <3>1, <3>3
      <4> QED BY <4>1, <3>2, <3>4
    <3> QED BY <3>4
  <2>4. h = [t \in SUBSET (1 .. (k + 1)) |->
              IF t = {} THEN base ELSE Does(how, h[t \ {Max(t)}], s[Max(t)])]
    <3> DEFINE h2 == [t \in SUBSET (1 .. (k + 1)) |->
              IF t = {} THEN base ELSE Does(how, h[t \ {Max(t)}], s[Max(t)])]
    <3>1. ASSUME NEW t \in SUBSET (1 .. (k + 1)) PROVE h[t] = h2[t]
      <4>1. CASE t = {}
        BY <4>1
      <4>2. CASE t # {}
        <5>1. h[t] = Does(how, g[t \ {Max(t)}], s[Max(t)])
          BY <4>2
        <5>2. h2[t] = Does(how, h[t \ {Max(t)}], s[Max(t)])
          BY <4>2
        <5>3. h[t \ {Max(t)}] = g[t \ {Max(t)}]
          BY <2>3, <4>2
        <5> HIDE DEF h, h2
        <5> QED BY <5>1, <5>2, <5>3
      <4> QED BY <4>1, <4>2
    <3> QED BY <3>1
  <2>5. IsIter(how, base, s, h, 1 .. (k + 1))
    BY <2>4 DEF IsIter
  <2>6. k + 1 \in Nat
    OBVIOUS
  <2> HIDE DEF h
  <2> QED BY <2>5, <2>6
<1> HIDE DEF T
<1>3. T = Nat
  BY <1>1, <1>2, NatAll DEF T
<1> QED BY <1>3 DEF T

\* A fold over s goes from one value to the next.
Traced(how, base, s, n) ==
  \E r : /\ r[0] = base
         /\ \A k \in 1 .. n : r[k] = Does(how, r[k - 1], s[k])
         /\ Fold(how, base, s) = r[n]

LEMMA FoldTrace ==
  ASSUME NEW how, NEW base, NEW n, n \in Nat, NEW s, DOMAIN s = 1 .. n
  PROVE  Traced(how, base, s, n)
<1> DEFINE g == CHOOSE g : IsIter(how, base, s, g, 1 .. n)
<1>1. IsIter(how, base, s, g, 1 .. n)
  BY IterExists
<1>2. Fold(how, base, s) = g[1 .. n]
  BY DEF Fold, FoldLeft, MapThenFoldSet, IsIter
<1> HIDE DEF g
<1> DEFINE r == [k \in 0 .. n |-> g[1 .. k]]
<1>3. r[0] = base
  <2>1. 1 .. 0 = {} /\ {} \in SUBSET (1 .. n)
    OBVIOUS
  <2> QED BY <2>1, <1>1 DEF IsIter
<1>4. ASSUME NEW k \in 1 .. n PROVE r[k] = Does(how, r[k - 1], s[k])
  <2>0. k \in Nat /\ k >= 1 /\ k <= n
    OBVIOUS
  <2>1. /\ 1 .. k \in SUBSET (1 .. n)
        /\ k \in 1 .. k /\ k \in 0 .. n /\ k - 1 \in 0 .. n
    BY <2>0
  <2>2. Max(1 .. k) = k
    <3>1. Max(1 .. k) \in 1 .. k /\ \A y \in 1 .. k : Max(1 .. k) >= y
      BY <2>0, <2>1, MaxLemma
    <3> QED BY <3>1, <2>0, <2>1
  <2>3. (1 .. k) \ {k} = 1 .. (k - 1)
    BY <2>1
  <2>4. g[1 .. k] = Does(how, g[1 .. (k - 1)], s[k])
    BY <2>1, <2>2, <2>3, <1>1 DEF IsIter
  <2> QED BY <2>1, <2>4
<1>5. r[n] = g[1 .. n]
  OBVIOUS
<1> HIDE DEF r
<1> QED BY <1>2, <1>3, <1>4, <1>5 DEF Traced

\* The values a fold goes through are determined by where it begins.
Trace(how, base, s, n, q) ==
  /\ n \in Nat /\ DOMAIN s = 1 .. n
  /\ q[0] = base /\ \A k \in 1 .. n : q[k] = Does(how, q[k - 1], s[k])

LEMMA TraceFold ==
  ASSUME NEW how, NEW base, NEW n, NEW s, NEW q, Trace(how, base, s, n, q)
  PROVE  Fold(how, base, s) = q[n]
<1>0. /\ n \in Nat /\ DOMAIN s = 1 .. n
      /\ q[0] = base /\ \A k \in 1 .. n : q[k] = Does(how, q[k - 1], s[k])
  BY DEF Trace
<1>1. PICK r : /\ r[0] = base
               /\ \A k \in 1 .. n : r[k] = Does(how, r[k - 1], s[k])
               /\ Fold(how, base, s) = r[n]
  <2>1. Traced(how, base, s, n)
    BY <1>0, FoldTrace
  <2> QED BY <2>1 DEF Traced
<1> DEFINE T == {k \in Nat : k <= n => r[k] = q[k]}
<1>2. 0 \in T
  BY <1>0, <1>1
<1>3. ASSUME NEW k \in T PROVE k + 1 \in T
  <2>1. CASE k + 1 <= n
    <3>1. k + 1 \in 1 .. n /\ (k + 1) - 1 = k /\ k \in Nat /\ r[k] = q[k]
      BY <2>1, <1>0
    <3>2. r[k + 1] = Does(how, r[k], s[k + 1]) /\ q[k + 1] = Does(how, q[k], s[k + 1])
      BY <3>1, <1>0, <1>1
    <3> QED BY <3>1, <3>2
  <2>2. CASE ~ (k + 1 <= n)
    BY <2>2
  <2> QED BY <2>1, <2>2
<1>4. T \subseteq Nat
  OBVIOUS
<1> HIDE DEF T
<1>5. T = Nat
  BY <1>2, <1>3, <1>4, NatAll
<1>6. n \in T
  BY <1>0, <1>5
<1>7. r[n] = q[n]
  BY <1>6 DEF T
<1> QED BY <1>1, <1>7

LEMMA FoldNone ==
  ASSUME NEW how, NEW base
  PROVE  Fold(how, base, <<>>) = base
<1> DEFINE s == <<>>
           n == 0
           q == [k \in {0} |-> base]
<1>1. DOMAIN s = 1 .. n /\ n \in Nat
  OBVIOUS
<1>2. q[n] = base /\ Trace(how, base, s, n, q)
  BY <1>1 DEF Trace
<1> HIDE DEF q, s, n
<1>3. Fold(how, base, s) = q[n]
  BY ONLY <1>2, TraceFold
<1> QED BY <1>2, <1>3 DEF s

\* One message more is one step more.
LEMMA FoldAppend ==
  ASSUME NEW how, NEW base, NEW s, IsSeq(s), NEW msg
  PROVE  Fold(how, base, Append(s, msg)) = Does(how, Fold(how, base, s), msg)
<1> DEFINE n == Len(s)
           t == Append(s, msg)
<1>1. n \in Nat /\ DOMAIN s = 1 .. n
  BY SeqShape
<1>2. IsSeq(t) /\ Len(t) = n + 1 /\ \A i \in 1 .. (n + 1) : t[i] = IF i = n + 1 THEN msg ELSE s[i]
  BY SeqAppend
<1>3. DOMAIN t = 1 .. (n + 1)
  BY <1>2, SeqShape
<1> HIDE DEF n, t
<1>4. PICK r : /\ r[0] = base
               /\ \A k \in 1 .. (n + 1) : r[k] = Does(how, r[k - 1], t[k])
               /\ Fold(how, base, t) = r[n + 1]
  <2>1. n + 1 \in Nat
    BY <1>1
  <2>2. Traced(how, base, t, n + 1)
    BY ONLY <2>1, <1>3, FoldTrace
  <2> QED BY <2>2 DEF Traced
<1>5. \A k \in 1 .. n : r[k] = Does(how, r[k - 1], s[k])
  BY <1>1, <1>2, <1>4
<1>6. Fold(how, base, s) = r[n]
  <2>1. Trace(how, base, s, n, r)
    BY <1>1, <1>4, <1>5 DEF Trace
  <2> QED BY ONLY <2>1, TraceFold
<1>7. n + 1 \in 1 .. (n + 1) /\ (n + 1) - 1 = n
  BY <1>1
<1>8. r[n + 1] = Does(how, r[n], t[n + 1]) /\ t[n + 1] = msg
  BY <1>2, <1>4, <1>7
<1> QED BY <1>4, <1>6, <1>8 DEF t

\* The first message may be dealt with before the others.
LEMMA FoldTail ==
  ASSUME NEW how, NEW base, NEW s, IsSeq(s), s # <<>>
  PROVE  Fold(how, base, s) = Fold(how, Does(how, base, s[1]), Tail(s))
<1> DEFINE n == Len(s) - 1
           t == Tail(s)
<1>1. Len(s) \in Nat /\ DOMAIN s = 1 .. Len(s) /\ Len(s) # 0
  BY SeqShape, s # <<>> DEF IsSeq
<1>2. IsSeq(t) /\ Len(t) = n /\ \A i \in 1 .. n : t[i] = s[i + 1]
  BY SeqTail
<1>3. DOMAIN t = 1 .. n
  BY <1>2, SeqShape
<1>4. n \in Nat /\ DOMAIN s = 1 .. (n + 1) /\ n + 1 \in Nat
  BY <1>1
<1> HIDE DEF n, t
<1>5. PICK r : /\ r[0] = base
               /\ \A k \in 1 .. (n + 1) : r[k] = Does(how, r[k - 1], s[k])
               /\ Fold(how, base, s) = r[n + 1]
  <2>1. Traced(how, base, s, n + 1)
    BY ONLY <1>4, FoldTrace
  <2> QED BY <2>1 DEF Traced
<1> DEFINE q == [k \in 0 .. n |-> r[k + 1]]
<1>6. q[n] = r[n + 1]
  BY <1>4
<1>7. q[0] = Does(how, base, s[1])
  <2>1. 0 \in 0 .. n /\ 1 \in 1 .. (n + 1) /\ 1 - 1 = 0
    BY <1>4
  <2>2. q[0] = r[1] /\ r[1] = Does(how, r[0], s[1])
    BY <2>1, <1>5
  <2> QED BY <2>2, <1>5
<1>8. ASSUME NEW k \in 1 .. n PROVE q[k] = Does(how, q[k - 1], t[k])
  <2>1. k \in 0 .. n /\ k - 1 \in 0 .. n /\ k + 1 \in 1 .. (n + 1) /\ (k + 1) - 1 = k /\ (k - 1) + 1 = k
    BY <1>4
  <2>2. q[k] = r[k + 1] /\ q[k - 1] = r[k] /\ t[k] = s[k + 1]
    BY <2>1, <1>2
  <2>3. r[k + 1] = Does(how, r[k], s[k + 1])
    BY <2>1, <1>5
  <2> HIDE DEF q
  <2> QED BY <2>2, <2>3
<1> DEFINE b == Does(how, base, s[1])
<1>9. q[0] = b
  BY <1>7
<1> HIDE DEF q, b
<1>10. Fold(how, b, t) = q[n]
  <2>1. Trace(how, b, t, n, q)
    BY <1>3, <1>4, <1>8, <1>9 DEF Trace
  <2> QED BY ONLY <2>1, TraceFold
<1> QED BY <1>5, <1>6, <1>10 DEF t, b

\* What is handed on from message to message: after the first k, the value is in T[k].
Within(how, base, s, T) ==
  /\ base \in T[0]
  /\ \A k \in 1 .. Len(s) : \A x \in T[k - 1] : Does(how, x, s[k]) \in T[k]

LEMMA FoldWithin ==
  ASSUME NEW how, NEW base, NEW s, IsSeq(s), NEW T, Within(how, base, s, T)
  PROVE  Fold(how, base, s) \in T[Len(s)]
<1> DEFINE n == Len(s)
<1>1. n \in Nat /\ DOMAIN s = 1 .. n
  BY SeqShape
<1>2. base \in T[0] /\ \A k \in 1 .. n : \A x \in T[k - 1] : Does(how, x, s[k]) \in T[k]
  BY DEF Within
<1> HIDE DEF n
<1>3. PICK r : /\ r[0] = base
               /\ \A k \in 1 .. n : r[k] = Does(how, r[k - 1], s[k])
               /\ Fold(how, base, s) = r[n]
  <2>1. Traced(how, base, s, n)
    BY ONLY <1>1, FoldTrace
  <2> QED BY <2>1 DEF Traced
<1> DEFINE K == {k \in Nat : k <= n => r[k] \in T[k]}
<1>4. 0 \in K
  BY <1>2, <1>3
<1>5. ASSUME NEW k \in K PROVE k + 1 \in K
  <2>1. CASE k + 1 <= n
    <3>1. k + 1 \in 1 .. n /\ (k + 1) - 1 = k /\ k \in Nat /\ r[k] \in T[k]
      BY <2>1, <1>1
    <3>2. r[k + 1] = Does(how, r[k], s[k + 1])
      BY <3>1, <1>3
    <3>3. Does(how, r[k], s[k + 1]) \in T[k + 1]
      BY <3>1, <1>2
    <3> QED BY <3>1, <3>2, <3>3
  <2>2. CASE ~ (k + 1 <= n)
    BY <2>2
  <2> QED BY <2>1, <2>2
<1>6. K \subseteq Nat
  OBVIOUS
<1> HIDE DEF K
<1>7. K = Nat
  BY <1>4, <1>5, <1>6, NatAll
<1>8. n \in K
  BY <1>1, <1>7
<1>9. r[n] \in T[n]
  BY <1>8 DEF K
<1> QED BY <1>3, <1>9 DEF n

\* Messages that are of no concern.
Steady(how, s) == \A i \in DOMAIN s : \A x : Does(how, x, s[i]) = x

LEMMA FoldSteady ==
  ASSUME NEW how, NEW base, NEW s, IsSeq(s), Steady(how, s)
  PROVE  Fold(how, base, s) = base
<1> DEFINE T == [k \in 0 .. Len(s) |-> {base}]
<1>1. Len(s) \in Nat /\ DOMAIN s = 1 .. Len(s)
  BY SeqShape
<1>2. ASSUME NEW k \in 1 .. Len(s) PROVE T[k - 1] = {base} /\ T[k] = {base}
  BY <1>1
<1>3. T[0] = {base} /\ T[Len(s)] = {base}
  BY <1>1
<1> HIDE DEF T
<1>4. Within(how, base, s, T)
  BY <1>1, <1>2, <1>3 DEF Within, Steady
<1>5. Fold(how, base, s) \in T[Len(s)]
  BY ONLY <1>4, IsSeq(s), FoldWithin
<1> QED BY <1>3, <1>5

\* Only one of the messages tells, whatever was before.
LEMMA FoldForgets ==
  ASSUME NEW how, NEW b, NEW c, NEW s, IsSeq(s), NEW j \in DOMAIN s,
         \A x, y : Does(how, x, s[j]) = Does(how, y, s[j])
  PROVE  Fold(how, b, s) = Fold(how, c, s)
<1> DEFINE n == Len(s)
<1>1. n \in Nat /\ DOMAIN s = 1 .. n
  BY SeqShape
<1>2. PICK r : /\ r[0] = b
               /\ \A k \in 1 .. n : r[k] = Does(how, r[k - 1], s[k])
               /\ Fold(how, b, s) = r[n]
  <2>1. Traced(how, b, s, n)
    BY ONLY <1>1, FoldTrace
  <2> QED BY <2>1 DEF Traced
<1>3. PICK q : /\ q[0] = c
               /\ \A k \in 1 .. n : q[k] = Does(how, q[k - 1], s[k])
               /\ Fold(how, c, s) = q[n]
  <2>1. Traced(how, c, s, n)
    BY ONLY <1>1, FoldTrace
  <2> QED BY <2>1 DEF Traced
<1> DEFINE T == [k \in 0 .. n |-> IF k < j THEN {q[k]} ELSE {r[k]}]
<1>4. c \in T[0]
  BY <1>1, <1>3
<1>5. ASSUME NEW k \in 1 .. n, NEW x \in T[k - 1] PROVE Does(how, x, s[k]) \in T[k]
  <2>1. k \in 0 .. n /\ k - 1 \in 0 .. n /\ j \in 1 .. n /\ n \in Nat
    BY <1>1
  <2>2. T[k] = (IF k < j THEN {q[k]} ELSE {r[k]}) /\ x \in IF k - 1 < j THEN {q[k - 1]} ELSE {r[k - 1]}
    BY <2>1, <1>5
  <2>3. r[k] = Does(how, r[k - 1], s[k]) /\ q[k] = Does(how, q[k - 1], s[k])
    BY <1>2, <1>3
  <2> HIDE DEF T
  <2>4. CASE k < j
    BY <2>1, <2>2, <2>3, <2>4
  <2>5. CASE k = j
    BY <2>1, <2>2, <2>3, <2>5
  <2>6. CASE k > j
    BY <2>1, <2>2, <2>3, <2>6
  <2> QED BY <2>1, <2>4, <2>5, <2>6
<1>6. T[n] = {r[n]}
  BY <1>1
<1> HIDE DEF T
<1>7. Within(how, c, s, T)
  BY <1>4, <1>5 DEF Within
<1>8. Fold(how, c, s) \in T[Len(s)]
  BY ONLY <1>7, IsSeq(s), FoldWithin
<1> QED BY <1>2, <1>6, <1>8

LEMMA SeqConcat ==
  ASSUME NEW s, IsSeq(s), NEW t, IsSeq(t)
  PROVE  /\ IsSeq(s \o t) /\ Len(s \o t) = Len(s) + Len(t)
         /\ \A i \in 1 .. Len(s) : (s \o t)[i] = s[i]
         /\ \A i \in 1 .. Len(t) : (s \o t)[Len(s) + i] = t[i]
<1> DEFINE S == {s[i] : i \in DOMAIN s} \cup {t[i] : i \in DOMAIN t}
           u == s \o t
<1>1. s \in Seq(S) /\ t \in Seq(S)
  BY SeqShape DEF IsSeq
<1> HIDE DEF S
<1>2. /\ u \in Seq(S) /\ Len(u) = Len(s) + Len(t) /\ Len(s) \in Nat /\ Len(t) \in Nat
      /\ \A i \in 1 .. (Len(s) + Len(t)) : u[i] = IF i <= Len(s) THEN s[i] ELSE t[i - Len(s)]
  BY <1>1
<1> HIDE DEF u
<1>3. u = [i \in 1 .. Len(u) |-> u[i]] /\ Len(u) \in Nat
  BY <1>2
<1>4. IsSeq(u)
  BY <1>3, SeqFromDomain
<1>5. \A i \in 1 .. Len(s) : u[i] = s[i]
  BY <1>2
<1>6. ASSUME NEW i \in 1 .. Len(t) PROVE u[Len(s) + i] = t[i]
  <2>1. Len(s) + i \in 1 .. (Len(s) + Len(t)) /\ ~ (Len(s) + i <= Len(s)) /\ (Len(s) + i) - Len(s) = i
    BY <1>2
  <2> QED BY <1>2, <2>1
<1> QED BY <1>2, <1>4, <1>5, <1>6 DEF u

LEMMA FoldConcat ==
  ASSUME NEW how, NEW base, NEW s, IsSeq(s), NEW t, IsSeq(t)
  PROVE  Fold(how, base, s \o t) = Fold(how, Fold(how, base, s), t)
<1> DEFINE m == Len(s)
           n == Len(t)
           u == s \o t
<1>1. m \in Nat /\ DOMAIN s = 1 .. m /\ n \in Nat /\ DOMAIN t = 1 .. n
  BY SeqShape
<1>2. /\ IsSeq(u) /\ Len(u) = m + n
      /\ \A i \in 1 .. m : u[i] = s[i]
      /\ \A i \in 1 .. n : u[m + i] = t[i]
  BY SeqConcat
<1>3. DOMAIN u = 1 .. (m + n) /\ m + n \in Nat
  BY <1>1, <1>2, SeqShape
<1> HIDE DEF m, n, u
<1>4. PICK r : /\ r[0] = base
               /\ \A k \in 1 .. (m + n) : r[k] = Does(how, r[k - 1], u[k])
               /\ Fold(how, base, u) = r[m + n]
  <2>1. Traced(how, base, u, m + n)
    BY ONLY <1>3, FoldTrace
  <2> QED BY <2>1 DEF Traced
<1>5. Fold(how, base, s) = r[m]
  <2>1. \A k \in 1 .. m : k \in 1 .. (m + n) /\ u[k] = s[k]
    BY <1>1, <1>2
  <2>2. Trace(how, base, s, m, r)
    BY <1>1, <1>4, <2>1 DEF Trace
  <2> QED BY ONLY <2>2, TraceFold
<1> DEFINE q == [k \in 0 .. n |-> r[m + k]]
           b == Fold(how, base, s)
<1>6. q[0] = b /\ q[n] = r[m + n]
  BY <1>1, <1>5
<1>7. ASSUME NEW k \in 1 .. n PROVE q[k] = Does(how, q[k - 1], t[k])
  <2>1. /\ k \in 0 .. n /\ k - 1 \in 0 .. n /\ m + k \in 1 .. (m + n)
        /\ (m + k) - 1 = m + (k - 1)
    BY <1>1
  <2>2. q[k] = r[m + k] /\ q[k - 1] = r[m + (k - 1)]
    BY <2>1
  <2>3. r[m + k] = Does(how, r[m + (k - 1)], u[m + k])
    BY <2>1, <1>4
  <2> HIDE DEF q
  <2> QED BY <1>2, <2>2, <2>3
<1> HIDE DEF q, b
<1>8. Trace(how, b, t, n, q)
  BY <1>1, <1>6, <1>7 DEF Trace
<1>9. Fold(how, b, t) = q[n]
  BY ONLY <1>8, TraceFold
<1> QED BY <1>4, <1>6, <1>9 DEF u, b

\* The folds of the properties are of this kind.
LEMMA FoldsAre ==
  ASSUME NEW x, NEW s
  PROVE  /\ FoldLeft(Fed, x, s) = Fold("fed", x, s)
         /\ FoldLeft(Listed, x, s) = Fold("listed", x, s)
         /\ FoldLeft(Named, x, s) = Fold("named", x, s)
         /\ FoldLeft(Seated, x, s) = Fold("seated", x, s)
         /\ FoldLeft(LAMBDA dealt, msg : IF msg.cmd = "CTRL_CHANGE_ACK" THEN msg.arg ELSE dealt, x, s)
              = Fold("held", x, s)
<1>1. FoldLeft(Fed, x, s) = Fold("fed", x, s)
  BY DEF Fold, Does, FoldLeft, MapThenFoldSet
<1>2. FoldLeft(Listed, x, s) = Fold("listed", x, s)
  BY DEF Fold, Does, FoldLeft, MapThenFoldSet
<1>3. FoldLeft(Named, x, s) = Fold("named", x, s)
  BY DEF Fold, Does, FoldLeft, MapThenFoldSet
<1>4. FoldLeft(Seated, x, s) = Fold("seated", x, s)
  BY DEF Fold, Does, FoldLeft, MapThenFoldSet
<1>5. FoldLeft(LAMBDA dealt, msg : IF msg.cmd = "CTRL_CHANGE_ACK" THEN msg.arg ELSE dealt, x, s)
        = Fold("held", x, s)
  BY DEF Fold, Does, FoldLeft, MapThenFoldSet, Acked
<1> QED BY <1>1, <1>2, <1>3, <1>4, <1>5

-----------------------------------------------------------------------------
(* The invariant.  A client that is not in the game has sent LOGIN at most;  *)
(* one that is has nothing on the way before YOUJOINED, sends nothing until  *)
(* it has it, and has nothing on the way after QUIT or a closed connection.  *)
(* What it sends next is laid out by what the server will have been told by  *)
(* then, and what it was sent leads from what it knows to what the server    *)
(* does.                                                                     *)

Joins == [cmd |-> "LOGIN", arg |-> 0, lpm |-> {}]
Leaves == {"QUIT", "closed"}

Asks(msg) == /\ msg.cmd = "SWAP" => msg.arg \in Ports \X Ports
             /\ msg.cmd \in {"TAKE", "DROP", "DUPE"} => msg.arg \in Masks
             /\ msg.cmd = "SETNICK" => msg.arg \in Names

Linked(plays, conn, netp, recv, joined, list, u, d, ag) ==
  /\ IsSeq(u) /\ IsSeq(d)
  /\ plays \in BOOLEAN /\ conn \in BOOLEAN /\ netp \in BOOLEAN /\ recv \in BOOLEAN /\ joined \in BOOLEAN
  /\ (netp => conn) /\ (recv => netp) /\ (joined => netp)
  /\ ~ conn => d = <<>> /\ list = <<>>
  /\ ~ plays => /\ d = <<>> /\ list = <<>> /\ ~ joined
                /\ netp => recv /\ u = <<Joins>>
                /\ ~ netp => u = <<>> \/ (~ conn /\ u = <<Joins, Closed>>)
  /\ plays =>
       /\ \A i \in DOMAIN u : u[i].cmd # "LOGIN" /\ Asks(u[i])
       /\ conn => netp /\ \A i \in DOMAIN u : u[i].cmd \notin Leaves
       /\ ~ conn => u # <<>> /\ \A i \in DOMAIN u : u[i].cmd \in Leaves <=> i = Len(u)
       /\ conn /\ ~ joined => /\ recv /\ u = <<>>
                              /\ d # <<>> /\ d[1].cmd = "YOUJOINED" /\ d[1].arg = ag
       /\ \A i \in DOMAIN d : d[i].cmd = "YOUJOINED" => i = 1 /\ ~ joined

LaidOut(plays, joined, lpm, u, ag) ==
  plays => /\ \A i \in DOMAIN u :
                u[i] # Closed => u[i].lpm = Fold("held", ag, SubSeq(u, 1, i - 1))
           /\ joined => lpm = Fold("held", ag, u)

Knows(list, nick, lpm, d, players, n) ==
  /\ Fold("listed", list, d) = players
  /\ Fold("named", nick, d) = n
  /\ Fold("seated", lpm, d) = players[n]

LinkedAt(c) == Linked(c \in inGame, connected[c], MDFNnetplay[c], receiving[c], Joined[c],
                      PlayersList[c], up[c], down[c], agreed[c])
LaidOutAt(c) == LaidOut(c \in inGame, Joined[c], LocalPlayersMask[c], up[c], agreed[c])
KnowsAt(c) == c \in inGame /\ connected[c] =>
                Knows(PlayersList[c], OurNick[c], LocalPlayersMask[c], down[c], roster, nickOf[c])

IsMap(f) == DOMAIN f = Clients /\ f = [c \in Clients |-> f[c]]

Maps == /\ IsMap(connected) /\ IsMap(MDFNnetplay) /\ IsMap(receiving) /\ IsMap(Joined)
        /\ IsMap(LocalPlayersMask) /\ IsMap(OurNick) /\ IsMap(PlayersList) /\ IsMap(mach)
        /\ IsMap(up) /\ IsMap(down) /\ IsMap(agreed) /\ IsMap(strayed)
        /\ inGame \subseteq Clients

Served == /\ nickOf \in [inGame -> Names]
          /\ \A c, d \in inGame : nickOf[c] = nickOf[d] => c = d
          /\ roster \in [{nickOf[c] : c \in inGame} -> SUBSET Ports]

IInv == /\ Maps /\ Served
        /\ \A c \in Clients : LinkedAt(c) /\ LaidOutAt(c) /\ KnowsAt(c)

-----------------------------------------------------------------------------
(* One client: what sending, receiving and serving a message does to it.     *)

LEMMA EmptyIsSeq == \A s : s = <<>> => IsSeq(s) /\ DOMAIN s = {} /\ Len(s) = 0
<1>1. SUFFICES ASSUME NEW s, s = <<>> PROVE IsSeq(s) /\ DOMAIN s = {} /\ Len(s) = 0
  OBVIOUS
<1>2. DOMAIN s = {} /\ Len(s) = 0
  BY <1>1
<1>3. s \in Seq({})
  BY <1>1
<1>4. {s[i] : i \in DOMAIN s} = {}
  BY <1>2
<1>5. IsSeq(s)
  BY <1>3, <1>4 DEF IsSeq
<1> QED BY <1>2, <1>5

LEMMA HeldIs == \A x, msg : Does("held", x, msg) = Acked(x, msg)
BY DEF Does

\* A client in the game sends.
Sends(plays, conn, netp, recv, joined, list, u, d, ag, lpm, msg, r, v) ==
  /\ Linked(plays, conn, netp, recv, joined, list, u, d, ag) /\ LaidOut(plays, joined, lpm, u, ag)
  /\ plays /\ conn /\ joined /\ r \in BOOLEAN
  /\ msg.lpm = lpm /\ msg.cmd \notin Leaves \cup {"LOGIN"} /\ Asks(msg)
  /\ v = Append(u, msg)

LEMMA UpAppend ==
  ASSUME NEW plays, NEW conn, NEW netp, NEW recv, NEW joined, NEW list, NEW u, NEW d, NEW ag, NEW lpm,
         NEW msg, NEW r, NEW v, Sends(plays, conn, netp, recv, joined, list, u, d, ag, lpm, msg, r, v)
  PROVE  /\ Linked(plays, conn, netp, r, joined, list, v, d, ag)
         /\ LaidOut(plays, joined, Acked(lpm, msg), v, ag)
<1>0. /\ Linked(plays, conn, netp, recv, joined, list, u, d, ag) /\ LaidOut(plays, joined, lpm, u, ag)
      /\ plays /\ conn /\ joined /\ r \in BOOLEAN
      /\ msg.lpm = lpm /\ msg.cmd \notin Leaves \cup {"LOGIN"} /\ Asks(msg)
      /\ v = Append(u, msg)
  BY DEF Sends
<1> DEFINE n == Len(u)
<1>1. IsSeq(u) /\ n \in Nat /\ DOMAIN u = 1 .. n
  BY <1>0, SeqShape DEF Linked
<1>2. IsSeq(v) /\ Len(v) = n + 1 /\ \A i \in 1 .. (n + 1) : v[i] = IF i = n + 1 THEN msg ELSE u[i]
  BY <1>0, <1>1, SeqAppend
<1>3. DOMAIN v = 1 .. (n + 1)
  BY <1>2, SeqShape
<1>4. Fold("held", ag, v) = Acked(Fold("held", ag, u), msg)
  BY <1>0, <1>1, FoldAppend, HeldIs
<1>5. ASSUME NEW i \in 1 .. (n + 1) PROVE SubSeq(v, 1, i - 1) = SubSeq(u, 1, i - 1)
  <2>1. i - 1 \in 0 .. n /\ i - 1 \in 0 .. (n + 1)
    BY <1>1
  <2>2. IsSeq(SubSeq(v, 1, i - 1)) /\ Len(SubSeq(v, 1, i - 1)) = i - 1
        /\ \A k \in 1 .. (i - 1) : SubSeq(v, 1, i - 1)[k] = v[k]
    BY <2>1, <1>2, SeqFront
  <2>3. IsSeq(SubSeq(u, 1, i - 1)) /\ Len(SubSeq(u, 1, i - 1)) = i - 1
        /\ \A k \in 1 .. (i - 1) : SubSeq(u, 1, i - 1)[k] = u[k]
    BY <2>1, <1>1, SeqFront
  <2>4. \A k \in 1 .. (i - 1) : v[k] = u[k]
    BY <1>1, <1>2
  <2> DEFINE a == SubSeq(v, 1, i - 1)
             b == SubSeq(u, 1, i - 1)
  <2>5. a = [k \in 1 .. (i - 1) |-> a[k]] /\ b = [k \in 1 .. (i - 1) |-> b[k]]
    BY <2>2, <2>3, SeqShape
  <2>6. \A k \in 1 .. (i - 1) : a[k] = b[k]
    BY <2>2, <2>3, <2>4
  <2> HIDE DEF a, b
  <2>7. a = b
    BY <2>5, <2>6
  <2> QED BY <2>7 DEF a, b
<1>6. SubSeq(u, 1, n) = u
  <2> DEFINE b == SubSeq(u, 1, n)
  <2>1. IsSeq(b) /\ Len(b) = n /\ \A k \in 1 .. n : b[k] = u[k]
    BY <1>1, SeqFront
  <2>2. b = [k \in 1 .. n |-> b[k]] /\ u = [k \in 1 .. n |-> u[k]]
    BY <1>1, <2>1, SeqShape
  <2> HIDE DEF b
  <2>3. b = u
    BY <2>1, <2>2
  <2> QED BY <2>3 DEF b
<1> HIDE DEF n
<1>7. Linked(plays, conn, netp, r, joined, list, v, d, ag)
  BY <1>0, <1>1, <1>2, <1>3 DEF Linked
<1>8. ASSUME NEW i \in DOMAIN v, v[i] # Closed
      PROVE  v[i].lpm = Fold("held", ag, SubSeq(v, 1, i - 1))
  <2>0. i \in 1 .. (n + 1) /\ SubSeq(v, 1, i - 1) = SubSeq(u, 1, i - 1)
    BY <1>3, <1>5
  <2>1. CASE i = n + 1
    <3>1. i - 1 = n /\ v[i] = msg
      BY <2>1, <1>1, <1>2, <2>0
    <3>2. Fold("held", ag, u) = lpm
      BY <1>0 DEF LaidOut
    <3> QED BY <1>0, <3>1, <3>2, <2>0, <1>6
  <2>2. CASE i # n + 1
    <3>1. i \in DOMAIN u /\ v[i] = u[i]
      BY <2>0, <2>2, <1>1, <1>2
    <3> QED BY <1>0, <3>1, <2>0, <1>8 DEF LaidOut
  <2> QED BY <2>1, <2>2
<1>9. Fold("held", ag, v) = Acked(lpm, msg)
  BY <1>0, <1>4 DEF LaidOut
<1>10. LaidOut(plays, joined, Acked(lpm, msg), v, ag)
  BY <1>0, <1>8, <1>9 DEF LaidOut
<1> QED BY <1>7, <1>10

\* The front of what has been sent, and what closes it.
Ends(conn, netp, recv, joined, list, u, d, ag, lpm, n, msg, v) ==
  /\ Linked(TRUE, conn, netp, recv, joined, list, u, d, ag) /\ LaidOut(TRUE, joined, lpm, u, ag)
  /\ conn /\ n \in 0 .. Len(u) /\ msg.cmd \in Leaves /\ Asks(msg)
  /\ msg # Closed => msg.lpm = Fold("held", ag, SubSeq(u, 1, n))
  /\ v = Append(SubSeq(u, 1, n), msg)

LEMMA UpEnd ==
  ASSUME NEW conn, NEW netp, NEW recv, NEW joined, NEW list, NEW u, NEW d, NEW ag, NEW lpm, NEW n,
         NEW msg, NEW v, Ends(conn, netp, recv, joined, list, u, d, ag, lpm, n, msg, v),
         NEW none, none = <<>>, NEW lp2
  PROVE  /\ Linked(TRUE, FALSE, FALSE, FALSE, FALSE, none, v, none, ag)
         /\ LaidOut(TRUE, FALSE, lp2, v, ag)
<1>0a. /\ Linked(TRUE, conn, netp, recv, joined, list, u, d, ag) /\ LaidOut(TRUE, joined, lpm, u, ag)
       /\ conn /\ n \in 0 .. Len(u) /\ msg.cmd \in Leaves /\ Asks(msg)
       /\ msg # Closed => msg.lpm = Fold("held", ag, SubSeq(u, 1, n))
       /\ v = Append(SubSeq(u, 1, n), msg)
  BY DEF Ends
<1> USE <1>0a
<1> DEFINE w == SubSeq(u, 1, n)
<1>1. IsSeq(u) /\ Len(u) \in Nat /\ DOMAIN u = 1 .. Len(u) /\ n \in Nat /\ n <= Len(u)
  BY SeqShape DEF Linked
<1>2. IsSeq(w) /\ Len(w) = n /\ \A i \in 1 .. n : w[i] = u[i]
  BY <1>1, SeqFront
<1>0. v = Append(w, msg)
  OBVIOUS
<1> HIDE DEF w
<1>3. IsSeq(v) /\ Len(v) = n + 1 /\ \A i \in 1 .. (n + 1) : v[i] = IF i = n + 1 THEN msg ELSE w[i]
  BY ONLY <1>0, <1>2, SeqAppend
<1>4. DOMAIN v = 1 .. (n + 1)
  BY <1>3, SeqShape
<1>5. v # <<>>
  BY <1>4, <1>1, EmptyIsSeq
<1>6. ASSUME NEW i \in DOMAIN v
      PROVE  /\ v[i].cmd # "LOGIN" /\ Asks(v[i])
             /\ v[i].cmd \in Leaves <=> i = Len(v)
  <2>1. CASE i = n + 1
    BY <2>1, <1>1, <1>3, <1>4 DEF Leaves
  <2>2. CASE i # n + 1
    <3>1. i \in DOMAIN u /\ v[i] = u[i]
      BY <2>2, <1>1, <1>2, <1>3, <1>4
    <3>2. u[i].cmd # "LOGIN" /\ Asks(u[i]) /\ u[i].cmd \notin Leaves
      BY <3>1 DEF Linked
    <3> QED BY <3>1, <3>2, <2>2, <1>3
  <2> QED BY <2>1, <2>2
<1>7. ASSUME NEW i \in 1 .. (n + 1) PROVE SubSeq(v, 1, i - 1) = SubSeq(u, 1, i - 1)
  <2>1. i - 1 \in 0 .. Len(u) /\ i - 1 \in 0 .. (n + 1)
    BY <1>1
  <2> DEFINE a == SubSeq(v, 1, i - 1)
             b == SubSeq(u, 1, i - 1)
  <2>2. IsSeq(a) /\ Len(a) = i - 1 /\ \A k \in 1 .. (i - 1) : a[k] = v[k]
    BY <2>1, <1>3, SeqFront
  <2>3. IsSeq(b) /\ Len(b) = i - 1 /\ \A k \in 1 .. (i - 1) : b[k] = u[k]
    BY <2>1, <1>1, SeqFront
  <2>4. \A k \in 1 .. (i - 1) : v[k] = u[k]
    BY <1>1, <1>2, <1>3
  <2>5. a = [k \in 1 .. (i - 1) |-> a[k]] /\ b = [k \in 1 .. (i - 1) |-> b[k]]
    BY <2>2, <2>3, SeqShape
  <2> HIDE DEF a, b
  <2>7. a = b
    BY <2>2, <2>3, <2>4, <2>5
  <2> QED BY <2>7 DEF a, b
<1>8. Linked(TRUE, FALSE, FALSE, FALSE, FALSE, none, v, none, ag)
  BY <1>3, <1>5, <1>6, EmptyIsSeq DEF Linked
<1>9. ASSUME NEW i \in DOMAIN v, v[i] # Closed
      PROVE  v[i].lpm = Fold("held", ag, SubSeq(v, 1, i - 1))
  <2>0. i \in 1 .. (n + 1) /\ SubSeq(v, 1, i - 1) = SubSeq(u, 1, i - 1)
    BY <1>4, <1>7
  <2>1. CASE i = n + 1
    <3>1. i - 1 = n /\ v[i] = msg
      BY <2>1, <1>1, <1>3, <2>0
    <3> QED BY <3>1, <2>0, <1>9 DEF w
  <2>2. CASE i # n + 1
    <3>1. i \in DOMAIN u /\ v[i] = u[i]
      BY <2>0, <2>2, <1>1, <1>2, <1>3
    <3> QED BY <3>1, <2>0, <1>9 DEF LaidOut
  <2> QED BY <2>1, <2>2
<1>10. LaidOut(TRUE, FALSE, lp2, v, ag)
  BY <1>9 DEF LaidOut
<1> QED BY <1>8, <1>10

\* What is behind the first message is laid out by what the server knows once it has
\* dealt with that one.
Takes(plays, conn, netp, recv, joined, list, u, d, ag, lpm, v, ag2) ==
  /\ Linked(plays, conn, netp, recv, joined, list, u, d, ag) /\ LaidOut(plays, joined, lpm, u, ag)
  /\ plays /\ u # <<>> /\ u[1].cmd \notin Leaves
  /\ v = Tail(u) /\ ag2 = Acked(ag, u[1])

LEMMA UpTake ==
  ASSUME NEW plays, NEW conn, NEW netp, NEW recv, NEW joined, NEW list, NEW u, NEW d, NEW ag, NEW lpm,
         NEW v, NEW ag2, Takes(plays, conn, netp, recv, joined, list, u, d, ag, lpm, v, ag2)
  PROVE  /\ Linked(plays, conn, netp, recv, joined, list, v, d, ag2)
         /\ LaidOut(plays, joined, lpm, v, ag2)
<1>0. /\ Linked(plays, conn, netp, recv, joined, list, u, d, ag) /\ LaidOut(plays, joined, lpm, u, ag)
      /\ plays /\ u # <<>> /\ u[1].cmd \notin Leaves
      /\ v = Tail(u) /\ ag2 = Acked(ag, u[1])
  BY DEF Takes
<1> USE <1>0
<1> DEFINE n == Len(u) - 1
<1>1. IsSeq(u) /\ n \in Nat /\ Len(u) = n + 1 /\ DOMAIN u = 1 .. (n + 1)
  BY SeqShape DEF Linked, IsSeq
<1>2. IsSeq(v) /\ Len(v) = n /\ \A i \in 1 .. n : v[i] = u[i + 1]
  BY <1>1, SeqTail
<1>3. DOMAIN v = 1 .. n
  BY <1>2, SeqShape
<1>4. Fold("held", ag, u) = Fold("held", ag2, v)
  BY <1>1, FoldTail, HeldIs
<1>5. ASSUME NEW i \in 1 .. n
      PROVE  Fold("held", ag2, SubSeq(v, 1, i - 1)) = Fold("held", ag, SubSeq(u, 1, i))
  <2> DEFINE a == SubSeq(v, 1, i - 1)
             b == SubSeq(u, 1, i)
             e == Tail(b)
  <2>1. i \in 0 .. (n + 1) /\ i - 1 \in 0 .. n /\ i >= 1 /\ i \in Nat
    BY <1>1
  <2>2. IsSeq(a) /\ Len(a) = i - 1 /\ \A k \in 1 .. (i - 1) : a[k] = v[k]
    BY <2>1, <1>2, SeqFront
  <2>3. IsSeq(b) /\ Len(b) = i /\ \A k \in 1 .. i : b[k] = u[k]
    BY <2>1, <1>1, SeqFront
  <2> HIDE DEF a, b
  <2>4. b # <<>> /\ b[1] = u[1]
    <3>1. Len(b) # 0 /\ 1 \in 1 .. i
      BY <2>1, <2>3
    <3> QED BY <3>1, <2>3, EmptyIsSeq
  <2>5. IsSeq(e) /\ Len(e) = i - 1 /\ \A k \in 1 .. (i - 1) : e[k] = b[k + 1]
    BY <2>3, <2>4, SeqTail
  <2>6. Fold("held", ag, b) = Fold("held", ag2, e)
    BY <2>3, <2>4, FoldTail, HeldIs
  <2> HIDE DEF e
  <2>7. \A k \in 1 .. (i - 1) : a[k] = e[k]
    <3>1. SUFFICES ASSUME NEW k \in 1 .. (i - 1) PROVE a[k] = e[k]
      OBVIOUS
    <3>2. k \in 1 .. n /\ k + 1 \in 1 .. i
      BY <2>1, <1>1
    <3> QED BY <3>2, <1>2, <2>2, <2>3, <2>5
  <2>8. a = [k \in 1 .. (i - 1) |-> a[k]] /\ e = [k \in 1 .. (i - 1) |-> e[k]]
    BY <2>2, <2>5, SeqShape
  <2>9. a = e
    BY <2>7, <2>8
  <2> QED BY <2>6, <2>9 DEF a, b
<1> HIDE DEF n
<1>6. ASSUME NEW i \in DOMAIN v
      PROVE  /\ i + 1 \in DOMAIN u /\ v[i] = u[i + 1] /\ (i + 1) - 1 = i
             /\ (i = Len(v) <=> i + 1 = Len(u))
  BY <1>1, <1>2, <1>3
<1>7. 1 \in DOMAIN u
  BY <1>1
<1>8. ~ conn => v # <<>>
  <2>1. SUFFICES ASSUME ~ conn PROVE v # <<>>
    OBVIOUS
  <2>2. 1 # Len(u)
    BY <1>7, <2>1 DEF Linked
  <2>3. Len(v) # 0
    BY <1>1, <1>2, <2>2
  <2> QED BY <2>3, EmptyIsSeq
<1>9. conn => joined
  BY DEF Linked
<1>10. Linked(plays, conn, netp, recv, joined, list, v, d, ag2)
  BY <1>2, <1>6, <1>8, <1>9 DEF Linked
<1>11. LaidOut(plays, joined, lpm, v, ag2)
  <2>1. ASSUME NEW i \in DOMAIN v, v[i] # Closed
        PROVE  v[i].lpm = Fold("held", ag2, SubSeq(v, 1, i - 1))
    <3>1. u[i + 1].lpm = Fold("held", ag, SubSeq(u, 1, (i + 1) - 1))
      BY <1>6, <2>1 DEF LaidOut
    <3>2. i \in 1 .. n
      BY <1>3
    <3> QED BY <3>1, <3>2, <1>5, <1>6
  <2> QED BY <2>1, <1>4 DEF LaidOut
<1> QED BY <1>10, <1>11

\* The last message of a client, and the game goes on without it.
TakesLast(plays, conn, netp, recv, joined, list, u, d, ag, v) ==
  /\ Linked(plays, conn, netp, recv, joined, list, u, d, ag)
  /\ plays /\ u # <<>> /\ u[1].cmd \in Leaves /\ v = Tail(u)

LEMMA UpLast ==
  ASSUME NEW plays, NEW conn, NEW netp, NEW recv, NEW joined, NEW list, NEW u, NEW d, NEW ag,
         NEW v, TakesLast(plays, conn, netp, recv, joined, list, u, d, ag, v), NEW ag2, NEW lpm
  PROVE  /\ ~ conn /\ d = <<>>
         /\ Linked(FALSE, conn, netp, recv, joined, list, v, d, ag2)
         /\ LaidOut(FALSE, joined, lpm, v, ag2)
<1>0. /\ Linked(plays, conn, netp, recv, joined, list, u, d, ag)
      /\ plays /\ u # <<>> /\ u[1].cmd \in Leaves /\ v = Tail(u)
  BY DEF TakesLast
<1> USE <1>0
<1>1. IsSeq(u) /\ Len(u) \in Nat /\ Len(u) # 0 /\ DOMAIN u = 1 .. Len(u) /\ 1 \in DOMAIN u
  BY SeqShape DEF Linked, IsSeq
<1>2. ~ conn
  BY <1>1 DEF Linked
<1>3. Len(u) = 1
  BY <1>1, <1>2 DEF Linked
<1>4. IsSeq(v) /\ Len(v) = 0
  BY <1>1, <1>3, SeqTail
<1>5. v = <<>>
  BY ONLY <1>4 DEF IsSeq
<1>6. ~ netp /\ ~ joined /\ ~ recv /\ d = <<>> /\ list = <<>>
  BY <1>2 DEF Linked
<1>7. Linked(FALSE, conn, netp, recv, joined, list, v, d, ag2)
  BY <1>2, <1>4, <1>5, <1>6 DEF Linked
<1> QED BY <1>2, <1>6, <1>7 DEF LaidOut

\* The server sends something to a client in the game.
IsTold(plays, conn, netp, recv, joined, list, u, d, ag, msgs, e) ==
  /\ Linked(plays, conn, netp, recv, joined, list, u, d, ag) /\ plays /\ conn
  /\ IsSeq(msgs) /\ \A i \in DOMAIN msgs : msgs[i].cmd # "YOUJOINED"
  /\ e = d \o msgs

LEMMA DownAppend ==
  ASSUME NEW plays, NEW conn, NEW netp, NEW recv, NEW joined, NEW list, NEW u, NEW d, NEW ag,
         NEW msgs, NEW e, IsTold(plays, conn, netp, recv, joined, list, u, d, ag, msgs, e)
  PROVE  Linked(plays, conn, netp, recv, joined, list, u, e, ag)
<1>0. /\ Linked(plays, conn, netp, recv, joined, list, u, d, ag) /\ plays /\ conn
      /\ IsSeq(msgs) /\ \A i \in DOMAIN msgs : msgs[i].cmd # "YOUJOINED"
      /\ e = d \o msgs
  BY DEF IsTold
<1> USE <1>0
<1> DEFINE m == Len(d)
           n == Len(msgs)
<1>1. IsSeq(d) /\ m \in Nat /\ DOMAIN d = 1 .. m /\ n \in Nat /\ DOMAIN msgs = 1 .. n
  BY SeqShape DEF Linked
<1>2. /\ IsSeq(e) /\ Len(e) = m + n
      /\ \A i \in 1 .. m : e[i] = d[i]
      /\ \A i \in 1 .. n : e[m + i] = msgs[i]
  BY <1>1, SeqConcat
<1>3. DOMAIN e = 1 .. (m + n)
  BY <1>2, SeqShape
<1> HIDE DEF m, n
<1>4. ASSUME NEW i \in DOMAIN e
      PROVE  (i \in DOMAIN d /\ e[i] = d[i]) \/ e[i].cmd # "YOUJOINED"
  <2>1. CASE i <= m
    BY <2>1, <1>1, <1>2, <1>3
  <2>2. CASE ~ (i <= m)
    <3>1. i - m \in 1 .. n /\ m + (i - m) = i
      BY <2>2, <1>1, <1>3
    <3>2. e[m + (i - m)] = msgs[i - m]
      BY <3>1, <1>2
    <3> QED BY <3>1, <3>2, <1>1
  <2> QED BY <2>1, <2>2
<1>5. d # <<>> => e # <<>> /\ e[1] = d[1]
  <2>1. SUFFICES ASSUME d # <<>> PROVE e # <<>> /\ e[1] = d[1]
    OBVIOUS
  <2>2. m # 0
    BY <2>1, <1>1 DEF IsSeq, m
  <2>3. 1 \in 1 .. m /\ Len(e) # 0
    BY <2>2, <1>1, <1>2
  <2> QED BY <2>3, <1>2, EmptyIsSeq
<1>6. Linked(plays, conn, netp, recv, joined, list, u, e, ag)
  BY <1>2, <1>4, <1>5 DEF Linked
<1> QED BY <1>6

\* What is appended leads from what the server knew to what it knows.
Learns(list, nick, lpm, d, R, n, msgs, R2, n2, e) ==
  /\ IsSeq(d) /\ IsSeq(msgs) /\ Knows(list, nick, lpm, d, R, n) /\ Knows(R, n, R[n], msgs, R2, n2)
  /\ e = d \o msgs

LEMMA KnowsAppend ==
  ASSUME NEW list, NEW nick, NEW lpm, NEW d, NEW R, NEW n, NEW msgs, NEW R2, NEW n2, NEW e,
         Learns(list, nick, lpm, d, R, n, msgs, R2, n2, e)
  PROVE  Knows(list, nick, lpm, e, R2, n2)
<1>0. /\ IsSeq(d) /\ IsSeq(msgs) /\ Knows(list, nick, lpm, d, R, n) /\ Knows(R, n, R[n], msgs, R2, n2)
      /\ e = d \o msgs
  BY DEF Learns
<1> USE <1>0
<1>1. \A how, x : Fold(how, x, e) = Fold(how, Fold(how, x, d), msgs)
  BY FoldConcat
<1> QED BY <1>1 DEF Knows

\* A client takes the first of what it was sent.
LEMMA KnowsTail ==
  ASSUME NEW list, NEW nick, NEW lpm, NEW d, IsSeq(d), d # <<>>, NEW R, NEW n,
         NEW e, e = Tail(d)
  PROVE  Knows(list, nick, lpm, d, R, n)
           <=> Knows(Listed(list, d[1]), Named(nick, d[1]), Seated(lpm, d[1]), e, R, n)
<1>1. \A how, x : Fold(how, x, d) = Fold(how, Does(how, x, d[1]), e)
  BY FoldTail
<1>2. /\ \A x : Does("listed", x, d[1]) = Listed(x, d[1])
      /\ \A x : Does("named", x, d[1]) = Named(x, d[1])
      /\ \A x : Does("seated", x, d[1]) = Seated(x, d[1])
  BY DEF Does
<1> QED BY <1>1, <1>2 DEF Knows

\* ... and answers.
Answers(msg, ans, u, u2, lpm) ==
  \/ msg.cmd = "YOUJOINED" /\ u2 = Append(u, ans) /\ ans.cmd = "SETFPS" /\ ans.lpm = msg.arg
  \/ msg.cmd = "REQUEST_STATE" /\ u2 = Append(u, ans) /\ ans.cmd = "LOADSTATE" /\ ans.lpm = lpm
  \/ /\ msg.cmd = "CTRL_CHANGE" /\ u2 = Append(u, ans) /\ ans.cmd = "CTRL_CHANGE_ACK"
     /\ ans.arg = msg.arg /\ ans.lpm = lpm
  \/ msg.cmd \notin {"YOUJOINED", "REQUEST_STATE", "CTRL_CHANGE"} /\ u2 = u

Reads(plays, conn, netp, recv, joined, list, u, d, ag, lpm, ans, u2, e) ==
  /\ Linked(plays, conn, netp, recv, joined, list, u, d, ag) /\ LaidOut(plays, joined, lpm, u, ag)
  /\ recv /\ d # <<>> /\ Answers(d[1], ans, u, u2, lpm) /\ e = Tail(d)

LEMMA DownTake ==
  ASSUME NEW plays, NEW conn, NEW netp, NEW recv, NEW joined, NEW list, NEW u, NEW d, NEW ag, NEW lpm,
         NEW ans, NEW u2, NEW e,
         Reads(plays, conn, netp, recv, joined, list, u, d, ag, lpm, ans, u2, e), NEW list2
  PROVE  /\ plays /\ conn
         /\ Linked(plays, conn, netp, d[1].cmd # "", joined \/ d[1].cmd = "YOUJOINED", list2, u2, e, ag)
         /\ LaidOut(plays, joined \/ d[1].cmd = "YOUJOINED", Seated(lpm, d[1]), u2, ag)
<1>0. /\ Linked(plays, conn, netp, recv, joined, list, u, d, ag) /\ LaidOut(plays, joined, lpm, u, ag)
      /\ recv /\ d # <<>> /\ Answers(d[1], ans, u, u2, lpm) /\ e = Tail(d)
  BY DEF Reads
<1> USE <1>0
<1> DEFINE n == Len(d) - 1
           msg == d[1]
           r == msg.cmd # ""
<1>1. plays /\ conn /\ netp
  BY DEF Linked
<1>2. IsSeq(d) /\ n \in Nat /\ Len(d) = n + 1 /\ DOMAIN d = 1 .. (n + 1)
  BY SeqShape DEF Linked, IsSeq
<1>3. IsSeq(e) /\ Len(e) = n /\ \A i \in 1 .. n : e[i] = d[i + 1]
  BY <1>2, SeqTail
<1>4. DOMAIN e = 1 .. n
  BY <1>3, SeqShape
<1>5. ASSUME NEW i \in DOMAIN e PROVE e[i].cmd # "YOUJOINED"
  <2>1. i + 1 \in DOMAIN d /\ i + 1 # 1 /\ e[i] = d[i + 1]
    BY <1>2, <1>3, <1>4
  <2> QED BY <2>1, <1>1 DEF Linked
<1>6. r \in BOOLEAN
  OBVIOUS
<1> HIDE DEF n, msg, r
<1>7. \A w : Linked(plays, conn, netp, recv, joined, list, w, d, ag) /\ joined
               => Linked(plays, conn, netp, r, joined, list2, w, e, ag)
  BY <1>1, <1>3, <1>5, <1>6 DEF Linked
<1>8. CASE msg.cmd = "YOUJOINED"
  <2>1. ~ joined /\ u = <<>> /\ msg.arg = ag /\ joined \in BOOLEAN
    <3>1. 1 \in DOMAIN d
      BY <1>2
    <3>2. ~ joined
      BY <3>1, <1>1, <1>8 DEF Linked, msg
    <3> QED BY <3>2, <1>1 DEF Linked, msg
  <2>2. u2 = Append(u, ans) /\ ans.cmd = "SETFPS" /\ ans.lpm = ag /\ r
    BY <1>8, <2>1 DEF Answers, msg, r
  <2>3. IsSeq(u2) /\ Len(u2) = 1 /\ DOMAIN u2 = 1 .. 1 /\ u2[1] = ans
    <3>1. IsSeq(u) /\ Len(u) = 0
      BY <2>1, EmptyIsSeq
    <3>2. /\ IsSeq(u2) /\ Len(u2) = Len(u) + 1
          /\ \A i \in 1 .. (Len(u) + 1) : u2[i] = IF i = Len(u) + 1 THEN ans ELSE u[i]
      BY <3>1, <2>2, SeqAppend
    <3> QED BY <3>1, <3>2, SeqShape
  <2>4. Linked(plays, conn, netp, r, TRUE, list2, u2, e, ag)
    BY <1>1, <1>3, <1>5, <2>2, <2>3 DEF Linked, Asks, Leaves
  <2>5. Fold("held", ag, <<>>) = ag
    BY FoldNone
  <2>6. Fold("held", ag, u2) = ag
    <3>1. IsSeq(u)
      BY <2>1, EmptyIsSeq
    <3>2. Fold("held", ag, u2) = Acked(Fold("held", ag, u), ans)
      BY <3>1, <2>2, FoldAppend, HeldIs
    <3> QED BY <3>2, <2>1, <2>2, <2>5 DEF Acked
  <2>7. Fold("held", ag, SubSeq(u2, 1, 1 - 1)) = ag
    <3> DEFINE w == SubSeq(u2, 1, 1 - 1)
    <3>0. 1 - 1 \in 0 .. 1
      OBVIOUS
    <3>1. IsSeq(w) /\ Len(w) = 1 - 1
      BY <3>0, <2>3, SeqFront
    <3>2. w = <<>>
      BY <3>1 DEF IsSeq
    <3> QED BY <3>2, <2>5
  <2>8. Seated(lpm, msg) = ag
    BY <1>8, <2>1 DEF Seated
  <2>9. LaidOut(plays, TRUE, ag, u2, ag)
    BY <2>2, <2>3, <2>6, <2>7 DEF LaidOut
  <2>10. (joined \/ msg.cmd = "YOUJOINED") = TRUE
    BY <1>8
  <2> QED BY <1>1, <2>4, <2>8, <2>9, <2>10 DEF msg, r
<1>9. CASE msg.cmd # "YOUJOINED"
  <2>1. joined /\ (joined \/ msg.cmd = "YOUJOINED") = joined
    <3>1. joined \in BOOLEAN /\ joined
      BY <1>1, <1>9 DEF Linked, msg
    <3> QED BY <3>1, <1>9
  <2>2. CASE msg.cmd = "REQUEST_STATE"
    <3>1. u2 = Append(u, ans) /\ ans.cmd = "LOADSTATE" /\ ans.lpm = lpm
      BY <2>2 DEF Answers, msg
    <3>2. ans.cmd \notin Leaves \cup {"LOGIN"} /\ Asks(ans) /\ Acked(lpm, ans) = lpm
      BY <3>1 DEF Leaves, Asks, Acked
    <3>3. recv \in BOOLEAN
      BY DEF Linked
    <3>4. /\ Linked(plays, conn, netp, recv, joined, list, u2, d, ag)
          /\ LaidOut(plays, joined, Acked(lpm, ans), u2, ag)
      <4>1. ans.lpm = lpm /\ plays /\ conn /\ joined
        BY <1>1, <2>1, <3>1
      <4>2. /\ Linked(plays, conn, netp, recv, joined, list, u, d, ag)
            /\ LaidOut(plays, joined, lpm, u, ag)
        OBVIOUS
      <4>3. u2 = Append(u, ans)
        BY <3>1
      <4>4. Sends(plays, conn, netp, recv, joined, list, u, d, ag, lpm, ans, recv, u2)
        BY <4>1, <4>2, <4>3, <3>2, <3>3 DEF Sends
      <4> QED BY ONLY <4>4, UpAppend
    <3>5. Seated(lpm, msg) = lpm
      BY <2>2 DEF Seated
    <3> QED BY <1>1, <1>7, <2>1, <3>2, <3>4, <3>5 DEF msg, r
  <2>3. CASE msg.cmd = "CTRL_CHANGE"
    <3>1. u2 = Append(u, ans) /\ ans.cmd = "CTRL_CHANGE_ACK" /\ ans.lpm = lpm /\ ans.arg = msg.arg
      BY <2>3 DEF Answers, msg
    <3>2. ans.cmd \notin Leaves \cup {"LOGIN"} /\ Asks(ans) /\ Acked(lpm, ans) = msg.arg
      BY <3>1 DEF Leaves, Asks, Acked
    <3>3. recv \in BOOLEAN
      BY DEF Linked
    <3>4. /\ Linked(plays, conn, netp, recv, joined, list, u2, d, ag)
          /\ LaidOut(plays, joined, Acked(lpm, ans), u2, ag)
      <4>1. ans.lpm = lpm /\ plays /\ conn /\ joined
        BY <1>1, <2>1, <3>1
      <4>2. /\ Linked(plays, conn, netp, recv, joined, list, u, d, ag)
            /\ LaidOut(plays, joined, lpm, u, ag)
        OBVIOUS
      <4>3. u2 = Append(u, ans)
        BY <3>1
      <4>4. Sends(plays, conn, netp, recv, joined, list, u, d, ag, lpm, ans, recv, u2)
        BY <4>1, <4>2, <4>3, <3>2, <3>3 DEF Sends
      <4> QED BY ONLY <4>4, UpAppend
    <3>5. Seated(lpm, msg) = msg.arg
      BY <2>3 DEF Seated
    <3> QED BY <1>1, <1>7, <2>1, <3>2, <3>4, <3>5 DEF msg, r
  <2>4. CASE msg.cmd \notin {"REQUEST_STATE", "CTRL_CHANGE"}
    <3>1. u2 = u
      BY <2>4, <1>9 DEF Answers, msg
    <3>2. Seated(lpm, msg) = lpm
      BY <2>4, <1>9 DEF Seated
    <3> QED BY <1>1, <1>7, <2>1, <3>1, <3>2 DEF msg, r
  <2> QED BY <2>2, <2>3, <2>4
<1> QED BY <1>8, <1>9

-----------------------------------------------------------------------------
(* The clients' steps *)

\* Whom a step does not concern.
LEMMA Aside ==
  ASSUME NEW e, LinkedAt(e), LaidOutAt(e), KnowsAt(e),
         (e \in inGame) <=> (e \in inGame'),
         connected'[e] = connected[e], MDFNnetplay'[e] = MDFNnetplay[e],
         receiving'[e] = receiving[e], Joined'[e] = Joined[e],
         LocalPlayersMask'[e] = LocalPlayersMask[e], OurNick'[e] = OurNick[e],
         PlayersList'[e] = PlayersList[e], up'[e] = up[e], down'[e] = down[e],
         agreed'[e] = agreed[e], UNCHANGED <<roster, nickOf>>
  PROVE  LinkedAt(e)' /\ LaidOutAt(e)' /\ KnowsAt(e)'
<1>1. (e \in inGame) = (e \in inGame') /\ (e \in inGame) \in BOOLEAN
  OBVIOUS
<1>2. LinkedAt(e)'
  BY <1>1 DEF LinkedAt
<1>3. LaidOutAt(e)'
  BY <1>1 DEF LaidOutAt
<1>4. KnowsAt(e)'
  BY <1>1 DEF KnowsAt
<1> QED BY <1>2, <1>3, <1>4

\* One client is replaced in each of the maps that change.
Replaced(f, g, c, x) == IsMap(f) /\ c \in Clients /\ g = [f EXCEPT ![c] = x]

LEMMA MapLemma ==
  ASSUME NEW f, NEW c, NEW x, NEW g, Replaced(f, g, c, x)
  PROVE  IsMap(g) /\ g[c] = x /\ \A e \in Clients : e # c => g[e] = f[e]
<1>1. DOMAIN g = Clients /\ g[c] = x /\ \A e \in Clients : e # c => g[e] = f[e]
  BY DEF IsMap, Replaced
<1>2. g = [e \in Clients |-> g[e]]
  BY <1>1 DEF IsMap, Replaced
<1> QED BY <1>1, <1>2 DEF IsMap

\* One that is playing is in the game and has joined.
LEMMA PlayingPlays ==
  ASSUME IInv, NEW c \in Clients, Playing(c)
  PROVE  c \in inGame /\ connected[c] /\ Joined[c]
<1>1. LinkedAt(c) /\ MDFNnetplay[c] /\ ~ receiving[c]
  BY DEF IInv, Playing
<1> QED BY <1>1 DEF LinkedAt, Linked

Same(e) == /\ connected'[e] = connected[e] /\ MDFNnetplay'[e] = MDFNnetplay[e]
           /\ Joined'[e] = Joined[e] /\ receiving'[e] = receiving[e]
           /\ LocalPlayersMask'[e] = LocalPlayersMask[e] /\ OurNick'[e] = OurNick[e]
           /\ PlayersList'[e] = PlayersList[e] /\ up'[e] = up[e] /\ down'[e] = down[e]

\* A step of one client: what is left to show is about that client.
LEMMA OneClient ==
  ASSUME IInv, NEW c \in Clients, UNCHANGED server, Maps',
         \A e \in Clients : e # c => Same(e),
         LinkedAt(c)' /\ LaidOutAt(c)' /\ KnowsAt(c)'
  PROVE  IInv'
<1>1. Served'
  <2>1. UNCHANGED <<inGame, nickOf, roster>>
    BY DEF server
  <2> QED BY <2>1 DEF IInv, Served
<1>2. ASSUME NEW e \in Clients, e # c PROVE LinkedAt(e)' /\ LaidOutAt(e)' /\ KnowsAt(e)'
  <2>1. LinkedAt(e) /\ LaidOutAt(e) /\ KnowsAt(e) /\ Same(e)
    BY <1>2 DEF IInv
  <2>2. UNCHANGED <<inGame, roster, nickOf, agreed>>
    BY DEF server
  <2> QED BY <2>1, <2>2, Aside DEF Same
<1> QED BY <1>1, <1>2 DEF IInv

\* A message is sent, and whether the client is receiving may change.
LEMMA SendKeeps ==
  ASSUME IInv, NEW c \in Clients, Playing(c), NEW cmd, NEW arg, SendCommand(c, cmd, arg),
         cmd \notin Leaves \cup {"LOGIN", "CTRL_CHANGE_ACK"},
         Asks([cmd |-> cmd, arg |-> arg, lpm |-> LocalPlayersMask[c]]),
         UNCHANGED <<connected, MDFNnetplay, seats, down, server>>,
         IsMap(mach'), IsMap(strayed'),
         NEW r \in BOOLEAN, receiving' = [receiving EXCEPT ![c] = r]
  PROVE  IInv'
<1> DEFINE msg == [cmd |-> cmd, arg |-> arg, lpm |-> LocalPlayersMask[c]]
<1>1. c \in inGame /\ connected[c] /\ Joined[c]
  BY PlayingPlays
<1>2. LinkedAt(c) /\ LaidOutAt(c) /\ KnowsAt(c) /\ Maps
  BY DEF IInv
<1>0. PICK v : v = Append(up[c], msg)
  OBVIOUS
<1>3. up' = [up EXCEPT ![c] = v]
  BY <1>0 DEF SendCommand, SendAs
<1>4. IsMap(up') /\ up'[c] = v /\ \A e \in Clients : e # c => up'[e] = up[e]
  <2>1. Replaced(up, up', c, v)
    BY <1>2, <1>3 DEF Maps, Replaced
  <2> QED BY ONLY <2>1, MapLemma
<1>5. IsMap(receiving') /\ receiving'[c] = r /\ \A e \in Clients : e # c => receiving'[e] = receiving[e]
  <2>1. Replaced(receiving, receiving', c, r)
    BY <1>2 DEF Maps, Replaced
  <2> QED BY ONLY <2>1, MapLemma
<1>6. msg.lpm = LocalPlayersMask[c] /\ msg.cmd = cmd /\ Asks(msg) /\ Acked(LocalPlayersMask[c], msg) = LocalPlayersMask[c]
  BY DEF Acked
<1> HIDE DEF msg
<1>7. /\ Linked(c \in inGame, connected[c], MDFNnetplay[c], r, Joined[c], PlayersList[c],
                v, down[c], agreed[c])
      /\ LaidOut(c \in inGame, Joined[c], Acked(LocalPlayersMask[c], msg), v, agreed[c])
  <2>1. /\ Linked(c \in inGame, connected[c], MDFNnetplay[c], receiving[c], Joined[c], PlayersList[c],
                  up[c], down[c], agreed[c])
        /\ LaidOut(c \in inGame, Joined[c], LocalPlayersMask[c], up[c], agreed[c])
    BY <1>2 DEF LinkedAt, LaidOutAt
  <2>2. msg.cmd \notin Leaves \cup {"LOGIN"}
    BY <1>6
  <2>3. v = Append(up[c], msg)
    BY <1>0
  <2>4. Sends(c \in inGame, connected[c], MDFNnetplay[c], receiving[c], Joined[c], PlayersList[c],
              up[c], down[c], agreed[c], LocalPlayersMask[c], msg, r, v)
    BY <1>1, <1>6, <2>1, <2>2, <2>3 DEF Sends
  <2> QED BY ONLY <2>4, UpAppend
<1>8. UNCHANGED <<inGame, agreed, LocalPlayersMask, OurNick, PlayersList, Joined, roster, nickOf>>
  BY DEF server, seats
<1>9. LinkedAt(c)' /\ LaidOutAt(c)' /\ KnowsAt(c)'
  BY <1>2, <1>4, <1>5, <1>6, <1>7, <1>8 DEF LinkedAt, LaidOutAt, KnowsAt
<1>10. Maps'
  BY <1>2, <1>4, <1>5, <1>8 DEF Maps
<1>11. \A e \in Clients : e # c => Same(e)
  BY <1>4, <1>5, <1>8 DEF Same
<1> QED BY <1>9, <1>10, <1>11, OneClient

LEMMA ConnectKeeps ==
  ASSUME IInv, NEW c \in Clients, MDFNI_NetplayConnect(c)
  PROVE  IInv'
<1>1. /\ ~ connected[c] /\ up[c] = <<>> /\ c \notin inGame
      /\ connected' = [connected EXCEPT ![c] = TRUE]
      /\ UNCHANGED <<MDFNnetplay, receiving, seats, mach, up, down, server, strayed>>
  BY DEF MDFNI_NetplayConnect
<1>2. LinkedAt(c) /\ LaidOutAt(c) /\ KnowsAt(c) /\ Maps
  BY DEF IInv
<1>3. IsMap(connected') /\ connected'[c] = TRUE /\ \A e \in Clients : e # c => connected'[e] = connected[e]
  <2>1. PICK yes : yes = TRUE
    OBVIOUS
  <2>2. Replaced(connected, connected', c, yes)
    BY <1>1, <1>2, <2>1 DEF Maps, Replaced
  <2>3. /\ IsMap(connected') /\ connected'[c] = yes
        /\ \A e \in Clients : e # c => connected'[e] = connected[e]
    BY ONLY <2>2, MapLemma
  <2> QED BY <2>1, <2>3
<1>4. UNCHANGED <<inGame, agreed, LocalPlayersMask, OurNick, PlayersList, Joined, roster, nickOf>>
  BY <1>1 DEF server, seats
<1>5. LinkedAt(c)'
  <2>1. Linked(c \in inGame, FALSE, MDFNnetplay[c], receiving[c], Joined[c], PlayersList[c], up[c], down[c], agreed[c])
    BY <1>1, <1>2 DEF LinkedAt, Linked
  <2>2. Linked(c \in inGame, TRUE, MDFNnetplay[c], receiving[c], Joined[c], PlayersList[c], up[c], down[c], agreed[c])
    BY <1>1, <2>1 DEF Linked
  <2> QED BY <2>2, <1>1, <1>3, <1>4 DEF LinkedAt
<1>6. LaidOutAt(c)' /\ KnowsAt(c)'
  BY <1>1, <1>4 DEF LaidOutAt, LaidOut, KnowsAt
<1>7. Maps'
  BY <1>1, <1>2, <1>3, <1>4 DEF Maps
<1>8. \A e \in Clients : e # c => Same(e)
  BY <1>1, <1>3, <1>4 DEF Same
<1>9. UNCHANGED server
  BY <1>1
<1> QED BY <1>5, <1>6, <1>7, <1>8, <1>9, OneClient

LEMMA SeqWhole ==
  ASSUME NEW s, IsSeq(s)
  PROVE  SubSeq(s, 1, Len(s)) = s
<1> DEFINE n == Len(s)
           b == SubSeq(s, 1, n)
<1>1. n \in Nat /\ n \in 0 .. n
  BY SeqShape
<1>2. IsSeq(b) /\ Len(b) = n /\ \A k \in 1 .. n : b[k] = s[k]
  BY <1>1, SeqFront
<1>3. b = [k \in 1 .. n |-> b[k]] /\ s = [k \in 1 .. n |-> s[k]]
  BY <1>2, SeqShape
<1> HIDE DEF b, n
<1>4. b = s
  BY <1>2, <1>3
<1> QED BY <1>4 DEF b, n

\* One that leaves, for good or bad, has only something left to be read.
LEMMA GoneKeeps ==
  ASSUME IInv, NEW c \in Clients, MDFNI_NetplayDisconnect(c), UNCHANGED <<server, strayed>>, IsMap(mach'),
         NEW v, up' = [up EXCEPT ![c] = v], NEW none, none = <<>>,
         Linked(c \in inGame, FALSE, FALSE, FALSE, FALSE, none, v, none, agreed[c]),
         LaidOut(c \in inGame, FALSE, LocalPlayersMask[c], v, agreed[c])
  PROVE  IInv'
<1>1. /\ connected' = [connected EXCEPT ![c] = FALSE] /\ MDFNnetplay' = [MDFNnetplay EXCEPT ![c] = FALSE]
      /\ receiving' = [receiving EXCEPT ![c] = FALSE] /\ Joined' = [Joined EXCEPT ![c] = FALSE]
      /\ OurNick' = [OurNick EXCEPT ![c] = ""] /\ PlayersList' = [PlayersList EXCEPT ![c] = none]
      /\ down' = [down EXCEPT ![c] = none] /\ UNCHANGED LocalPlayersMask
  BY DEF MDFNI_NetplayDisconnect
<1>2. Maps
  BY DEF IInv
<1>3. PICK no : no = FALSE
  OBVIOUS
<1>4. IsMap(connected') /\ connected'[c] = no /\ \A e \in Clients : e # c => connected'[e] = connected[e]
  <2>1. Replaced(connected, connected', c, no)
    BY <1>1, <1>2, <1>3 DEF Maps, Replaced
  <2> QED BY ONLY <2>1, MapLemma
<1>5. IsMap(MDFNnetplay') /\ MDFNnetplay'[c] = no /\ \A e \in Clients : e # c => MDFNnetplay'[e] = MDFNnetplay[e]
  <2>1. Replaced(MDFNnetplay, MDFNnetplay', c, no)
    BY <1>1, <1>2, <1>3 DEF Maps, Replaced
  <2> QED BY ONLY <2>1, MapLemma
<1>6. IsMap(receiving') /\ receiving'[c] = no /\ \A e \in Clients : e # c => receiving'[e] = receiving[e]
  <2>1. Replaced(receiving, receiving', c, no)
    BY <1>1, <1>2, <1>3 DEF Maps, Replaced
  <2> QED BY ONLY <2>1, MapLemma
<1>7. IsMap(Joined') /\ Joined'[c] = no /\ \A e \in Clients : e # c => Joined'[e] = Joined[e]
  <2>1. Replaced(Joined, Joined', c, no)
    BY <1>1, <1>2, <1>3 DEF Maps, Replaced
  <2> QED BY ONLY <2>1, MapLemma
<1>8. IsMap(OurNick') /\ \A e \in Clients : e # c => OurNick'[e] = OurNick[e]
  <2>1. PICK n : n = ""
    OBVIOUS
  <2>2. Replaced(OurNick, OurNick', c, n)
    BY <1>1, <1>2, <2>1 DEF Maps, Replaced
  <2> QED BY ONLY <2>2, MapLemma
<1>9. IsMap(PlayersList') /\ PlayersList'[c] = none /\ \A e \in Clients : e # c => PlayersList'[e] = PlayersList[e]
  <2>1. Replaced(PlayersList, PlayersList', c, none)
    BY <1>1, <1>2 DEF Maps, Replaced
  <2> QED BY ONLY <2>1, MapLemma
<1>10. IsMap(down') /\ down'[c] = none /\ \A e \in Clients : e # c => down'[e] = down[e]
  <2>1. Replaced(down, down', c, none)
    BY <1>1, <1>2 DEF Maps, Replaced
  <2> QED BY ONLY <2>1, MapLemma
<1>11. IsMap(up') /\ up'[c] = v /\ \A e \in Clients : e # c => up'[e] = up[e]
  <2>1. Replaced(up, up', c, v)
    BY <1>2 DEF Maps, Replaced
  <2> QED BY ONLY <2>1, MapLemma
<1>12. UNCHANGED <<inGame, agreed, roster, nickOf, LocalPlayersMask>>
  BY <1>1 DEF server
<1>13. LinkedAt(c)'
  BY <1>3, <1>4, <1>5, <1>6, <1>7, <1>9, <1>10, <1>11, <1>12 DEF LinkedAt
<1>14. LaidOutAt(c)'
  BY <1>3, <1>7, <1>11, <1>12 DEF LaidOutAt
<1>15. KnowsAt(c)'
  BY <1>3, <1>4 DEF KnowsAt
<1>16. Maps'
  BY <1>2, <1>4, <1>5, <1>6, <1>7, <1>8, <1>9, <1>10, <1>11, <1>12 DEF Maps
<1>17. \A e \in Clients : e # c => Same(e)
  BY <1>4, <1>5, <1>6, <1>7, <1>8, <1>9, <1>10, <1>11, <1>12 DEF Same
<1> QED BY <1>13, <1>14, <1>15, <1>16, <1>17, OneClient

LEMMA QuitKeeps ==
  ASSUME IInv, NEW c \in Clients, CC_quit(c)
  PROVE  IInv'
<1>1. /\ connected[c] /\ ~ receiving[c] /\ MDFNI_NetplayDisconnect(c)
      /\ IF MDFNnetplay[c] THEN SendCommand(c, "QUIT", 0) ELSE UNCHANGED up
      /\ UNCHANGED <<server, strayed>> /\ IsMap(mach')
  BY DEF CC_quit, IInv, Maps
<1>2. LinkedAt(c) /\ LaidOutAt(c) /\ Maps
  BY DEF IInv
<1>3. PICK none : none = <<>>
  OBVIOUS
<1>4. CASE c \in inGame
  <2> DEFINE msg == [cmd |-> "QUIT", arg |-> 0, lpm |-> LocalPlayersMask[c]]
  <2>1. MDFNnetplay[c] /\ Joined[c]
    BY <1>1, <1>2, <1>4 DEF LinkedAt, Linked
  <2>2. PICK v : v = Append(SubSeq(up[c], 1, Len(up[c])), msg)
    OBVIOUS
  <2>3. IsSeq(up[c])
    BY <1>2 DEF LinkedAt, Linked
  <2>4. up' = [up EXCEPT ![c] = v]
    BY <1>1, <2>1, <2>2, <2>3, SeqWhole DEF SendCommand, SendAs
  <2>5. PICK n : n = Len(up[c])
    OBVIOUS
  <2>6. n \in 0 .. Len(up[c])
    BY <2>3, <2>5, SeqShape
  <2>7. msg.lpm = Fold("held", agreed[c], SubSeq(up[c], 1, n))
    BY <1>2, <1>4, <2>1, <2>3, <2>5, SeqWhole DEF LaidOutAt, LaidOut
  <2>8. msg.cmd \in Leaves /\ Asks(msg)
    BY DEF Leaves, Asks
  <2> HIDE DEF msg
  <2>9. /\ Linked(TRUE, connected[c], MDFNnetplay[c], receiving[c], Joined[c], PlayersList[c],
                  up[c], down[c], agreed[c])
        /\ LaidOut(TRUE, Joined[c], LocalPlayersMask[c], up[c], agreed[c])
    <3>1. (c \in inGame) = TRUE
      BY <1>4
    <3> QED BY <1>2, <3>1 DEF LinkedAt, LaidOutAt
  <2>10. Ends(connected[c], MDFNnetplay[c], receiving[c], Joined[c], PlayersList[c], up[c], down[c],
              agreed[c], LocalPlayersMask[c], n, msg, v)
    BY <1>1, <2>2, <2>5, <2>6, <2>7, <2>8, <2>9 DEF Ends
  <2>11. /\ Linked(TRUE, FALSE, FALSE, FALSE, FALSE, none, v, none, agreed[c])
         /\ LaidOut(TRUE, FALSE, LocalPlayersMask[c], v, agreed[c])
    BY ONLY <1>3, <2>10, UpEnd
  <2>12. /\ Linked(c \in inGame, FALSE, FALSE, FALSE, FALSE, none, v, none, agreed[c])
         /\ LaidOut(c \in inGame, FALSE, LocalPlayersMask[c], v, agreed[c])
    <3>1. (c \in inGame) = TRUE
      BY <1>4
    <3> QED BY <2>11, <3>1
  <2> QED BY <1>1, <1>3, <2>4, <2>12, GoneKeeps
<1>5. CASE c \notin inGame
  <2>1. ~ MDFNnetplay[c] /\ up[c] = none
    BY <1>1, <1>2, <1>3, <1>5 DEF LinkedAt, Linked
  <2>2. up' = [up EXCEPT ![c] = none]
    BY <1>1, <1>2, <2>1 DEF Maps, IsMap
  <2>3. Linked(c \in inGame, FALSE, FALSE, FALSE, FALSE, none, none, none, agreed[c])
    BY <1>3, <1>5, EmptyIsSeq DEF Linked
  <2>4. LaidOut(c \in inGame, FALSE, LocalPlayersMask[c], none, agreed[c])
    BY <1>5 DEF LaidOut
  <2> QED BY <1>1, <1>3, <2>2, <2>3, <2>4, GoneKeeps
<1> QED BY <1>4, <1>5

\* A load that fails changes the machine of its client only.
LEMMA FailedIsMap ==
  ASSUME NEW c \in Clients, IsMap(mach), UNCHANGED mach \/ LoadFails(c)
  PROVE  IsMap(mach') /\ \A e \in Clients : e # c => mach'[e] = mach[e]
<1>1. CASE UNCHANGED mach
  BY <1>1
<1>2. CASE LoadFails(c)
  <2>1. PICK x : x = Append(mach[c], <<"LOADSTATE", 0>>)
    OBVIOUS
  <2>2. mach' = [mach EXCEPT ![c] = x]
    BY <1>2, <2>1 DEF LoadFails
  <2>3. Replaced(mach, mach', c, x)
    BY <2>2 DEF Replaced
  <2> QED BY ONLY <2>3, MapLemma
<1> QED BY <1>1, <1>2

LEMMA ErrorKeeps ==
  ASSUME IInv, NEW c \in Clients, NetError(c)
  PROVE  IInv'
<1>1. connected[c] /\ MDFNI_NetplayDisconnect(c) /\ UNCHANGED <<server, strayed>> /\ IsMap(mach')
  <2>1. IsMap(mach)
    BY DEF IInv, Maps
  <2>2. UNCHANGED mach \/ LoadFails(c)
    BY DEF NetError
  <2>3. IsMap(mach')
    BY <2>1, <2>2, FailedIsMap
  <2> QED BY <2>3 DEF NetError
<1>2. PICK n \in 0 .. Len(up[c]) :
        up' = [up EXCEPT ![c] = IF c \in inGame \/ n > 0 THEN Append(SubSeq(@, 1, n), Closed) ELSE <<>>]
  BY DEF NetError
<1>3. LinkedAt(c) /\ LaidOutAt(c) /\ Maps
  BY DEF IInv
<1>4. PICK none : none = <<>>
  OBVIOUS
<1>5. PICK v : v = IF c \in inGame \/ n > 0 THEN Append(SubSeq(up[c], 1, n), Closed) ELSE <<>>
  OBVIOUS
<1>6. up' = [up EXCEPT ![c] = v]
  BY <1>2, <1>3, <1>5 DEF Maps, IsMap
<1>7. CASE c \in inGame
  <2>1. /\ Linked(TRUE, connected[c], MDFNnetplay[c], receiving[c], Joined[c], PlayersList[c],
                  up[c], down[c], agreed[c])
        /\ LaidOut(TRUE, Joined[c], LocalPlayersMask[c], up[c], agreed[c])
    <3>1. (c \in inGame) = TRUE
      BY <1>7
    <3> QED BY <1>3, <3>1 DEF LinkedAt, LaidOutAt
  <2>2. PICK msg : msg = Closed
    OBVIOUS
  <2>3. msg.cmd \in Leaves /\ Asks(msg)
    BY <2>2 DEF Leaves, Asks, Closed
  <2>4. v = Append(SubSeq(up[c], 1, n), msg)
    BY <1>5, <1>7, <2>2
  <2>5. n \in 0 .. Len(up[c])
    OBVIOUS
  <2>6. Ends(connected[c], MDFNnetplay[c], receiving[c], Joined[c], PlayersList[c], up[c], down[c],
             agreed[c], LocalPlayersMask[c], n, msg, v)
    BY <1>1, <2>1, <2>2, <2>3, <2>4, <2>5 DEF Ends
  <2>7. /\ Linked(TRUE, FALSE, FALSE, FALSE, FALSE, none, v, none, agreed[c])
        /\ LaidOut(TRUE, FALSE, LocalPlayersMask[c], v, agreed[c])
    BY ONLY <1>4, <2>6, UpEnd
  <2>8. /\ Linked(c \in inGame, FALSE, FALSE, FALSE, FALSE, none, v, none, agreed[c])
        /\ LaidOut(c \in inGame, FALSE, LocalPlayersMask[c], v, agreed[c])
    <3>1. (c \in inGame) = TRUE
      BY <1>7
    <3> QED BY <2>7, <3>1
  <2> QED BY <1>1, <1>4, <1>6, <2>8, GoneKeeps
<1>8. CASE c \notin inGame
  <2>1. v = none \/ v = <<Joins, Closed>>
    <3>1. up[c] = <<>> \/ up[c] = <<Joins>>
      BY <1>1, <1>3, <1>8 DEF LinkedAt, Linked
    <3>2. CASE ~ (n > 0)
      BY <1>4, <1>5, <1>8, <3>2
    <3>3. CASE n > 0
      <4>1. n = 1 /\ up[c] = <<Joins>>
        <5>1. n \in 0 .. Len(up[c])
          OBVIOUS
        <5>2. PICK u : u = up[c]
          OBVIOUS
        <5>3. u # <<>>
          BY <3>3, <5>1, <5>2, EmptyIsSeq
        <5>4. u = <<Joins>> /\ Len(u) = 1
          BY <3>1, <5>2, <5>3
        <5> QED BY <3>3, <5>1, <5>2, <5>4
      <4> DEFINE w == SubSeq(up[c], 1, n)
      <4>2. w = <<Joins>>
        <5>1. IsSeq(up[c]) /\ Len(up[c]) = n
          BY <1>3, <4>1 DEF LinkedAt, Linked
        <5> QED BY <4>1, <5>1, SeqWhole
      <4> HIDE DEF w
      <4>3. PICK j, k : j = Joins /\ k = Closed
        OBVIOUS
      <4>4. Append(<<j>>, k) = <<j, k>>
        <5>1. PICK a, b : a = <<j>> /\ b = Append(a, k)
          OBVIOUS
        <5>2. a \in Seq({j}) /\ {a[i] : i \in DOMAIN a} = {j} /\ Len(a) = 1 /\ a[1] = j
          BY <5>1
        <5>3. IsSeq(a)
          BY <5>2 DEF IsSeq
        <5>4. IsSeq(b) /\ Len(b) = 2 /\ b[1] = j /\ b[2] = k
          BY <5>1, <5>2, <5>3, SeqAppend
        <5>5. b = [i \in 1 .. 2 |-> b[i]]
          BY <5>4, SeqShape
        <5>6. <<j, k>> = [i \in 1 .. 2 |-> IF i = 1 THEN j ELSE k]
          OBVIOUS
        <5>7. b = <<j, k>>
          BY <5>4, <5>5, <5>6
        <5> QED BY <5>1, <5>7
      <4> QED BY <1>5, <3>3, <4>2, <4>3, <4>4 DEF w
    <3> QED BY <3>2, <3>3
  <2>2. IsSeq(v)
    <3>1. CASE v = <<>>
      BY <3>1, EmptyIsSeq
    <3>2. CASE v = <<Joins, Closed>>
      <4>1. v \in Seq({Joins, Closed}) /\ {v[i] : i \in DOMAIN v} = {Joins, Closed}
        BY <3>2
      <4> QED BY <4>1 DEF IsSeq
    <3> QED BY <2>1, <3>1, <3>2, <1>4
  <2>3. Linked(c \in inGame, FALSE, FALSE, FALSE, FALSE, none, v, none, agreed[c])
    BY <1>4, <1>8, <2>1, <2>2, EmptyIsSeq DEF Linked
  <2>4. LaidOut(c \in inGame, FALSE, LocalPlayersMask[c], v, agreed[c])
    BY <1>8 DEF LaidOut
  <2> QED BY <1>1, <1>4, <1>6, <2>3, <2>4, GoneKeeps
<1> QED BY <1>7, <1>8

LEMMA StartKeeps ==
  ASSUME IInv, NEW c \in Clients, NetplayStart(c)
  PROVE  IInv'
<1>1. /\ connected[c] /\ ~ MDFNnetplay[c]
      /\ MDFNnetplay' = [MDFNnetplay EXCEPT ![c] = TRUE] /\ receiving' = [receiving EXCEPT ![c] = TRUE]
      /\ Joined' = [Joined EXCEPT ![c] = FALSE]
      /\ LocalPlayersMask' = [LocalPlayersMask EXCEPT ![c] = {}]
      /\ PlayersList' = [PlayersList EXCEPT ![c] = <<>>]
      /\ up' = [up EXCEPT ![c] = Append(@, Joins)]
      /\ UNCHANGED <<connected, OurNick, mach, down, server, bounds, strayed>>
  BY DEF NetplayStart, SendAs, Joins
<1>2. LinkedAt(c) /\ Maps
  BY DEF IInv
<1>3. c \notin inGame /\ up[c] = <<>> /\ down[c] = <<>>
  BY <1>1, <1>2 DEF LinkedAt, Linked
<1>4. PICK yes, no, none, empty, v :
        yes = TRUE /\ no = FALSE /\ none = {} /\ empty = <<>> /\ v = <<Joins>>
  OBVIOUS
<1>5. IsMap(MDFNnetplay') /\ MDFNnetplay'[c] = yes /\ \A e \in Clients : e # c => MDFNnetplay'[e] = MDFNnetplay[e]
  <2>1. Replaced(MDFNnetplay, MDFNnetplay', c, yes)
    BY <1>1, <1>2, <1>4 DEF Maps, Replaced
  <2> QED BY ONLY <2>1, MapLemma
<1>6. IsMap(receiving') /\ receiving'[c] = yes /\ \A e \in Clients : e # c => receiving'[e] = receiving[e]
  <2>1. Replaced(receiving, receiving', c, yes)
    BY <1>1, <1>2, <1>4 DEF Maps, Replaced
  <2> QED BY ONLY <2>1, MapLemma
<1>7. IsMap(Joined') /\ Joined'[c] = no /\ \A e \in Clients : e # c => Joined'[e] = Joined[e]
  <2>1. Replaced(Joined, Joined', c, no)
    BY <1>1, <1>2, <1>4 DEF Maps, Replaced
  <2> QED BY ONLY <2>1, MapLemma
<1>8. IsMap(LocalPlayersMask') /\ \A e \in Clients : e # c => LocalPlayersMask'[e] = LocalPlayersMask[e]
  <2>1. Replaced(LocalPlayersMask, LocalPlayersMask', c, none)
    BY <1>1, <1>2, <1>4 DEF Maps, Replaced
  <2> QED BY ONLY <2>1, MapLemma
<1>9. IsMap(PlayersList') /\ PlayersList'[c] = empty /\ \A e \in Clients : e # c => PlayersList'[e] = PlayersList[e]
  <2>1. Replaced(PlayersList, PlayersList', c, empty)
    BY <1>1, <1>2, <1>4 DEF Maps, Replaced
  <2> QED BY ONLY <2>1, MapLemma
<1>10. IsMap(up') /\ up'[c] = v /\ \A e \in Clients : e # c => up'[e] = up[e]
  <2>1. Append(up[c], Joins) = v
    BY <1>3, <1>4
  <2>2. Replaced(up, up', c, v)
    BY <1>1, <1>2, <2>1 DEF Maps, Replaced, IsMap
  <2> QED BY ONLY <2>2, MapLemma
<1>11. UNCHANGED <<inGame, agreed, roster, nickOf, connected, OurNick, down>>
  BY <1>1 DEF server
<1>12. Linked(c \in inGame, TRUE, TRUE, TRUE, FALSE, empty, v, empty, agreed[c])
  <2>1. v \in Seq({Joins}) /\ {v[i] : i \in DOMAIN v} = {Joins}
    BY <1>4
  <2>2. IsSeq(v)
    BY <2>1 DEF IsSeq
  <2> QED BY <1>3, <1>4, <2>2, EmptyIsSeq DEF Linked
<1>13. LinkedAt(c)'
  <2>1. connected'[c] = TRUE
    <3>1. connected[c] \in BOOLEAN
      BY <1>2 DEF LinkedAt, Linked
    <3> QED BY <1>1, <3>1, <1>11
  <2>2. down'[c] = empty
    BY <1>3, <1>4, <1>11
  <2> QED BY <1>4, <1>5, <1>6, <1>7, <1>9, <1>10, <1>11, <1>12, <2>1, <2>2 DEF LinkedAt
<1>14. LaidOutAt(c)' /\ KnowsAt(c)'
  BY <1>3, <1>11 DEF LaidOutAt, LaidOut, KnowsAt
<1>15. Maps'
  BY <1>1, <1>2, <1>5, <1>6, <1>7, <1>8, <1>9, <1>10, <1>11 DEF Maps
<1>16. \A e \in Clients : e # c => Same(e)
  BY <1>5, <1>6, <1>7, <1>8, <1>9, <1>10, <1>11 DEF Same
<1>17. UNCHANGED server
  BY <1>1
<1> QED BY <1>13, <1>14, <1>15, <1>16, <1>17, OneClient

LEMMA SendLeaves ==
  \A c \in Clients : Maps => receiving = [receiving EXCEPT ![c] = receiving[c]]
BY DEF Maps, IsMap

LEMMA CommandKeeps ==
  ASSUME IInv, NEW c \in Clients, MDFN_QSimpleCommand(c) \/ MDFNI_LoadState(c) \/ MDFNI_NetplayLine(c)
  PROVE  IInv'
<1>1. Maps /\ LinkedAt(c)
  BY DEF IInv
<1>2. receiving[c] \in BOOLEAN
  BY <1>1 DEF LinkedAt, Linked
<1>3. receiving = [receiving EXCEPT ![c] = receiving[c]]
  BY <1>1, SendLeaves
<1>4. /\ Playing(c) /\ UNCHANGED <<connected, MDFNnetplay, receiving, seats, down, server>>
      /\ strayed' = strayed \/ strayed' = [strayed EXCEPT ![c] = TRUE]
      /\ mach' = mach \/ mach' = [mach EXCEPT ![c] = Saved] \/ LoadFails(c)
  BY DEF MDFN_QSimpleCommand, MDFNI_LoadState, MDFNI_NetplayLine, connection
<1>5. IsMap(mach') /\ IsMap(strayed')
  <2>1. PICK yes : yes = TRUE
    OBVIOUS
  <2>2. Replaced(mach, [mach EXCEPT ![c] = Saved], c, Saved)
        /\ Replaced(strayed, [strayed EXCEPT ![c] = yes], c, yes)
    BY <1>1 DEF Maps, Replaced
  <2>3. IsMap([mach EXCEPT ![c] = Saved]) /\ IsMap([strayed EXCEPT ![c] = yes])
    BY ONLY <2>2, MapLemma
  <2>4. LoadFails(c) => IsMap(mach')
    BY <1>1, FailedIsMap DEF Maps
  <2> QED BY <1>1, <1>4, <2>1, <2>3, <2>4 DEF Maps
<1>6. UNCHANGED <<connected, MDFNnetplay, seats, down, server>>
  BY <1>4
<1>7. receiving' = [receiving EXCEPT ![c] = receiving[c]]
  BY <1>3, <1>4
<1>8. ASSUME NEW cmd, NEW arg, SendCommand(c, cmd, arg), cmd \notin Leaves \cup {"LOGIN", "CTRL_CHANGE_ACK"},
             Asks([cmd |-> cmd, arg |-> arg, lpm |-> LocalPlayersMask[c]])
      PROVE  IInv'
  BY <1>2, <1>4, <1>5, <1>6, <1>7, <1>8, SendKeeps
<1>9. CASE MDFN_QSimpleCommand(c)
  BY <1>8, <1>9 DEF MDFN_QSimpleCommand, Leaves, Asks
<1>10. CASE MDFNI_LoadState(c)
  <2>1. CASE SendCommand(c, "LOADSTATE", Saved)
    BY <1>8, <2>1 DEF Leaves, Asks
  <2>2. CASE UNCHANGED up
    <3>1. \A e : Same(e)
      BY <1>4, <2>2 DEF seats, Same
    <3>2. LinkedAt(c)' /\ LaidOutAt(c)' /\ KnowsAt(c)'
      <4>1. LinkedAt(c) /\ LaidOutAt(c) /\ KnowsAt(c)
        BY DEF IInv
      <4>2. UNCHANGED <<inGame, nickOf, roster, agreed>>
        BY <1>4 DEF server
      <4> QED BY <3>1, <4>1, <4>2, Aside DEF Same
    <3>3. Maps'
      BY <1>1, <1>4, <1>5, <2>2 DEF Maps, seats, server
    <3> QED BY <1>4, <3>1, <3>2, <3>3, OneClient
  <2> QED BY <1>10, <2>1, <2>2 DEF MDFNI_LoadState
<1>11. CASE MDFNI_NetplayLine(c)
  <2>1. CASE \E cmd \in {"TAKE", "DROP", "DUPE"}, mask \in Masks : SendCommand(c, cmd, mask)
    <3>1. PICK cmd \in {"TAKE", "DROP", "DUPE"}, mask \in Masks : SendCommand(c, cmd, mask)
      BY <2>1
    <3> QED BY <1>8, <3>1 DEF Leaves, Asks
  <2>2. CASE \E a, b \in Ports : SendCommand(c, "SWAP", <<a, b>>)
    <3>1. PICK a \in Ports, b \in Ports : SendCommand(c, "SWAP", <<a, b>>)
      BY <2>2
    <3> QED BY <1>8, <3>1 DEF Leaves, Asks
  <2>3. CASE \E n \in Names : Joined[c] /\ SendCommand(c, "SETNICK", n)
    <3>1. PICK n \in Names : SendCommand(c, "SETNICK", n)
      BY <2>3
    <3> QED BY <1>8, <3>1 DEF Leaves, Asks
  <2> QED BY <1>11, <2>1, <2>2, <2>3 DEF MDFNI_NetplayLine
<1> QED BY <1>9, <1>10, <1>11

LEMMA InputKeeps ==
  ASSUME IInv, NEW c \in Clients, SendInput(c)
  PROVE  IInv'
<1>1. Maps
  BY DEF IInv
<1>2. Playing(c) /\ Joined[c]
  BY PlayingPlays DEF SendInput
<1>3. PICK buttons \in Buttons : SendCommand(c, "", Outgoing(LocalPlayersMask[c], buttons))
  BY <1>2 DEF SendInput
<1>4. PICK cmd, arg : cmd = "" /\ arg = Outgoing(LocalPlayersMask[c], buttons)
  OBVIOUS
<1>5. cmd \notin Leaves \cup {"LOGIN", "CTRL_CHANGE_ACK"}
      /\ Asks([cmd |-> cmd, arg |-> arg, lpm |-> LocalPlayersMask[c]])
  BY <1>4 DEF Leaves, Asks
<1>6. IsMap(mach') /\ IsMap(strayed') /\ UNCHANGED <<connected, MDFNnetplay, seats, down, server>>
  BY <1>1 DEF SendInput, Maps
<1>7. PICK r \in BOOLEAN : receiving' = [receiving EXCEPT ![c] = r]
  BY DEF SendInput
<1>8. SendCommand(c, cmd, arg)
  BY <1>3, <1>4
<1> QED BY <1>2, <1>5, <1>6, <1>7, <1>8, SendKeeps

LEMMA HeadIs == \A s : IsSeq(s) /\ s # <<>> => Head(s) = s[1]
BY SeqShape DEF IsSeq

LEMMA ReceiveKeeps ==
  ASSUME IInv, NEW c \in Clients, Receive(c)
  PROVE  IInv'
<1>1. LinkedAt(c) /\ LaidOutAt(c) /\ KnowsAt(c) /\ Maps
  BY DEF IInv
<1>2. receiving[c] /\ down[c] # <<>> /\ IsSeq(down[c])
  BY <1>1 DEF Receive, LinkedAt, Linked
<1> DEFINE msg == down[c][1]
<1>3. /\ down' = [down EXCEPT ![c] = Tail(@)]
      /\ mach' = [mach EXCEPT ![c] = Fed(@, msg)]
      /\ PlayersList' = [PlayersList EXCEPT ![c] = Listed(@, msg)]
      /\ OurNick' = [OurNick EXCEPT ![c] = Named(@, msg)]
      /\ LocalPlayersMask' = [LocalPlayersMask EXCEPT ![c] = Seated(@, msg)]
      /\ Joined' = [Joined EXCEPT ![c] = @ \/ msg.cmd = "YOUJOINED"]
      /\ Answer(c, msg)
      /\ receiving' = [receiving EXCEPT ![c] = msg.cmd # ""]
      /\ strayed' = [strayed EXCEPT ![c] = @ /\ msg.cmd # "LOADSTATE"]
      /\ UNCHANGED <<connected, MDFNnetplay, server>>
  BY <1>2, HeadIs DEF Receive
<1> HIDE DEF msg
<1>4. PICK e, m, list, nick, lpm, joined, recv, str :
        /\ e = Tail(down[c]) /\ m = Fed(mach[c], msg) /\ list = Listed(PlayersList[c], msg)
        /\ nick = Named(OurNick[c], msg) /\ lpm = Seated(LocalPlayersMask[c], msg)
        /\ joined = (Joined[c] \/ msg.cmd = "YOUJOINED") /\ recv = (msg.cmd # "")
        /\ str = (strayed[c] /\ msg.cmd # "LOADSTATE")
  OBVIOUS
<1>5. PICK ans, v : Answers(msg, ans, up[c], v, LocalPlayersMask[c]) /\ up' = [up EXCEPT ![c] = v]
  <2>1. CASE msg.cmd = "REQUEST_STATE"
    <3>1. up' = [up EXCEPT ![c] = Append(@, [cmd |-> "LOADSTATE", arg |-> mach[c], lpm |-> LocalPlayersMask[c]])]
      BY <1>3, <2>1 DEF Answer, SendCommand, SendAs
    <3>2. PICK ans : ans = [cmd |-> "LOADSTATE", arg |-> mach[c], lpm |-> LocalPlayersMask[c]]
      OBVIOUS
    <3>3. PICK v : v = Append(up[c], ans)
      OBVIOUS
    <3>4. up' = [up EXCEPT ![c] = v]
      BY <1>1, <3>1, <3>2, <3>3 DEF Maps, IsMap
    <3>5. Answers(msg, ans, up[c], v, LocalPlayersMask[c])
      BY <2>1, <3>2, <3>3 DEF Answers
    <3> QED BY <3>4, <3>5
  <2>2. CASE msg.cmd = "CTRL_CHANGE"
    <3>1. up' = [up EXCEPT ![c] = Append(@, [cmd |-> "CTRL_CHANGE_ACK", arg |-> msg.arg, lpm |-> LocalPlayersMask[c]])]
      BY <1>3, <2>2 DEF Answer, SendCommand, SendAs
    <3>2. PICK ans : ans = [cmd |-> "CTRL_CHANGE_ACK", arg |-> msg.arg, lpm |-> LocalPlayersMask[c]]
      OBVIOUS
    <3>3. PICK v : v = Append(up[c], ans)
      OBVIOUS
    <3>4. up' = [up EXCEPT ![c] = v]
      BY <1>1, <3>1, <3>2, <3>3 DEF Maps, IsMap
    <3>5. Answers(msg, ans, up[c], v, LocalPlayersMask[c])
      BY <2>2, <3>2, <3>3 DEF Answers
    <3> QED BY <3>4, <3>5
  <2>3. CASE msg.cmd = "YOUJOINED"
    <3>1. up' = [up EXCEPT ![c] = Append(@, [cmd |-> "SETFPS", arg |-> 0, lpm |-> msg.arg])]
      BY <1>3, <2>3 DEF Answer, SendCommand, SendAs
    <3>2. PICK ans : ans = [cmd |-> "SETFPS", arg |-> 0, lpm |-> msg.arg]
      OBVIOUS
    <3>3. PICK v : v = Append(up[c], ans)
      OBVIOUS
    <3>4. up' = [up EXCEPT ![c] = v]
      BY <1>1, <3>1, <3>2, <3>3 DEF Maps, IsMap
    <3>5. Answers(msg, ans, up[c], v, LocalPlayersMask[c])
      BY <2>3, <3>2, <3>3 DEF Answers
    <3> QED BY <3>4, <3>5
  <2>4. CASE msg.cmd \notin {"REQUEST_STATE", "CTRL_CHANGE", "YOUJOINED"}
    <3>1. up' = up
      BY <1>3, <2>4 DEF Answer
    <3>2. up' = [up EXCEPT ![c] = up[c]]
      BY <1>1, <3>1 DEF Maps, IsMap
    <3> QED BY <2>4, <3>2 DEF Answers
  <2> QED BY <2>1, <2>2, <2>3, <2>4
<1>6. IsMap(down') /\ down'[c] = e /\ \A x \in Clients : x # c => down'[x] = down[x]
  <2>1. Replaced(down, down', c, e)
    BY <1>1, <1>3, <1>4 DEF Maps, Replaced, IsMap
  <2> QED BY ONLY <2>1, MapLemma
<1>7. IsMap(mach')
  <2>1. Replaced(mach, mach', c, m)
    BY <1>1, <1>3, <1>4 DEF Maps, Replaced, IsMap
  <2> QED BY ONLY <2>1, MapLemma
<1>8. IsMap(PlayersList') /\ PlayersList'[c] = list /\ \A x \in Clients : x # c => PlayersList'[x] = PlayersList[x]
  <2>1. Replaced(PlayersList, PlayersList', c, list)
    BY <1>1, <1>3, <1>4 DEF Maps, Replaced, IsMap
  <2> QED BY ONLY <2>1, MapLemma
<1>9. IsMap(OurNick') /\ OurNick'[c] = nick /\ \A x \in Clients : x # c => OurNick'[x] = OurNick[x]
  <2>1. Replaced(OurNick, OurNick', c, nick)
    BY <1>1, <1>3, <1>4 DEF Maps, Replaced, IsMap
  <2> QED BY ONLY <2>1, MapLemma
<1>10. IsMap(LocalPlayersMask') /\ LocalPlayersMask'[c] = lpm
       /\ \A x \in Clients : x # c => LocalPlayersMask'[x] = LocalPlayersMask[x]
  <2>1. Replaced(LocalPlayersMask, LocalPlayersMask', c, lpm)
    BY <1>1, <1>3, <1>4 DEF Maps, Replaced, IsMap
  <2> QED BY ONLY <2>1, MapLemma
<1>11. IsMap(Joined') /\ Joined'[c] = joined /\ \A x \in Clients : x # c => Joined'[x] = Joined[x]
  <2>1. Replaced(Joined, Joined', c, joined)
    BY <1>1, <1>3, <1>4 DEF Maps, Replaced, IsMap
  <2> QED BY ONLY <2>1, MapLemma
<1>12. IsMap(receiving') /\ receiving'[c] = recv /\ \A x \in Clients : x # c => receiving'[x] = receiving[x]
  <2>1. Replaced(receiving, receiving', c, recv)
    BY <1>1, <1>3, <1>4 DEF Maps, Replaced, IsMap
  <2> QED BY ONLY <2>1, MapLemma
<1>13. IsMap(strayed')
  <2>1. Replaced(strayed, strayed', c, str)
    BY <1>1, <1>3, <1>4 DEF Maps, Replaced, IsMap
  <2> QED BY ONLY <2>1, MapLemma
<1>14. IsMap(up') /\ up'[c] = v /\ \A x \in Clients : x # c => up'[x] = up[x]
  <2>1. Replaced(up, up', c, v)
    BY <1>1, <1>5 DEF Maps, Replaced, IsMap
  <2> QED BY ONLY <2>1, MapLemma
<1>15. UNCHANGED <<inGame, agreed, roster, nickOf, connected, MDFNnetplay>>
  BY <1>3 DEF server
<1>16. Reads(c \in inGame, connected[c], MDFNnetplay[c], receiving[c], Joined[c], PlayersList[c],
             up[c], down[c], agreed[c], LocalPlayersMask[c], ans, v, e)
  BY <1>1, <1>2, <1>4, <1>5 DEF Reads, LinkedAt, LaidOutAt, msg
<1>17. /\ Linked(c \in inGame, connected[c], MDFNnetplay[c], msg.cmd # "", Joined[c] \/ msg.cmd = "YOUJOINED",
                 list, v, e, agreed[c])
       /\ LaidOut(c \in inGame, Joined[c] \/ msg.cmd = "YOUJOINED", Seated(LocalPlayersMask[c], msg), v, agreed[c])
  BY ONLY <1>16, DownTake DEF msg
<1>18. LinkedAt(c)'
  BY <1>4, <1>6, <1>8, <1>11, <1>12, <1>14, <1>15, <1>17 DEF LinkedAt
<1>19. LaidOutAt(c)'
  BY <1>4, <1>10, <1>11, <1>14, <1>15, <1>17 DEF LaidOutAt
<1>20. KnowsAt(c)'
  <2>1. SUFFICES ASSUME c \in inGame, connected[c] PROVE Knows(list, nick, lpm, e, roster, nickOf[c])
    BY <1>6, <1>8, <1>9, <1>10, <1>15 DEF KnowsAt
  <2>2. Knows(PlayersList[c], OurNick[c], LocalPlayersMask[c], down[c], roster, nickOf[c])
    BY <1>1, <2>1 DEF KnowsAt
  <2>3. PICK d, l, n, s, R, me : d = down[c] /\ l = PlayersList[c] /\ n = OurNick[c]
                              /\ s = LocalPlayersMask[c] /\ R = roster /\ me = nickOf[c]
    OBVIOUS
  <2>4. IsSeq(d) /\ d # <<>> /\ Knows(l, n, s, d, R, me) /\ e = Tail(d)
    BY <1>2, <1>4, <2>2, <2>3
  <2>5. Knows(Listed(l, d[1]), Named(n, d[1]), Seated(s, d[1]), e, R, me)
    BY ONLY <2>4, KnowsTail
  <2> QED BY <1>4, <2>3, <2>5 DEF msg
<1>21. Maps'
  BY <1>1, <1>6, <1>7, <1>8, <1>9, <1>10, <1>11, <1>12, <1>13, <1>14, <1>15 DEF Maps
<1>22. \A x \in Clients : x # c => Same(x)
  BY <1>6, <1>8, <1>9, <1>10, <1>11, <1>12, <1>14, <1>15 DEF Same
<1>23. UNCHANGED server
  BY <1>3
<1> QED BY <1>18, <1>19, <1>20, <1>21, <1>22, <1>23, OneClient

-----------------------------------------------------------------------------
(* The server's steps *)

\* A single message, and one before others.
LEMMA SeqOne ==
  ASSUME NEW a, NEW s, s = <<a>>
  PROVE  IsSeq(s) /\ s # <<>> /\ Len(s) = 1 /\ s[1] = a /\ Tail(s) = <<>> /\ DOMAIN s = 1 .. 1
<1>1. s \in Seq({a}) /\ {s[i] : i \in DOMAIN s} = {a} /\ Len(s) = 1 /\ s[1] = a
  OBVIOUS
<1>2. IsSeq(s) /\ s # <<>>
  BY <1>1, EmptyIsSeq DEF IsSeq
<1>3. IsSeq(Tail(s)) /\ Len(Tail(s)) = Len(s) - 1
  BY ONLY <1>2, SeqTail
<1>4. PICK t : t = Tail(s)
  OBVIOUS
<1>5. IsSeq(t) /\ Len(t) = 0
  BY ONLY <1>1, <1>3, <1>4
<1>6. t = <<>>
  BY ONLY <1>5 DEF IsSeq
<1> QED BY <1>1, <1>2, <1>4, <1>6

Leads(a, t, u) == IsSeq(t) /\ u = <<a>> \o t

LEMMA SeqCons ==
  ASSUME NEW a, NEW t, NEW u, Leads(a, t, u)
  PROVE  /\ IsSeq(u) /\ u # <<>> /\ u[1] = a /\ Tail(u) = t /\ Len(u) = Len(t) + 1
         /\ \A i \in 1 .. Len(t) : u[i + 1] = t[i]
<1>0. PICK s : s = <<a>>
  OBVIOUS
<1>1. IsSeq(s) /\ Len(s) = 1 /\ s[1] = a
  BY <1>0, SeqOne
<1>2. IsSeq(t) /\ Len(t) \in Nat
  BY SeqShape DEF Leads
<1>2a. u = s \o t
  BY <1>0 DEF Leads
<1>3. /\ IsSeq(u) /\ Len(u) = 1 + Len(t) /\ u[1] = a
      /\ \A i \in 1 .. Len(t) : u[1 + i] = t[i]
  <2>1. /\ IsSeq(s \o t) /\ Len(s \o t) = Len(s) + Len(t)
        /\ \A i \in 1 .. Len(s) : (s \o t)[i] = s[i]
        /\ \A i \in 1 .. Len(t) : (s \o t)[Len(s) + i] = t[i]
    <3>1. IsSeq(s) /\ IsSeq(t)
      BY <1>1, <1>2
    <3> QED BY ONLY <3>1, SeqConcat
  <2> QED BY ONLY <1>1, <1>2, <1>2a, <2>1
<1>4. u # <<>>
  BY <1>2, <1>3, EmptyIsSeq
<1>5. PICK w : w = Tail(u)
  OBVIOUS
<1>6. IsSeq(w) /\ Len(w) = Len(t) /\ \A i \in 1 .. Len(t) : w[i] = u[i + 1]
  <2>1. /\ IsSeq(Tail(u)) /\ Len(Tail(u)) = Len(u) - 1
        /\ \A i \in 1 .. (Len(u) - 1) : Tail(u)[i] = u[i + 1]
    BY ONLY <1>3, <1>4, SeqTail
  <2>2. (1 + Len(t)) - 1 = Len(t)
    BY <1>2
  <2> QED BY ONLY <1>3, <1>5, <2>1, <2>2
<1>7. \A i \in 1 .. Len(t) : u[i + 1] = t[i]
  BY <1>2, <1>3
<1>8. w = [i \in 1 .. Len(t) |-> w[i]] /\ t = [i \in 1 .. Len(t) |-> t[i]]
  BY <1>2, <1>6, SeqShape
<1>9. w = t
  BY <1>6, <1>7, <1>8
<1> QED BY <1>2, <1>3, <1>4, <1>5, <1>7, <1>9

LEMMA KnowsNone ==
  ASSUME NEW R, NEW n, NEW s, s = <<>>
  PROVE  Knows(R, n, R[n], s, R, n)
BY FoldNone DEF Knows

LEMMA KnowsOne ==
  ASSUME NEW R, NEW n, NEW x, NEW msg, NEW s, s = <<msg>>, NEW R2, NEW n2,
         Listed(R, msg) = R2, Named(n, msg) = n2, Seated(x, msg) = R2[n2]
  PROVE  Knows(R, n, x, s, R2, n2)
<1>1. IsSeq(s) /\ s # <<>> /\ s[1] = msg /\ Tail(s) = <<>>
  BY SeqOne
<1>2. PICK e : e = Tail(s)
  OBVIOUS
<1>3. Knows(R2, n2, R2[n2], e, R2, n2)
  BY <1>1, <1>2, KnowsNone
<1>4. Knows(Listed(R, s[1]), Named(n, s[1]), Seated(x, s[1]), e, R2, n2)
  BY <1>1, <1>3
<1> QED BY <1>1, <1>2, <1>4, KnowsTail

\* What the server sends tells a client what the server knows.
Hearing(e) ==
  \/ down'[e] = down[e] /\ (e \in inGame /\ connected[e] => roster' = roster /\ nickOf'[e] = nickOf[e])
  \/ /\ e \in inGame /\ connected[e]
     /\ \E m : /\ down'[e] = down[e] \o m /\ IsSeq(m)
               /\ \A i \in DOMAIN m : m[i].cmd # "YOUJOINED"
               /\ Knows(roster, nickOf[e], roster[nickOf[e]], m, roster', nickOf'[e])

LEMMA HearKeeps ==
  ASSUME NEW e, KnowsAt(e), Hearing(e), (e \in inGame) <=> (e \in inGame'),
         NEW u, u = up'[e], NEW ag, ag = agreed'[e],
         Linked(e \in inGame, connected[e], MDFNnetplay[e], receiving[e], Joined[e], PlayersList[e],
                u, down[e], ag),
         LaidOut(e \in inGame, Joined[e], LocalPlayersMask[e], u, ag),
         UNCHANGED <<connection, seats>>
  PROVE  LinkedAt(e)' /\ LaidOutAt(e)' /\ KnowsAt(e)'
<1>1. UNCHANGED <<connected, MDFNnetplay, receiving, Joined, PlayersList, LocalPlayersMask, OurNick>>
  BY DEF connection, seats
<1>2. (e \in inGame) = (e \in inGame')
  OBVIOUS
<1>3. LaidOutAt(e)'
  BY <1>1, <1>2 DEF LaidOutAt
<1>4. CASE down'[e] = down[e] /\ (e \in inGame /\ connected[e] => roster' = roster /\ nickOf'[e] = nickOf[e])
  <2>1. LinkedAt(e)'
    BY <1>1, <1>2, <1>4 DEF LinkedAt
  <2>2. KnowsAt(e)'
    BY <1>1, <1>4 DEF KnowsAt
  <2> QED BY <1>3, <2>1, <2>2
<1>5. ASSUME e \in inGame, connected[e], NEW m, down'[e] = down[e] \o m, IsSeq(m),
             \A i \in DOMAIN m : m[i].cmd # "YOUJOINED",
             Knows(roster, nickOf[e], roster[nickOf[e]], m, roster', nickOf'[e])
      PROVE  LinkedAt(e)' /\ KnowsAt(e)'
  <2>1. PICK d : d = down'[e]
    OBVIOUS
  <2>2. IsTold(e \in inGame, connected[e], MDFNnetplay[e], receiving[e], Joined[e], PlayersList[e],
               u, down[e], ag, m, d)
    BY <1>5, <2>1 DEF IsTold
  <2>3. Linked(e \in inGame, connected[e], MDFNnetplay[e], receiving[e], Joined[e], PlayersList[e],
               u, d, ag)
    BY ONLY <2>2, DownAppend
  <2>4. LinkedAt(e)'
    BY <1>1, <1>2, <2>1, <2>3 DEF LinkedAt
  <2>5. Learns(PlayersList[e], OurNick[e], LocalPlayersMask[e], down[e], roster, nickOf[e], m,
               roster', nickOf'[e], d)
    BY <1>5, <2>1 DEF Learns, KnowsAt, Linked
  <2>6. Knows(PlayersList[e], OurNick[e], LocalPlayersMask[e], d, roster', nickOf'[e])
    BY ONLY <2>5, KnowsAppend
  <2>7. KnowsAt(e)'
    BY <1>1, <2>1, <2>6 DEF KnowsAt
  <2> QED BY <2>4, <2>7
<1> QED BY <1>3, <1>4, <1>5 DEF Hearing

\* The maps on the server's side.
LEMMA TakeIs ==
  ASSUME Maps, NEW c \in Clients, Take(c), NEW v, v = Tail(up[c])
  PROVE  IsMap(up') /\ up'[c] = v /\ \A e \in Clients : e # c => up'[e] = up[e]
<1>1. Replaced(up, up', c, v)
  BY DEF Maps, Replaced, IsMap, Take
<1> QED BY ONLY <1>1, MapLemma

\* The server has served a message that is not a last one.
LEMMA ServedKeeps ==
  ASSUME IInv, NEW c \in inGame, up[c] # <<>>, up[c][1].cmd \notin Leaves, Take(c),
         IsMap(agreed'), agreed'[c] = Acked(agreed[c], up[c][1]),
         \A e \in Clients : e # c => agreed'[e] = agreed[e],
         inGame' = inGame, Served', IsMap(down'), \A e \in Clients : Hearing(e),
         UNCHANGED <<clients, strayed>>
  PROVE  IInv'
<1>1. c \in Clients /\ Maps
  BY DEF IInv, Maps
<1>2. PICK v : v = Tail(up[c])
  OBVIOUS
<1>3. IsMap(up') /\ up'[c] = v /\ \A e \in Clients : e # c => up'[e] = up[e]
  BY <1>1, <1>2, TakeIs
<1>4. UNCHANGED <<connection, seats, mach>>
  BY DEF clients
<1>5. Maps'
  BY <1>1, <1>3, <1>4 DEF Maps, connection, seats
<1>6. ASSUME NEW e \in Clients PROVE LinkedAt(e)' /\ LaidOutAt(e)' /\ KnowsAt(e)'
  <2>1. LinkedAt(e) /\ LaidOutAt(e) /\ KnowsAt(e) /\ Hearing(e)
    BY DEF IInv
  <2>2. PICK u, ag : u = up'[e] /\ ag = agreed'[e]
    OBVIOUS
  <2>3. /\ Linked(e \in inGame, connected[e], MDFNnetplay[e], receiving[e], Joined[e], PlayersList[e],
                  u, down[e], ag)
        /\ LaidOut(e \in inGame, Joined[e], LocalPlayersMask[e], u, ag)
    <3>1. CASE e # c
      BY <1>3, <2>1, <2>2, <3>1 DEF LinkedAt, LaidOutAt
    <3>2. CASE e = c
      <4>1. Takes(e \in inGame, connected[e], MDFNnetplay[e], receiving[e], Joined[e], PlayersList[e],
                  up[e], down[e], agreed[e], LocalPlayersMask[e], u, ag)
        BY <1>2, <1>3, <2>1, <2>2, <3>2 DEF Takes, LinkedAt, LaidOutAt
      <4> QED BY ONLY <4>1, UpTake
    <3> QED BY <3>1, <3>2
  <2>4. (e \in inGame) <=> (e \in inGame')
    OBVIOUS
  <2> QED BY <1>4, <2>1, <2>2, <2>3, <2>4, HearKeeps
<1> QED BY <1>5, <1>6 DEF IInv

\* Everyone is told the same.
LEMMA TellOne ==
  ASSUME IInv, NEW msg, Tell(<<msg>>), msg.cmd # "YOUJOINED", roster' = Listed(roster, msg),
         \A e \in inGame : connected[e] => /\ nickOf'[e] = Named(nickOf[e], msg)
                                           /\ Seated(roster[nickOf[e]], msg) = roster'[nickOf'[e]]
  PROVE  IsMap(down') /\ \A e \in Clients : Hearing(e)
<1>1. PICK m : m = <<msg>>
  OBVIOUS
<1>2. IsSeq(m) /\ DOMAIN m = 1 .. 1 /\ m[1] = msg
  BY <1>1, SeqOne
<1>3. down' = [e \in Clients |-> IF e \in inGame THEN Hears(e, m) ELSE down[e]]
  BY <1>1 DEF Tell
<1>4. IsMap(down')
  BY <1>3 DEF IsMap
<1>5. ASSUME NEW e \in Clients PROVE Hearing(e)
  <2>1. CASE e \in inGame /\ connected[e]
    <3>1. down'[e] = down[e] \o m
      BY <1>3, <2>1 DEF Hears
    <3>2. \A i \in DOMAIN m : m[i].cmd # "YOUJOINED"
      BY <1>2
    <3>3. PICK R2, n2, n, x : R2 = roster' /\ n2 = nickOf'[e] /\ n = nickOf[e] /\ x = roster[n]
      OBVIOUS
    <3>4. Listed(roster, msg) = R2 /\ Named(n, msg) = n2 /\ Seated(x, msg) = R2[n2]
      BY <2>1, <3>3
    <3>5. Knows(roster, n, x, m, R2, n2)
      BY ONLY <1>1, <3>4, KnowsOne
    <3> QED BY <1>2, <2>1, <3>1, <3>2, <3>3, <3>5 DEF Hearing
  <2>2. CASE e \in inGame /\ ~ connected[e]
    <3>1. down'[e] = <<>>
      BY <1>3, <2>2 DEF Hears
    <3>2. down[e] = <<>>
      BY <2>2 DEF IInv, LinkedAt, Linked
    <3> QED BY <2>2, <3>1, <3>2 DEF Hearing
  <2>3. CASE e \notin inGame
    BY <1>3, <2>3 DEF Hearing
  <2> QED BY <2>1, <2>2, <2>3
<1> QED BY <1>4, <1>5

LEMMA FrameKeeps ==
  ASSUME IInv, Frame
  PROVE  IInv'
<1>1. UNCHANGED <<clients, server, up, strayed>>
  BY DEF Frame
<1>2. UNCHANGED <<connection, seats, mach, inGame, nickOf, roster, agreed, up, strayed>>
  BY <1>1 DEF clients, server
<1>3. PICK msg : msg = Msg("", UNION {pressed[c] : c \in inGame}, "")
  OBVIOUS
<1>4. Tell(<<msg>>)
  BY <1>3 DEF Frame
<1>5. msg.cmd # "YOUJOINED" /\ \A x : Listed(x, msg) = x /\ Named(x, msg) = x /\ Seated(x, msg) = x
  <2>1. msg.cmd \in {"", "RESET", "LOADSTATE"} /\ msg.cmd # "YOUJOINED"
    BY <1>3 DEF Msg
  <2>2. \A x : Listed(x, msg) = x /\ Named(x, msg) = x /\ Seated(x, msg) = x
    BY <2>1 DEF Listed, Named, Seated
  <2> QED BY <2>1, <2>2
<1>6. IsMap(down') /\ \A e \in Clients : Hearing(e)
  BY <1>2, <1>4, <1>5, TellOne
<1>7. Served'
  BY <1>2 DEF IInv, Served
<1>8. Maps'
  BY <1>2, <1>6 DEF IInv, Maps, connection, seats
<1>9. ASSUME NEW e \in Clients PROVE LinkedAt(e)' /\ LaidOutAt(e)' /\ KnowsAt(e)'
  <2>1. LinkedAt(e) /\ LaidOutAt(e) /\ KnowsAt(e) /\ Hearing(e)
    BY <1>6 DEF IInv
  <2>2. PICK u, ag : u = up'[e] /\ ag = agreed'[e]
    OBVIOUS
  <2>3. /\ Linked(e \in inGame, connected[e], MDFNnetplay[e], receiving[e], Joined[e], PlayersList[e],
                  u, down[e], ag)
        /\ LaidOut(e \in inGame, Joined[e], LocalPlayersMask[e], u, ag)
    BY <1>2, <2>1, <2>2 DEF LinkedAt, LaidOutAt
  <2>4. (e \in inGame) <=> (e \in inGame')
    BY <1>2
  <2> QED BY <1>2, <2>1, <2>2, <2>3, <2>4, HearKeeps
<1> QED BY <1>7, <1>8, <1>9 DEF IInv

\* A message that changes nothing but whom the server hears, or the machines.
LEMMA PlainKeeps ==
  ASSUME IInv, NEW c \in inGame, up[c] # <<>>, Take(c), UNCHANGED <<clients, strayed>>,
         \/ Input(c, up[c][1]) \/ Relay(c, up[c][1]) \/ Acknowledged(c, up[c][1])
         \/ (up[c][1].cmd = "SETFPS" /\ UNCHANGED <<down, server>>)
  PROVE  IInv'
<1> DEFINE msg == up[c][1]
<1>1. c \in Clients /\ Maps
  BY DEF IInv, Maps
<1>2. UNCHANGED <<inGame, nickOf, roster>> /\ msg.cmd \notin Leaves
  BY DEF Input, Relay, Acknowledged, server, Leaves
<1>3. agreed' = [agreed EXCEPT ![c] = Acked(agreed[c], msg)]
  <2>1. CASE Acknowledged(c, msg)
    BY <2>1 DEF Acknowledged, Acked
  <2>2. CASE msg.cmd # "CTRL_CHANGE_ACK" /\ agreed' = agreed
    BY <1>1, <2>2 DEF Acked, Maps, IsMap
  <2> QED BY <2>1, <2>2 DEF Input, Relay, server
<1> HIDE DEF msg
<1>4. PICK ag : ag = Acked(agreed[c], msg)
  OBVIOUS
<1>5. IsMap(agreed') /\ agreed'[c] = ag /\ \A e \in Clients : e # c => agreed'[e] = agreed[e]
  <2>1. Replaced(agreed, agreed', c, ag)
    BY <1>1, <1>3, <1>4 DEF Maps, Replaced
  <2> QED BY ONLY <2>1, MapLemma
<1>6. IsMap(down') /\ \A e \in Clients : Hearing(e)
  <2>1. CASE Relay(c, msg)
    <3>1. PICK m : m = Msg(msg.cmd, msg.arg, "")
      OBVIOUS
    <3>2. Tell(<<m>>) /\ msg.cmd \in {"", "RESET", "LOADSTATE"}
      BY <2>1, <3>1 DEF Relay
    <3>3. m.cmd # "YOUJOINED" /\ \A x : Listed(x, m) = x /\ Named(x, m) = x /\ Seated(x, m) = x
      <4>1. m.cmd \in {"", "RESET", "LOADSTATE"} /\ m.cmd # "YOUJOINED"
        BY <3>1, <3>2 DEF Msg
      <4>2. \A x : Listed(x, m) = x /\ Named(x, m) = x /\ Seated(x, m) = x
        BY <4>1 DEF Listed, Named, Seated
      <4> QED BY <4>1, <4>2
    <3> QED BY <1>2, <3>2, <3>3, TellOne
  <2>2. CASE down' = down
    BY <1>1, <1>2, <2>2 DEF Maps, Hearing
  <2> QED BY <2>1, <2>2 DEF Input, Acknowledged, msg
<1>7. Served'
  BY <1>2 DEF IInv, Served
<1> QED BY <1>1, <1>2, <1>4, <1>5, <1>6, <1>7, ServedKeeps DEF msg

LEMMA NoneBefore ==
  ASSUME NEW s, s = <<>>, NEW t, IsSeq(t)
  PROVE  s \o t = t
<1>1. IsSeq(s) /\ Len(s) = 0
  BY EmptyIsSeq
<1>2. PICK u : u = s \o t
  OBVIOUS
<1>3. IsSeq(u) /\ Len(u) = Len(t) /\ \A i \in 1 .. Len(t) : u[i] = t[i]
  <2>1. IsSeq(s)
    BY <1>1
  <2>2. /\ IsSeq(s \o t) /\ Len(s \o t) = Len(s) + Len(t)
        /\ \A i \in 1 .. Len(t) : (s \o t)[Len(s) + i] = t[i]
    BY ONLY <2>1, IsSeq(t), SeqConcat
  <2>3. Len(t) \in Nat
    BY SeqShape
  <2>4. Len(s) + Len(t) = Len(t) /\ \A i \in 1 .. Len(t) : Len(s) + i = i
    BY <1>1, <2>3
  <2> QED BY ONLY <1>2, <2>2, <2>4
<1>4. u = [i \in 1 .. Len(t) |-> u[i]] /\ t = [i \in 1 .. Len(t) |-> t[i]]
  BY <1>3, SeqShape
<1>5. u = t
  BY <1>3, <1>4
<1> QED BY <1>2, <1>5

\* What a set is made a sequence of.
LEMMA SetToSeqIs ==
  ASSUME NEW S, IsFiniteSet(S), NEW s, s = SetToSeq(S)
  PROVE  /\ IsSeq(s) /\ \A i \in DOMAIN s : s[i] \in S
         /\ \A x \in S : \E i \in DOMAIN s : s[i] = x
<1> DEFINE n == Cardinality(S)
<1>1. n \in Nat /\ ExistsBijection(1 .. n, S)
  BY FS_CardinalityType
<1>2. PICK f : f \in [1 .. n -> S] /\ IsInjective(f)
  <2>1. Bijection(1 .. n, S) # {}
    BY <1>1 DEF ExistsBijection
  <2>2. PICK f : f \in Bijection(1 .. n, S)
    BY <2>1
  <2>3. f \in Injection(1 .. n, S)
    BY <2>2 DEF Bijection
  <2> QED BY <2>3 DEF Injection
<1>3. s \in [1 .. n -> S] /\ IsInjective(s)
  BY <1>2 DEF SetToSeq
<1>4. s \in Injection(1 .. n, S)
  BY <1>3 DEF Injection
<1>5. IsFiniteSet(1 .. n) /\ Cardinality(1 .. n) = n
  BY <1>1, FS_Interval
<1>6. s \in Surjection(1 .. n, S)
  BY <1>4, <1>5, FS_Injection
<1>7. \A x \in S : \E i \in 1 .. n : s[i] = x
  BY <1>6 DEF Surjection
<1> HIDE DEF n
<1>8. IsSeq(s)
  <2>1. s = [i \in 1 .. n |-> s[i]]
    BY <1>3
  <2> HIDE <1>3
  <2> QED BY ONLY <1>1, <2>1, SeqFromDomain
<1> QED BY <1>3, <1>7, <1>8

\* The players are told one by one what some of them hold now.
LEMMA FoldNotifs ==
  ASSUME NEW R, NEW R2, NEW s, IsSeq(s), NEW D, R = [n \in D |-> R[n]], R2 = [n \in D |-> R2[n]],
         \A i \in DOMAIN s : s[i].cmd = "NOTIF" /\ s[i].nick \in D /\ s[i].arg = R2[s[i].nick],
         \A n \in D : R2[n] = R[n] \/ \E i \in DOMAIN s : s[i].nick = n
  PROVE  Fold("listed", R, s) = R2
<1> DEFINE m == Len(s)
           at(k) == [n \in D |-> IF \E i \in 1 .. k : s[i].nick = n THEN R2[n] ELSE R[n]]
           q == [k \in 0 .. m |-> at(k)]
<1>1. m \in Nat /\ DOMAIN s = 1 .. m
  BY SeqShape
<1>2. at(0) = R
  <2>1. \A n \in D : ~ \E i \in 1 .. 0 : s[i].nick = n
    OBVIOUS
  <2> QED BY <2>1
<1>3. at(m) = R2
  <2>1. \A n \in D : (IF \E i \in 1 .. m : s[i].nick = n THEN R2[n] ELSE R[n]) = R2[n]
    BY <1>1
  <2> QED BY <2>1
<1>4. ASSUME NEW k \in 1 .. m PROVE at(k) = Listed(at(k - 1), s[k])
  <2>1. k \in DOMAIN s /\ k \in Nat /\ k >= 1
    BY <1>1
  <2> DEFINE old == at(k - 1)
  <2>2. DOMAIN old = D
    OBVIOUS
  <2>3. \A n \in D : (\E i \in 1 .. k : s[i].nick = n) <=> ((\E i \in 1 .. (k - 1) : s[i].nick = n) \/ s[k].nick = n)
    <3>1. \A i : i \in 1 .. k <=> i \in 1 .. (k - 1) \/ i = k
      BY <2>1
    <3> QED BY <3>1
  <2>4. Listed(old, s[k]) = [old EXCEPT ![s[k].nick] = s[k].arg]
    BY <2>1, <2>2 DEF Listed
  <2>5. [old EXCEPT ![s[k].nick] = s[k].arg] = [n \in D |-> IF n = s[k].nick THEN s[k].arg ELSE old[n]]
    BY <2>1, <2>2
  <2>6. \A n \in D : (IF n = s[k].nick THEN s[k].arg ELSE old[n])
                       = IF \E i \in 1 .. k : s[i].nick = n THEN R2[n] ELSE R[n]
    BY <2>1, <2>3
  <2> HIDE DEF old
  <2>7. [n \in D |-> IF n = s[k].nick THEN s[k].arg ELSE old[n]]
          = [n \in D |-> IF \E i \in 1 .. k : s[i].nick = n THEN R2[n] ELSE R[n]]
    BY <2>6
  <2>8. Listed(old, s[k]) = at(k)
    BY <2>4, <2>5, <2>7
  <2> QED BY <2>8 DEF old
<1> HIDE DEF at
<1>5. q[0] = R /\ q[m] = R2
  BY <1>1, <1>2, <1>3
<1>6. ASSUME NEW k \in 1 .. m PROVE q[k] = Does("listed", q[k - 1], s[k])
  <2>1. k \in 0 .. m /\ k - 1 \in 0 .. m
    BY <1>1
  <2> QED BY <1>4, <2>1 DEF Does
<1> HIDE DEF q, m
<1>7. Trace("listed", R, s, m, q)
  BY <1>1, <1>5, <1>6 DEF Trace
<1>8. Fold("listed", R, s) = q[m]
  BY ONLY <1>7, TraceFold
<1> QED BY <1>5, <1>8

\* The list with one more on it.
WithOne(R, nick, mask) == [n \in {nick} \cup DOMAIN R |-> IF n = nick THEN mask ELSE R[n]]

\* The others on the list, named in any order.
Joining(R, s, nick, mask, base) ==
  /\ IsSeq(s) /\ nick \notin DOMAIN R /\ base = [n \in {nick} |-> mask]
  /\ \A i \in DOMAIN s : s[i].cmd = "PLAYERJOINED" /\ s[i].nick \in DOMAIN R /\ s[i].arg = R[s[i].nick]
  /\ \A n \in DOMAIN R : \E i \in DOMAIN s : s[i].nick = n

\* A new one is told one by one who the others are.
LEMMA FoldJoins ==
  ASSUME NEW R, NEW s, NEW nick, NEW mask, NEW base, Joining(R, s, nick, mask, base)
  PROVE  Fold("listed", base, s) = WithOne(R, nick, mask)
<1>0. /\ IsSeq(s) /\ nick \notin DOMAIN R /\ base = [n \in {nick} |-> mask]
      /\ \A i \in DOMAIN s : s[i].cmd = "PLAYERJOINED" /\ s[i].nick \in DOMAIN R /\ s[i].arg = R[s[i].nick]
      /\ \A n \in DOMAIN R : \E i \in DOMAIN s : s[i].nick = n
  BY DEF Joining
<1> USE <1>0
<1> DEFINE m == Len(s)
           known(k) == {nick} \cup {s[i].nick : i \in 1 .. k}
           at(k) == [n \in known(k) |-> IF n = nick THEN mask ELSE R[n]]
           q == [k \in 0 .. m |-> at(k)]
<1>1. m \in Nat /\ DOMAIN s = 1 .. m
  BY SeqShape
<1>2. at(0) = base
  <2>1. known(0) = {nick}
    OBVIOUS
  <2> QED BY <2>1
<1>3. known(m) = {nick} \cup DOMAIN R
  BY <1>1
<1>4. ASSUME NEW k \in 1 .. m PROVE at(k) = Listed(at(k - 1), s[k])
  <2>1. k \in DOMAIN s /\ k \in Nat /\ k >= 1
    BY <1>1
  <2> DEFINE old == at(k - 1)
             new == s[k].nick
  <2>2. DOMAIN old = known(k - 1)
    OBVIOUS
  <2>3. known(k) = known(k - 1) \cup {new}
    <3>1. \A i : i \in 1 .. k <=> i \in 1 .. (k - 1) \/ i = k
      BY <2>1
    <3> QED BY <3>1
  <2>4. Listed(old, s[k]) = Put(old, new, s[k].arg)
    BY <2>1 DEF Listed
  <2>5. Put(old, new, s[k].arg) = [n \in known(k - 1) \cup {new} |-> IF n = new THEN s[k].arg ELSE old[n]]
    BY <2>2 DEF Put
  <2>6. new # nick /\ s[k].arg = R[new]
    BY <2>1
  <2>7. \A n \in known(k - 1) : old[n] = IF n = nick THEN mask ELSE R[n]
    OBVIOUS
  <2> HIDE DEF known, old, new
  <2>8. \A n \in known(k - 1) \cup {new} : (IF n = new THEN s[k].arg ELSE old[n]) = IF n = nick THEN mask ELSE R[n]
    BY <2>6, <2>7
  <2> QED BY <2>3, <2>4, <2>5, <2>8 DEF old
<1> HIDE DEF at
<1>5. q[0] = base /\ q[m] = at(m)
  BY <1>1, <1>2
<1>6. ASSUME NEW k \in 1 .. m PROVE q[k] = Does("listed", q[k - 1], s[k])
  <2>1. k \in 0 .. m /\ k - 1 \in 0 .. m
    BY <1>1
  <2> QED BY <1>4, <2>1 DEF Does
<1> HIDE DEF q, m, known
<1>7. Trace("listed", base, s, m, q)
  BY <1>1, <1>5, <1>6 DEF Trace
<1>8. Fold("listed", base, s) = q[m]
  BY ONLY <1>7, TraceFold
<1>9. at(m) = [n \in {nick} \cup DOMAIN R |-> IF n = nick THEN mask ELSE R[n]]
  BY <1>3 DEF at
<1> HIDE <1>0
<1> QED BY ONLY <1>5, <1>8, <1>9 DEF WithOne

\* Whoever's controllers change is told of them, and everyone of what has happened.
Seating(dealt, msgs) ==
  /\ dealt \in [inGame -> SUBSET Ports] /\ TellHeld(dealt, msgs) /\ UNCHANGED <<inGame, nickOf>>
  /\ IsSeq(msgs) /\ \A i \in DOMAIN msgs : msgs[i].cmd \notin {"YOUJOINED", "CTRL_CHANGE", "NICKCHANGED"}

\* What everyone holds then.
LEMMA HeldAre ==
  ASSUME IInv, NEW dealt, NEW msgs, Seating(dealt, msgs)
  PROVE  /\ roster' = [n \in DOMAIN roster |-> roster'[n]]
         /\ \A e \in inGame : nickOf[e] \in DOMAIN roster /\ roster'[nickOf[e]] = dealt[e]
         /\ \A n \in DOMAIN roster : \E e \in inGame : n = nickOf[e]
         /\ Served'
<1>1. /\ nickOf \in [inGame -> Names] /\ \A c, d \in inGame : nickOf[c] = nickOf[d] => c = d
      /\ roster \in [{nickOf[c] : c \in inGame} -> SUBSET Ports]
  BY DEF IInv, Served
<1>2. dealt \in [inGame -> SUBSET Ports] /\ UNCHANGED <<inGame, nickOf>>
      /\ roster' = [n \in DOMAIN roster |-> dealt[CHOOSE c \in inGame : nickOf[c] = n]]
  BY DEF Seating, TellHeld
<1>3. DOMAIN roster = {nickOf[c] : c \in inGame}
  BY <1>1
<1>4. ASSUME NEW e \in inGame PROVE nickOf[e] \in DOMAIN roster /\ roster'[nickOf[e]] = dealt[e]
  <2>1. nickOf[e] \in DOMAIN roster
    BY <1>3
  <2>2. (CHOOSE c \in inGame : nickOf[c] = nickOf[e]) = e
    BY <1>1
  <2> QED BY <1>2, <2>1, <2>2
<1>5. roster' = [n \in DOMAIN roster |-> roster'[n]]
  BY <1>2
<1>6. \A n \in DOMAIN roster : \E e \in inGame : n = nickOf[e]
  BY <1>3
<1>7. \A n \in DOMAIN roster : roster'[n] \in SUBSET Ports
  BY <1>2, <1>4, <1>6
<1>8. roster' \in [{nickOf[c] : c \in inGame} -> SUBSET Ports]
  <2>1. roster' \in [DOMAIN roster -> SUBSET Ports]
    BY <1>5, <1>7
  <2> QED BY <1>3, <2>1
<1>9. Served'
  BY <1>1, <1>2, <1>8 DEF Served
<1> QED BY <1>4, <1>5, <1>6, <1>9

LEMMA HeldTold ==
  ASSUME IInv, NEW dealt, NEW msgs, Seating(dealt, msgs), Fold("listed", roster, msgs) = roster'
  PROVE  Served' /\ IsMap(down') /\ \A e \in Clients : Hearing(e)
<1>1. /\ IsSeq(msgs) /\ \A i \in DOMAIN msgs : msgs[i].cmd \notin {"YOUJOINED", "CTRL_CHANGE", "NICKCHANGED"}
      /\ down' = [c \in Clients |->
           IF c \notin inGame THEN down[c]
           ELSE Hears(c, (IF dealt[c] = Held[c] THEN <<>> ELSE <<Msg("CTRL_CHANGE", dealt[c], "")>>) \o msgs)]
      /\ nickOf' = nickOf
  BY DEF Seating, TellHeld
<1>2. Served' /\ \A e \in inGame : nickOf[e] \in DOMAIN roster /\ roster'[nickOf[e]] = dealt[e]
  BY HeldAre
<1>3. IsMap(down')
  BY <1>1 DEF IsMap
<1>4. Steady("named", msgs) /\ Steady("seated", msgs)
  BY <1>1 DEF Steady, Does, Named, Seated
<1>5. /\ \A x : Fold("named", x, msgs) = x
      /\ \A x : Fold("seated", x, msgs) = x
  BY <1>1, <1>4, FoldSteady
<1>6. ASSUME NEW e \in Clients PROVE Hearing(e)
  <2>1. CASE e \notin inGame
    BY <1>1, <2>1 DEF Hearing
  <2>2. CASE e \in inGame /\ ~ connected[e]
    <3>1. down'[e] = <<>>
      BY <1>1, <2>2 DEF Hears
    <3>2. down[e] = <<>>
      BY <2>2 DEF IInv, LinkedAt, Linked
    <3> QED BY <2>2, <3>1, <3>2 DEF Hearing
  <2>3. CASE e \in inGame /\ connected[e]
    <3>1. PICK pre, m : /\ pre = IF dealt[e] = Held[e] THEN <<>> ELSE <<Msg("CTRL_CHANGE", dealt[e], "")>>
                        /\ m = pre \o msgs
      OBVIOUS
    <3>2. down'[e] = down[e] \o m
      BY <1>1, <2>3, <3>1 DEF Hears
    <3>3. PICK n, R, R2, x : n = nickOf[e] /\ R = roster /\ R2 = roster' /\ x = roster[n]
      OBVIOUS
    <3>4. Held[e] = x /\ R2[n] = dealt[e]
      BY <1>2, <2>3, <3>3 DEF Held
    <3>5. /\ Fold("listed", R, msgs) = R2 /\ Fold("named", n, msgs) = n
          /\ \A y : Fold("seated", y, msgs) = y
      BY <1>5, <3>3
    <3>6. CASE dealt[e] = Held[e]
      <4>1. m = msgs
        <5>1. pre = <<>>
          BY <3>1, <3>6
        <5> QED BY <1>1, <3>1, <5>1, NoneBefore
      <4>2. Knows(R, n, x, m, R2, n)
        BY <3>4, <3>5, <3>6, <4>1 DEF Knows
      <4> QED BY <1>1, <2>3, <3>2, <3>3, <4>1, <4>2 DEF Hearing
    <3>7. CASE dealt[e] # Held[e]
      <4>1. PICK a : a = Msg("CTRL_CHANGE", dealt[e], "")
        OBVIOUS
      <4>2. pre = <<a>> /\ m = pre \o msgs
        BY <3>1, <3>7, <4>1
      <4>3. /\ IsSeq(m) /\ m # <<>> /\ m[1] = a /\ Tail(m) = msgs /\ Len(m) = Len(msgs) + 1
            /\ \A i \in 1 .. Len(msgs) : m[i + 1] = msgs[i]
        <5>1. Leads(a, msgs, m)
          BY <1>1, <4>2 DEF Leads
        <5> QED BY ONLY <5>1, SeqCons
      <4>4. Listed(R, a) = R /\ Named(n, a) = n /\ Seated(x, a) = dealt[e] /\ a.cmd # "YOUJOINED"
        BY <4>1 DEF Listed, Named, Seated, Msg
      <4>5. Knows(R, n, dealt[e], msgs, R2, n)
        BY <3>4, <3>5 DEF Knows
      <4>6. Knows(R, n, x, m, R2, n)
        <5>1. Knows(Listed(R, m[1]), Named(n, m[1]), Seated(x, m[1]), msgs, R2, n)
          BY <4>3, <4>4, <4>5
        <5>2. IsSeq(m) /\ m # <<>> /\ msgs = Tail(m)
          BY <4>3
        <5> QED BY ONLY <5>1, <5>2, KnowsTail
      <4>7. \A i \in DOMAIN m : m[i].cmd # "YOUJOINED"
        <5>1. SUFFICES ASSUME NEW i \in DOMAIN m PROVE m[i].cmd # "YOUJOINED"
          OBVIOUS
        <5>2. Len(msgs) \in Nat /\ DOMAIN msgs = 1 .. Len(msgs) /\ DOMAIN m = 1 .. (Len(msgs) + 1)
          BY <1>1, <4>3, SeqShape
        <5>3. CASE i = 1
          BY <4>3, <4>4, <5>3
        <5>4. CASE i # 1
          <6>1. i - 1 \in 1 .. Len(msgs) /\ (i - 1) + 1 = i
            BY <5>2, <5>4
          <6> QED BY <1>1, <4>3, <5>2, <6>1
        <5> QED BY <5>3, <5>4
      <4> QED BY <1>1, <2>3, <3>2, <3>3, <4>3, <4>6, <4>7 DEF Hearing
    <3> QED BY <3>6, <3>7
  <2> QED BY <2>1, <2>2, <2>3
<1> QED BY <1>2, <1>3, <1>6

LEMMA SwapIs ==
  ASSUME NEW mask, mask \subseteq Ports, NEW a \in Ports, NEW b \in Ports
  PROVE  {IF p = a THEN b ELSE IF p = b THEN a ELSE p : p \in mask} = Swapped(mask, a, b)
<1> DEFINE S == {IF p = a THEN b ELSE IF p = b THEN a ELSE p : p \in mask}
<1>1. ASSUME NEW q \in S PROVE q \in Swapped(mask, a, b)
  BY DEF Swapped
<1>2. ASSUME NEW q \in Swapped(mask, a, b) PROVE q \in S
  <2>1. q \in Ports /\ CASE q = a -> b \in mask [] q = b -> a \in mask [] OTHER -> q \in mask
    BY DEF Swapped
  <2>2. CASE q = a
    BY <2>1, <2>2
  <2>3. CASE q # a /\ q = b
    BY <2>1, <2>3
  <2>4. CASE q # a /\ q # b
    BY <2>1, <2>4
  <2> QED BY <2>2, <2>3, <2>4
<1> QED BY <1>1, <1>2

\* A fold over a single message.
LEMMA FoldOne ==
  ASSUME NEW how, NEW x, NEW msg, NEW s, s = <<msg>>
  PROVE  Fold(how, x, s) = Does(how, x, msg)
<1>1. IsSeq(s) /\ s # <<>> /\ s[1] = msg /\ Tail(s) = <<>>
  BY SeqOne
<1>2. Fold(how, x, s) = Fold(how, Does(how, x, s[1]), Tail(s))
  BY ONLY <1>1, FoldTail
<1> QED BY <1>1, <1>2, FoldNone

\* What a client asks for.
LEMMA AskedFor ==
  ASSUME IInv, NEW c \in inGame, up[c] # <<>>
  PROVE  Asks(up[c][1]) /\ IsSeq(up[c]) /\ Head(up[c]) = up[c][1]
<1>1. LinkedAt(c) /\ c \in Clients
  BY DEF IInv, Maps
<1>2. IsSeq(up[c]) /\ \A i \in DOMAIN up[c] : Asks(up[c][i])
  BY <1>1 DEF LinkedAt, Linked
<1>3. Len(up[c]) \in Nat /\ Len(up[c]) # 0 /\ DOMAIN up[c] = 1 .. Len(up[c])
  BY <1>2, SeqShape DEF IsSeq
<1> QED BY <1>2, <1>3, HeadIs

LEMMA SeatingKeeps ==
  ASSUME IInv, NEW c \in inGame, up[c] # <<>>, Take(c), UNCHANGED <<clients, strayed, agreed>>,
         up[c][1].cmd \notin Leaves \cup {"CTRL_CHANGE_ACK"},
         NEW dealt, NEW msgs, Seating(dealt, msgs), Fold("listed", roster, msgs) = roster'
  PROVE  IInv'
<1>1. Served' /\ IsMap(down') /\ \A e \in Clients : Hearing(e)
  BY HeldTold
<1>2. inGame' = inGame
  BY DEF Seating
<1>3. IsMap(agreed') /\ agreed'[c] = Acked(agreed[c], up[c][1])
      /\ \A e \in Clients : e # c => agreed'[e] = agreed[e]
  BY DEF IInv, Maps, Acked
<1> QED BY <1>1, <1>2, <1>3, ServedKeeps

LEMMA SwapKeeps ==
  ASSUME IInv, NEW c \in inGame, up[c] # <<>>, Take(c), UNCHANGED <<clients, strayed>>,
         Swap(c, up[c][1])
  PROVE  IInv'
<1> DEFINE msg == up[c][1]
           a == msg.arg[1]
           b == msg.arg[2]
           other(p) == IF p = a THEN b ELSE IF p = b THEN a ELSE p
           dealt == [d \in inGame |-> {other(p) : p \in Held[d]}]
<1>1. msg.cmd = "SWAP" /\ UNCHANGED <<inGame, nickOf, agreed>>
      /\ TellHeld(dealt, <<Msg("SWAP_NOTIF", msg.arg, "")>>)
  BY DEF Swap
<1>2. a \in Ports /\ b \in Ports
  <2>1. msg.arg \in Ports \X Ports
    BY <1>1, AskedFor DEF Asks
  <2> QED BY <2>1
<1>3. /\ nickOf \in [inGame -> Names]
      /\ roster \in [{nickOf[d] : d \in inGame} -> SUBSET Ports]
  BY DEF IInv, Served
<1>4. \A d \in inGame : Held[d] = roster[nickOf[d]] /\ roster[nickOf[d]] \subseteq Ports
  BY <1>3 DEF Held
<1> HIDE DEF a, b, msg
<1>5. ASSUME NEW d \in inGame PROVE dealt[d] = Swapped(roster[nickOf[d]], a, b)
  <2>1. PICK mask : mask = roster[nickOf[d]]
    OBVIOUS
  <2>2. mask \subseteq Ports
    BY <1>4, <2>1
  <2>3. {other(p) : p \in mask} = Swapped(mask, a, b)
    BY <1>2, <2>2, SwapIs
  <2> QED BY <1>4, <2>1, <2>3
<1>6. dealt \in [inGame -> SUBSET Ports]
  <2>1. \A d \in inGame : dealt[d] \in SUBSET Ports
    BY <1>5 DEF Swapped
  <2> QED BY <2>1
<1>7a. PICK x : x = Msg("SWAP_NOTIF", msg.arg, "")
  OBVIOUS
<1> HIDE DEF dealt
<1>7b. TellHeld(dealt, <<x>>)
  BY <1>1, <1>7a
<1>7c. PICK h, m : h = dealt /\ m = <<x>>
  OBVIOUS
<1>7d. TellHeld(h, m)
  BY <1>7b, <1>7c
<1>7. h = dealt /\ m = <<x>> /\ x = Msg("SWAP_NOTIF", msg.arg, "")
  BY <1>7a, <1>7c
<1>8. x.cmd = "SWAP_NOTIF" /\ x.arg[1] = a /\ x.arg[2] = b
  BY <1>7 DEF Msg, a, b
<1>9. Seating(h, m)
  <2>1. IsSeq(m) /\ DOMAIN m = 1 .. 1 /\ m[1] = x
    BY <1>7, SeqOne
  <2>2. h \in [inGame -> SUBSET Ports]
    BY <1>6, <1>7
  <2>3. UNCHANGED <<inGame, nickOf>>
    BY <1>1
  <2> QED BY <1>7d, <1>8, <2>1, <2>2, <2>3 DEF Seating
<1>10. Fold("listed", roster, m) = roster'
  <2>1. Fold("listed", roster, m) = Listed(roster, x)
    <3>1. Fold("listed", roster, m) = Does("listed", roster, x)
      BY <1>7, FoldOne
    <3> QED BY <3>1 DEF Does
  <2>2. Listed(roster, x) = [n \in DOMAIN roster |-> Swapped(roster[n], a, b)]
    BY <1>8 DEF Listed
  <2>3. /\ roster' = [n \in DOMAIN roster |-> roster'[n]]
        /\ \A e \in inGame : roster'[nickOf[e]] = h[e]
        /\ \A n \in DOMAIN roster : \E e \in inGame : n = nickOf[e]
    BY <1>9, HeldAre
  <2>4. \A n \in DOMAIN roster : roster'[n] = Swapped(roster[n], a, b)
    <3>1. SUFFICES ASSUME NEW n \in DOMAIN roster PROVE roster'[n] = Swapped(roster[n], a, b)
      OBVIOUS
    <3>2. PICK e \in inGame : n = nickOf[e]
      BY <2>3
    <3>3. h[e] = Swapped(roster[nickOf[e]], a, b)
      BY <1>5, <1>7
    <3> QED BY <2>3, <3>2, <3>3
  <2> QED BY <2>1, <2>2, <2>3, <2>4
<1>11. msg.cmd \notin Leaves \cup {"CTRL_CHANGE_ACK"}
  BY <1>1 DEF Leaves
<1> QED BY <1>1, <1>9, <1>10, <1>11, SeatingKeeps DEF msg

LEMMA ReseatKeeps ==
  ASSUME IInv, NEW c \in inGame, up[c] # <<>>, Take(c), UNCHANGED <<clients, strayed>>,
         Reseat(c, up[c][1])
  PROVE  IInv'
<1> DEFINE msg == up[c][1]
           dealt == [d \in inGame |->
             IF d = c THEN IF msg.cmd = "DROP" THEN Held[c] \ msg.arg ELSE Held[c] \cup msg.arg
             ELSE IF msg.cmd = "TAKE" THEN Held[d] \ msg.arg ELSE Held[d]]
           changed == {Msg("NOTIF", dealt[d], nickOf[d]) : d \in {e \in inGame : dealt[e] # Held[e]}}
<1>1. msg.cmd \in {"TAKE", "DROP", "DUPE"} /\ UNCHANGED <<inGame, nickOf, agreed>>
      /\ TellHeld(dealt, SetToSeq(changed))
  BY DEF Reseat
<1>2. msg.arg \subseteq Ports
  <2>1. msg.arg \in Masks
    BY <1>1, AskedFor DEF Asks
  <2> QED BY <2>1, NetplayAssumption
<1>3. /\ nickOf \in [inGame -> Names] /\ \A d, e \in inGame : nickOf[d] = nickOf[e] => d = e
      /\ roster \in [{nickOf[d] : d \in inGame} -> SUBSET Ports]
  BY DEF IInv, Served
<1>4. \A d \in inGame : Held[d] = roster[nickOf[d]] /\ Held[d] \subseteq Ports
  BY <1>3 DEF Held
<1> HIDE DEF msg
<1>5. dealt \in [inGame -> SUBSET Ports]
  <2>1. \A d \in inGame : dealt[d] \in SUBSET Ports
    BY <1>2, <1>4
  <2> QED BY <2>1
<1>6. IsFiniteSet(changed)
  <2>1. IsFiniteSet(inGame)
    <3>1. inGame \in SUBSET Clients /\ IsFiniteSet(Clients)
      BY NetplayAssumption DEF IInv, Maps
    <3> QED BY <3>1, FS_Subset
  <2> DEFINE E == {e \in inGame : dealt[e] # Held[e]}
             op(d) == Msg("NOTIF", dealt[d], nickOf[d])
  <2>2. IsFiniteSet(E)
    <3>1. E \in SUBSET inGame
      OBVIOUS
    <3> QED BY <2>1, <3>1, FS_Subset
  <2> DEFINE f == [d \in E |-> op(d)]
             T == {op(d) : d \in E}
  <2>3. f \in Surjection(E, T)
    BY DEF Surjection
  <2> HIDE DEF E, f, T, op, dealt
  <2>4. IsFiniteSet(T)
    BY <2>2, <2>3, FS_Surjection
  <2> QED BY <2>4 DEF T, E, op
<1> HIDE DEF dealt
<1>7. PICK h, m, S : h = dealt /\ S = changed /\ m = SetToSeq(S)
  OBVIOUS
<1>8. /\ IsSeq(m) /\ \A i \in DOMAIN m : m[i] \in changed
      /\ \A x \in changed : \E i \in DOMAIN m : m[i] = x
  <2>1. IsFiniteSet(S) /\ m = SetToSeq(S)
    BY <1>6, <1>7
  <2>2. /\ IsSeq(m) /\ \A i \in DOMAIN m : m[i] \in S
        /\ \A x \in S : \E i \in DOMAIN m : m[i] = x
    BY ONLY <2>1, SetToSeqIs
  <2> QED BY <1>7, <2>2
<1>9. \A x \in changed : x.cmd = "NOTIF" /\ \E d \in inGame : x.nick = nickOf[d] /\ x.arg = h[d]
  BY <1>7 DEF Msg
<1>10. \A d \in inGame : h[d] = Held[d] \/ \E x \in changed : x.nick = nickOf[d]
  <2>1. SUFFICES ASSUME NEW d \in inGame, h[d] # Held[d] PROVE \E x \in changed : x.nick = nickOf[d]
    OBVIOUS
  <2>2. Msg("NOTIF", dealt[d], nickOf[d]) \in changed
    BY <1>7, <2>1
  <2>3. Msg("NOTIF", dealt[d], nickOf[d]).nick = nickOf[d]
    BY DEF Msg
  <2> QED BY <2>2, <2>3
<1>11. Seating(h, m)
  BY <1>1, <1>5, <1>7, <1>8, <1>9 DEF Seating
<1> HIDE DEF changed
<1>12. Fold("listed", roster, m) = roster'
  <2>1. /\ roster' = [n \in DOMAIN roster |-> roster'[n]]
        /\ \A e \in inGame : nickOf[e] \in DOMAIN roster /\ roster'[nickOf[e]] = h[e]
        /\ \A n \in DOMAIN roster : \E e \in inGame : n = nickOf[e]
    BY <1>11, HeldAre
  <2>2. PICK R, R2, D : R = roster /\ R2 = roster' /\ D = DOMAIN roster
    OBVIOUS
  <2>3. R = [n \in D |-> R[n]] /\ R2 = [n \in D |-> R2[n]]
    BY <1>3, <2>1, <2>2
  <2>4. \A i \in DOMAIN m : m[i].cmd = "NOTIF" /\ m[i].nick \in D /\ m[i].arg = R2[m[i].nick]
    BY <1>8, <1>9, <2>1, <2>2
  <2>5. \A n \in D : R2[n] = R[n] \/ \E i \in DOMAIN m : m[i].nick = n
    <3>1. SUFFICES ASSUME NEW n \in D PROVE R2[n] = R[n] \/ \E i \in DOMAIN m : m[i].nick = n
      OBVIOUS
    <3>2. PICK d \in inGame : n = nickOf[d]
      BY <2>1, <2>2
    <3>3. CASE h[d] = Held[d]
      BY <1>4, <2>1, <2>2, <3>2, <3>3
    <3>4. CASE \E x \in changed : x.nick = nickOf[d]
      BY <1>8, <3>2, <3>4
    <3> QED BY <1>10, <3>3, <3>4
  <2>6. Fold("listed", R, m) = R2
    BY <1>8, <2>3, <2>4, <2>5, FoldNotifs
  <2> QED BY <2>2, <2>6
<1>13. msg.cmd \notin Leaves \cup {"CTRL_CHANGE_ACK"}
  BY <1>1 DEF Leaves
<1> QED BY <1>1, <1>11, <1>12, <1>13, SeatingKeeps DEF msg

LEMMA RenameKeeps ==
  ASSUME IInv, NEW c \in inGame, up[c] # <<>>, Take(c), UNCHANGED <<clients, strayed>>,
         Rename(c, up[c][1])
  PROVE  IInv'
<1> DEFINE msg == up[c][1]
<1>1. msg.cmd = "SETNICK" /\ UNCHANGED <<inGame, agreed>> /\ msg.arg \in Names
  BY AskedFor DEF Rename, Asks
<1>2. /\ nickOf \in [inGame -> Names] /\ \A d, e \in inGame : nickOf[d] = nickOf[e] => d = e
      /\ roster \in [{nickOf[d] : d \in inGame} -> SUBSET Ports] /\ c \in Clients /\ inGame \subseteq Clients
  BY DEF IInv, Served, Maps
<1>3. msg.cmd \notin Leaves /\ IsMap(agreed') /\ agreed'[c] = Acked(agreed[c], msg)
      /\ \A e \in Clients : e # c => agreed'[e] = agreed[e]
  BY <1>1 DEF IInv, Maps, Acked, Leaves
<1>4. CASE msg.arg \in DOMAIN roster
  <2>1. UNCHANGED <<down, nickOf, roster>>
    BY <1>4 DEF Rename
  <2>2. Served' /\ IsMap(down') /\ \A e \in Clients : Hearing(e)
    BY <1>1, <2>1 DEF IInv, Served, Maps, Hearing
  <2> QED BY <1>1, <1>3, <2>2, ServedKeeps
<1>5. CASE msg.arg \notin DOMAIN roster
  <2>1. PICK old, new, x : old = nickOf[c] /\ new = msg.arg /\ x = Msg("NICKCHANGED", new, old)
    OBVIOUS
  <2>2. /\ nickOf' = [nickOf EXCEPT ![c] = new]
        /\ roster' = [n \in (DOMAIN roster \ {old}) \cup {new} |-> IF n = new THEN roster[old] ELSE roster[n]]
        /\ Tell(<<x>>)
    BY <1>5, <2>1 DEF Rename
  <2>3. new \in Names /\ new \notin DOMAIN roster /\ old \in DOMAIN roster /\ new # old
        /\ DOMAIN roster = {nickOf[d] : d \in inGame}
    BY <1>1, <1>2, <1>5, <2>1
  <2>4. x.cmd = "NICKCHANGED" /\ x.arg = new /\ x.nick = old
    BY <2>1 DEF Msg
  <2>5. roster' = Listed(roster, x)
    <3>1. Listed(roster, x) = Restrict(Put(roster, new, roster[old]), (DOMAIN roster \cup {new}) \ {old})
      BY <2>3, <2>4 DEF Listed
    <3>2. (DOMAIN roster \cup {new}) \ {old} = (DOMAIN roster \ {old}) \cup {new}
      BY <2>3
    <3>3. Restrict(Put(roster, new, roster[old]), (DOMAIN roster \cup {new}) \ {old})
            = [n \in (DOMAIN roster \ {old}) \cup {new} |-> IF n = new THEN roster[old] ELSE roster[n]]
      <4> DEFINE P == Put(roster, new, roster[old])
      <4>1. \A n \in (DOMAIN roster \ {old}) \cup {new} : P[n] = IF n = new THEN roster[old] ELSE roster[n]
        BY DEF Put
      <4> HIDE DEF P
      <4>2. Restrict(P, (DOMAIN roster \cup {new}) \ {old}) = [n \in (DOMAIN roster \ {old}) \cup {new} |-> P[n]]
        BY <3>2 DEF Restrict
      <4>3. [n \in (DOMAIN roster \ {old}) \cup {new} |-> P[n]]
              = [n \in (DOMAIN roster \ {old}) \cup {new} |-> IF n = new THEN roster[old] ELSE roster[n]]
        BY <4>1
      <4> QED BY <4>2, <4>3 DEF P
    <3> QED BY <2>2, <3>1, <3>3
  <2>6. ASSUME NEW e \in inGame
        PROVE  /\ nickOf'[e] = Named(nickOf[e], x)
               /\ Seated(roster[nickOf[e]], x) = roster'[nickOf'[e]]
    <3>1. nickOf'[e] = IF e = c THEN new ELSE nickOf[e]
      BY <1>2, <2>2
    <3>2. Named(nickOf[e], x) = IF nickOf[e] = old THEN new ELSE nickOf[e]
      BY <2>4 DEF Named
    <3>3. nickOf[e] = old <=> e = c
      BY <1>2, <2>1
    <3>4. Seated(roster[nickOf[e]], x) = roster[nickOf[e]]
      BY <2>4 DEF Seated
    <3>5. roster'[nickOf'[e]] = roster[nickOf[e]]
      BY <2>1, <2>2, <2>3, <3>1, <3>3
    <3> QED BY <3>1, <3>2, <3>3, <3>4, <3>5
  <2>7. IsMap(down') /\ \A e \in Clients : Hearing(e)
    <3>1. x.cmd # "YOUJOINED"
      BY <2>4
    <3> QED BY <2>2, <2>5, <2>6, <3>1, TellOne
  <2>8. Served'
    <3>1. nickOf' \in [inGame -> Names]
      BY <1>2, <2>2, <2>3
    <3>2. \A d, e \in inGame : nickOf'[d] = nickOf'[e] => d = e
      BY <1>2, <2>2, <2>3
    <3>3. (DOMAIN roster \ {old}) \cup {new} = {nickOf'[d] : d \in inGame}
      <4>1. \A d \in inGame : nickOf'[d] = IF d = c THEN new ELSE nickOf[d]
        BY <1>2, <2>2
      <4>2. \A d \in inGame : nickOf[d] = old <=> d = c
        BY <1>2, <2>1
      <4> QED BY <2>3, <4>1, <4>2
    <3>4. \A n \in (DOMAIN roster \ {old}) \cup {new} : (IF n = new THEN roster[old] ELSE roster[n]) \in SUBSET Ports
      BY <1>2, <2>3
    <3>5. roster' \in [{nickOf'[d] : d \in inGame} -> SUBSET Ports]
      BY <2>2, <3>3, <3>4
    <3> QED BY <1>1, <3>1, <3>2, <3>5 DEF Served
  <2> QED BY <1>1, <1>3, <2>7, <2>8, ServedKeeps
<1> QED BY <1>4, <1>5

LEMMA LeaveKeeps ==
  ASSUME IInv, NEW c \in inGame, up[c] # <<>>, Take(c), UNCHANGED <<clients, strayed>>,
         Leave(c, up[c][1])
  PROVE  IInv'
<1> DEFINE msg == up[c][1]
<1>1. /\ msg.cmd \in Leaves /\ inGame' = inGame \ {c} /\ nickOf' = Restrict(nickOf, inGame')
      /\ roster' = Restrict(roster, DOMAIN roster \ {nickOf[c]})
      /\ agreed' = [agreed EXCEPT ![c] = {}]
      /\ Tell(<<Msg("PLAYERLEFT", roster[nickOf[c]], nickOf[c])>>)
  BY DEF Leave, Leaves
<1>2. /\ nickOf \in [inGame -> Names] /\ \A d, e \in inGame : nickOf[d] = nickOf[e] => d = e
      /\ roster \in [{nickOf[d] : d \in inGame} -> SUBSET Ports] /\ c \in Clients /\ inGame \subseteq Clients
      /\ LinkedAt(c) /\ LaidOutAt(c) /\ Maps
  BY DEF IInv, Served, Maps
<1>3. PICK x, old, v, ag : x = Msg("PLAYERLEFT", roster[nickOf[c]], nickOf[c]) /\ old = nickOf[c]
                           /\ v = Tail(up[c]) /\ ag = {}
  OBVIOUS
<1>4. x.cmd = "PLAYERLEFT" /\ x.nick = old
  BY <1>3 DEF Msg
<1>5. UNCHANGED <<connection, seats, mach>>
  BY DEF clients
<1>6. TakesLast(c \in inGame, connected[c], MDFNnetplay[c], receiving[c], Joined[c], PlayersList[c],
                up[c], down[c], agreed[c], v)
  BY <1>1, <1>2, <1>3 DEF TakesLast, LinkedAt
<1>7. PICK lpm : lpm = LocalPlayersMask[c]
  OBVIOUS
<1>8. /\ ~ connected[c] /\ down[c] = <<>>
      /\ Linked(FALSE, connected[c], MDFNnetplay[c], receiving[c], Joined[c], PlayersList[c], v, down[c], ag)
      /\ LaidOut(FALSE, Joined[c], lpm, v, ag)
  BY ONLY <1>6, UpLast
<1>9. IsMap(up') /\ up'[c] = v /\ \A e \in Clients : e # c => up'[e] = up[e]
  BY <1>2, <1>3, TakeIs
<1>10. IsMap(agreed') /\ agreed'[c] = ag /\ \A e \in Clients : e # c => agreed'[e] = agreed[e]
  <2>1. Replaced(agreed, agreed', c, ag)
    BY <1>1, <1>2, <1>3 DEF Maps, Replaced
  <2> QED BY ONLY <2>1, MapLemma
<1>11. ASSUME NEW e \in inGame, connected[e]
       PROVE  /\ nickOf'[e] = Named(nickOf[e], x)
              /\ Seated(roster[nickOf[e]], x) = roster'[nickOf'[e]]
  <2>1. e # c /\ e \in inGame'
    BY <1>1, <1>8, <1>11
  <2>2. nickOf'[e] = nickOf[e] /\ nickOf[e] # old /\ nickOf[e] \in DOMAIN roster
    BY <1>1, <1>2, <1>3, <2>1 DEF Restrict
  <2>3. roster'[nickOf[e]] = roster[nickOf[e]]
    BY <1>1, <1>3, <2>2 DEF Restrict
  <2>4. Named(nickOf[e], x) = nickOf[e] /\ Seated(roster[nickOf[e]], x) = roster[nickOf[e]]
    BY <1>4 DEF Named, Seated
  <2> QED BY <2>2, <2>3, <2>4
<1>12. IsMap(down') /\ \A e \in Clients : Hearing(e)
  <2>1. roster' = Listed(roster, x)
    BY <1>1, <1>3, <1>4 DEF Listed
  <2>2. Tell(<<x>>) /\ x.cmd # "YOUJOINED"
    BY <1>1, <1>3, <1>4
  <2> QED BY <1>11, <2>1, <2>2, TellOne
<1>13. Served'
  <2>1. \A e \in inGame' : nickOf'[e] = nickOf[e]
    BY <1>1 DEF Restrict
  <2>2. nickOf' \in [inGame' -> Names]
    BY <1>1, <1>2, <2>1 DEF Restrict
  <2>3. DOMAIN roster \ {old} = {nickOf'[d] : d \in inGame'}
    <3>1. DOMAIN roster = {nickOf[d] : d \in inGame} /\ inGame' = inGame \ {c} /\ old = nickOf[c]
      BY <1>1, <1>2, <1>3
    <3>2. \A d \in inGame : nickOf[d] = old <=> d = c
      BY <1>2, <3>1
    <3>3. {nickOf'[d] : d \in inGame'} = {nickOf[d] : d \in inGame'}
      BY <2>1
    <3>4. {nickOf[d] : d \in inGame'} = DOMAIN roster \ {old}
      BY <3>1, <3>2
    <3> QED BY <3>3, <3>4
  <2>4. roster' \in [{nickOf'[d] : d \in inGame'} -> SUBSET Ports]
    <3>1. roster' \in [DOMAIN roster \ {old} -> SUBSET Ports]
      BY <1>1, <1>2, <1>3 DEF Restrict
    <3> QED BY <2>3, <3>1
  <2>5. \A d, e \in inGame' : nickOf'[d] = nickOf'[e] => d = e
    BY <1>1, <1>2, <2>1
  <2> QED BY <2>2, <2>4, <2>5 DEF Served
<1>14. Maps'
  BY <1>1, <1>2, <1>5, <1>9, <1>10, <1>12 DEF Maps, connection, seats
<1>15. ASSUME NEW e \in Clients PROVE LinkedAt(e)' /\ LaidOutAt(e)' /\ KnowsAt(e)'
  <2>1. CASE e # c
    <3>1. LinkedAt(e) /\ LaidOutAt(e) /\ KnowsAt(e) /\ Hearing(e)
      BY <1>12 DEF IInv
    <3>2. PICK u, g : u = up'[e] /\ g = agreed'[e]
      OBVIOUS
    <3>3. /\ Linked(e \in inGame, connected[e], MDFNnetplay[e], receiving[e], Joined[e], PlayersList[e],
                    u, down[e], g)
          /\ LaidOut(e \in inGame, Joined[e], LocalPlayersMask[e], u, g)
      BY <1>9, <1>10, <2>1, <3>1, <3>2 DEF LinkedAt, LaidOutAt
    <3>4. (e \in inGame) <=> (e \in inGame')
      BY <1>1, <2>1
    <3> QED BY <1>5, <3>1, <3>2, <3>3, <3>4, HearKeeps
  <2>2. CASE e = c
    <3>1. UNCHANGED <<connected, MDFNnetplay, receiving, Joined, PlayersList, LocalPlayersMask, OurNick>>
      BY <1>5 DEF connection, seats
    <3>2. (c \in inGame') = FALSE
      BY <1>1
    <3>3. down'[c] = down[c]
      <4>1. Tell(<<x>>)
        BY <1>1, <1>3
      <4> QED BY <1>2, <1>8, <4>1 DEF Tell, Hears
    <3>4. LinkedAt(c)'
      BY <1>8, <1>9, <1>10, <3>1, <3>2, <3>3 DEF LinkedAt
    <3>5. LaidOutAt(c)'
      BY <3>2 DEF LaidOutAt, LaidOut
    <3>6. KnowsAt(c)'
      BY <3>2 DEF KnowsAt
    <3> QED BY <2>2, <3>4, <3>5, <3>6
  <2> QED BY <2>1, <2>2
<1> QED BY <1>13, <1>14, <1>15 DEF IInv

LEMMA ServeKeeps ==
  ASSUME IInv, NEW c \in Clients, Serve(c)
  PROVE  IInv'
<1>1. c \in inGame /\ up[c] # <<>> /\ Take(c) /\ UNCHANGED <<clients, strayed>>
  BY DEF Serve
<1>2. Head(up[c]) = up[c][1]
  BY <1>1, AskedFor
<1> DEFINE msg == up[c][1]
<1>3. \/ Input(c, msg) \/ Relay(c, msg) \/ Acknowledged(c, msg) \/ Reseat(c, msg) \/ Swap(c, msg)
      \/ Rename(c, msg) \/ Leave(c, msg)
      \/ (msg.cmd = "SETFPS" /\ UNCHANGED <<down, server>>)
  BY <1>2 DEF Serve
<1>4. CASE Input(c, msg) \/ Relay(c, msg) \/ Acknowledged(c, msg)
           \/ (msg.cmd = "SETFPS" /\ UNCHANGED <<down, server>>)
  BY <1>1, <1>4, PlainKeeps
<1>5. CASE Reseat(c, msg)
  BY <1>1, <1>5, ReseatKeeps
<1>6. CASE Swap(c, msg)
  BY <1>1, <1>6, SwapKeeps
<1>7. CASE Rename(c, msg)
  BY <1>1, <1>7, RenameKeeps
<1>8. CASE Leave(c, msg)
  BY <1>1, <1>8, LeaveKeeps
<1> QED BY <1>3, <1>4, <1>5, <1>6, <1>7, <1>8

\* There is a name nobody has.
LEMMA NameLeft ==
  ASSUME IInv, NEW c \in Clients, c \notin inGame
  PROVE  \E n \in Names : n \notin DOMAIN roster
<1>1. /\ nickOf \in [inGame -> Names] /\ \A d, e \in inGame : nickOf[d] = nickOf[e] => d = e
      /\ DOMAIN roster = {nickOf[d] : d \in inGame} /\ inGame \subseteq Clients
  BY DEF IInv, Served, Maps
<1>2. SUFFICES ASSUME \A n \in Names : n \in DOMAIN roster PROVE FALSE
  OBVIOUS
<1>3. IsFiniteSet(Clients) /\ IsFiniteSet(Names) /\ Cardinality(Clients) <= Cardinality(Names)
  BY NetplayAssumption
<1>4. IsFiniteSet(inGame) /\ inGame \in SUBSET Clients /\ Cardinality(inGame) <= Cardinality(Clients)
      /\ Cardinality(inGame) # Cardinality(Clients)
  <2>1. inGame \in SUBSET Clients
    BY <1>1
  <2>2. inGame # Clients
    OBVIOUS
  <2> QED BY <1>3, <2>1, <2>2, FS_Subset
<1>5. nickOf \in Surjection(inGame, Names)
  BY <1>1, <1>2 DEF Surjection
<1>6. Cardinality(Names) <= Cardinality(inGame)
  BY <1>4, <1>5, FS_Surjection
<1>7. Cardinality(Names) \in Nat /\ Cardinality(inGame) \in Nat /\ Cardinality(Clients) \in Nat
  BY <1>3, <1>4, FS_CardinalityType
<1> QED BY <1>3, <1>4, <1>6, <1>7

\* Who the others are, one by one.
Others(S, others) == /\ S = {Msg("PLAYERJOINED", roster[n], n) : n \in DOMAIN roster}
                     /\ others = SetToSeq(S)
Introduce(others) ==
  /\ IsSeq(others)
  /\ \A i \in DOMAIN others : /\ others[i].cmd = "PLAYERJOINED" /\ others[i].nick \in DOMAIN roster
                                /\ others[i].arg = roster[others[i].nick]
  /\ \A n \in DOMAIN roster : \E i \in DOMAIN others : others[i].nick = n

LEMMA OthersAre ==
  ASSUME IInv, NEW S, NEW others, Others(S, others)
  PROVE  Introduce(others)
<1>0. S = {Msg("PLAYERJOINED", roster[n], n) : n \in DOMAIN roster} /\ others = SetToSeq(S)
  BY DEF Others
<1>1. roster \in [{nickOf[d] : d \in inGame} -> SUBSET Ports] /\ inGame \subseteq Clients
  BY DEF IInv, Served, Maps
<1>2. IsFiniteSet(inGame)
  <2>1. inGame \in SUBSET Clients /\ IsFiniteSet(Clients)
    BY <1>1, NetplayAssumption
  <2> QED BY <2>1, FS_Subset
<1> DEFINE op(d) == Msg("PLAYERJOINED", roster[nickOf[d]], nickOf[d])
           f == [d \in inGame |-> op(d)]
<1>3. f \in Surjection(inGame, S)
  <2>1. S = {op(d) : d \in inGame}
    <3>1. DOMAIN roster = {nickOf[d] : d \in inGame}
      BY <1>1
    <3> QED BY <1>0, <3>1
  <2> HIDE DEF op
  <2> QED BY <2>1 DEF Surjection
<1> HIDE DEF f
<1>4. IsFiniteSet(S)
  BY <1>2, <1>3, FS_Surjection
<1>5. /\ IsSeq(others) /\ \A i \in DOMAIN others : others[i] \in S
      /\ \A y \in S : \E i \in DOMAIN others : others[i] = y
  <2>1. IsFiniteSet(S) /\ others = SetToSeq(S)
    BY <1>0, <1>4
  <2> QED BY ONLY <2>1, SetToSeqIs
<1>6. ASSUME NEW y \in S
      PROVE  y.cmd = "PLAYERJOINED" /\ y.nick \in DOMAIN roster /\ y.arg = roster[y.nick]
  <2>1. PICK n \in DOMAIN roster : y = Msg("PLAYERJOINED", roster[n], n)
    BY <1>0
  <2>2. y.cmd = "PLAYERJOINED" /\ y.nick = n /\ y.arg = roster[n]
    BY ONLY <2>1 DEF Msg
  <2> QED BY <2>2
<1>7. ASSUME NEW n \in DOMAIN roster PROVE \E y \in S : y.nick = n
  <2>1. Msg("PLAYERJOINED", roster[n], n) \in S
    BY <1>0
  <2>2. Msg("PLAYERJOINED", roster[n], n).nick = n
    BY ONLY DEF Msg
  <2> QED BY <2>1, <2>2
<1> HIDE DEF f
<1>8. \A i \in DOMAIN others : /\ others[i].cmd = "PLAYERJOINED" /\ others[i].nick \in DOMAIN roster
                                 /\ others[i].arg = roster[others[i].nick]
  BY <1>5, <1>6
<1>9. \A n \in DOMAIN roster : \E i \in DOMAIN others : others[i].nick = n
  <2>1. SUFFICES ASSUME NEW n \in DOMAIN roster PROVE \E i \in DOMAIN others : others[i].nick = n
    OBVIOUS
  <2>2. PICK y \in S : y.nick = n
    BY <1>7
  <2>3. PICK i \in DOMAIN others : others[i] = y
    BY <1>5
  <2> QED BY <2>2, <2>3
<1> QED BY <1>5, <1>8, <1>9 DEF Introduce

\* Whoever plays does not join again.
LEMMA NotYet ==
  ASSUME IInv, NEW c \in Clients, Login(c)
  PROVE  c \notin inGame
<1>1. SUFFICES ASSUME c \in inGame PROVE FALSE
  OBVIOUS
<1>2. LinkedAt(c)
  BY DEF IInv
<1>3. PICK u : u = up[c]
  OBVIOUS
<1>4. IsSeq(u) /\ \A i \in DOMAIN u : u[i].cmd # "LOGIN"
  BY <1>1, <1>2, <1>3 DEF LinkedAt, Linked
<1>5. u # <<>> /\ Head(u).cmd = "LOGIN"
  BY <1>3 DEF Login
<1>6. Len(u) \in Nat /\ Len(u) # 0 /\ DOMAIN u = 1 .. Len(u)
  BY ONLY <1>4, <1>5, SeqShape DEF IsSeq
<1>7. Head(u) = u[1]
  BY ONLY <1>4, <1>5, HeadIs
<1> QED BY <1>4, <1>5, <1>6, <1>7

LEMMA LoginKeeps ==
  ASSUME IInv, NEW c \in Clients, Login(c)
  PROVE  IInv'
<1>1. /\ nickOf \in [inGame -> Names] /\ \A d, e \in inGame : nickOf[d] = nickOf[e] => d = e
      /\ roster \in [{nickOf[d] : d \in inGame} -> SUBSET Ports]
      /\ LinkedAt(c) /\ LaidOutAt(c) /\ Maps /\ inGame \subseteq Clients
  BY DEF IInv, Served, Maps
<1>2. PICK mask, nick, S, others :
        /\ mask = {p \in Ports \ UNION Range(roster) : \A q \in Ports \ UNION Range(roster) : p <= q}
        /\ nick = CHOOSE n \in Names : n \notin DOMAIN roster
        /\ S = {Msg("PLAYERJOINED", roster[n], n) : n \in DOMAIN roster}
        /\ others = SetToSeq(S)
  OBVIOUS
<1>31. up[c] # <<>> /\ Head(up[c]).cmd = "LOGIN" /\ Take(c)
  BY DEF Login
<1>32. inGame' = inGame \cup {c} /\ UNCHANGED clients
  BY DEF Login
<1>33. nickOf' = Put(nickOf, c, nick)
  BY <1>2 DEF Login
<1>34. roster' = Put(roster, nick, mask)
  BY <1>2 DEF Login
<1>35. agreed' = [agreed EXCEPT ![c] = mask]
  BY <1>2 DEF Login
<1>36. strayed' = [strayed EXCEPT ![c] = inGame # {}]
  BY DEF Login
<1>37. PICK asked \in IF inGame = {} THEN {c} ELSE inGame :
         down' = [d \in Clients |->
           CASE d = c -> Hears(c, <<Msg("YOUJOINED", mask, nick)>> \o others)
             [] d \in inGame -> Hears(d, <<Msg("PLAYERJOINED", mask, nick)>> \o
                                       (IF d = asked THEN <<Msg("REQUEST_STATE", 0, "")>> ELSE <<>>))
             [] OTHER -> down[d]]
  BY <1>2 DEF Login
<1>4. UNCHANGED <<connection, seats, mach>>
  BY <1>32 DEF clients
<1>5. c \notin inGame
  BY NotYet
<1> DEFINE told(d) == CASE d = c -> Hears(c, <<Msg("YOUJOINED", mask, nick)>> \o others)
                        [] d \in inGame -> Hears(d, <<Msg("PLAYERJOINED", mask, nick)>> \o
                                            (IF d = asked THEN <<Msg("REQUEST_STATE", 0, "")>> ELSE <<>>))
                        [] OTHER -> down[d]
<1>38. /\ down' = [d \in Clients |-> told(d)]
       /\ told(c) = Hears(c, <<Msg("YOUJOINED", mask, nick)>> \o others)
  <2>1. down' = [d \in Clients |-> told(d)]
    BY ONLY <1>37
  <2>2. told(c) = Hears(c, <<Msg("YOUJOINED", mask, nick)>> \o others)
    <3>1. c \in inGame <=> FALSE
      BY <1>5
    <3> QED BY ONLY <3>1
  <2> QED BY ONLY <2>1, <2>2
<1> HIDE DEF told
<1>6. nick \in Names /\ nick \notin DOMAIN roster
  BY <1>2, <1>5, NameLeft
<1>7. mask \in SUBSET Ports
  BY <1>2
<1>8. Served'
  <2>1. nickOf' = [d \in inGame \cup {c} |-> IF d = c THEN nick ELSE nickOf[d]]
    BY <1>1, <1>33 DEF Put
  <2>2. nickOf' \in [inGame' -> Names]
    BY <1>1, <1>32, <1>6, <2>1
  <2>3. \A d \in inGame : nickOf[d] \in DOMAIN roster /\ nickOf[d] # nick
    BY <1>1, <1>6
  <2>4. \A d, e \in inGame' : nickOf'[d] = nickOf'[e] => d = e
    <3>1. nickOf'[c] = nick /\ \A d \in inGame : d # c /\ nickOf'[d] = nickOf[d]
      BY <1>5, <2>1
    <3> QED BY <1>1, <1>32, <2>3, <3>1
  <2>5. DOMAIN roster \cup {nick} = {nickOf'[d] : d \in inGame'}
    <3>1. nickOf'[c] = nick /\ \A d \in inGame : nickOf'[d] = nickOf[d]
      BY <1>5, <2>1
    <3>2. DOMAIN roster = {nickOf[d] : d \in inGame}
      BY <1>1
    <3>3. ASSUME NEW n \in DOMAIN roster \cup {nick} PROVE \E d \in inGame' : n = nickOf'[d]
      <4>1. CASE n = nick
        BY <1>32, <3>1, <4>1
      <4>2. CASE n \in DOMAIN roster
        <5>1. PICK d \in inGame : n = nickOf[d]
          BY <3>2, <4>2
        <5> QED BY <1>32, <3>1, <5>1
      <4> QED BY <4>1, <4>2
    <3>4. ASSUME NEW d \in inGame' PROVE nickOf'[d] \in DOMAIN roster \cup {nick}
      BY <1>32, <2>3, <3>1
    <3> QED BY <3>3, <3>4
  <2>6. roster' \in [DOMAIN roster \cup {nick} -> SUBSET Ports]
    BY <1>1, <1>34, <1>7 DEF Put
  <2>7. roster' \in [{nickOf'[d] : d \in inGame'} -> SUBSET Ports]
    BY <2>5, <2>6
  <2> QED BY <2>2, <2>4, <2>7 DEF Served
<1>9. IsMap(agreed') /\ agreed'[c] = mask /\ \A e \in Clients : e # c => agreed'[e] = agreed[e]
  <2>1. Replaced(agreed, agreed', c, mask)
    BY <1>1, <1>35 DEF Maps, Replaced
  <2> QED BY ONLY <2>1, MapLemma
<1>10. PICK v, str : v = Tail(up[c]) /\ str = (inGame # {})
  OBVIOUS
<1>11. IsMap(up') /\ up'[c] = v /\ \A e \in Clients : e # c => up'[e] = up[e]
  BY <1>1, <1>31, <1>10, TakeIs
<1>12. IsMap(strayed')
  <2>1. Replaced(strayed, strayed', c, str)
    BY <1>1, <1>36, <1>10 DEF Maps, Replaced
  <2> QED BY ONLY <2>1, MapLemma
<1>13. IsMap(down')
  BY <1>38 DEF IsMap
<1>14. Maps'
  BY <1>1, <1>32, <1>4, <1>9, <1>11, <1>12, <1>13 DEF Maps, connection, seats
\* The others hear of the new one, and somebody is asked for the state.
<1>15. ASSUME NEW e \in Clients, e # c PROVE LinkedAt(e)' /\ LaidOutAt(e)' /\ KnowsAt(e)'
  <2>1. LinkedAt(e) /\ LaidOutAt(e) /\ KnowsAt(e)
    BY DEF IInv
  <2>2. PICK x, y : x = Msg("PLAYERJOINED", mask, nick) /\ y = Msg("REQUEST_STATE", 0, "")
    OBVIOUS
  <2>3. /\ e \in inGame => down'[e] = Hears(e, <<x>> \o <<y>>) \/ down'[e] = Hears(e, <<x>> \o <<>>)
        /\ e \notin inGame => down'[e] = down[e]
    BY <1>37, <1>15, <2>2
  <2>4. x.cmd = "PLAYERJOINED" /\ x.nick = nick /\ x.arg = mask /\ y.cmd = "REQUEST_STATE"
    BY <2>2 DEF Msg
  <2>5. Hearing(e)
    <3>1. CASE e \notin inGame
      BY <2>3, <3>1 DEF Hearing
    <3>2. CASE e \in inGame /\ ~ connected[e]
      <4>1. down'[e] = <<>>
        BY <2>3, <3>2 DEF Hears
      <4>2. down[e] = <<>>
        BY <2>1, <3>2 DEF LinkedAt, Linked
      <4> QED BY <3>2, <4>1, <4>2 DEF Hearing
    <3>3. CASE e \in inGame /\ connected[e]
      <4>1. PICK t, m : (t = <<y>> \/ t = <<>>) /\ m = <<x>> \o t /\ down'[e] = down[e] \o m
        BY <2>3, <3>3 DEF Hears
      <4>2. IsSeq(t) /\ \A i \in DOMAIN t : t[i] = y
        BY <4>1, SeqOne, EmptyIsSeq
      <4>3. /\ IsSeq(m) /\ m # <<>> /\ m[1] = x /\ Tail(m) = t /\ Len(m) = Len(t) + 1
            /\ \A i \in 1 .. Len(t) : m[i + 1] = t[i]
        <5>1. Leads(x, t, m)
          BY <4>1, <4>2 DEF Leads
        <5> QED BY ONLY <5>1, SeqCons
      <4>4. \A i \in DOMAIN m : m[i].cmd # "YOUJOINED"
        <5>1. SUFFICES ASSUME NEW i \in DOMAIN m PROVE m[i].cmd # "YOUJOINED"
          OBVIOUS
        <5>2. Len(t) \in Nat /\ DOMAIN t = 1 .. Len(t) /\ DOMAIN m = 1 .. (Len(t) + 1)
          BY <4>2, <4>3, SeqShape
        <5>3. CASE i = 1
          BY <2>4, <4>3, <5>3
        <5>4. CASE i # 1
          <6>1. i - 1 \in 1 .. Len(t) /\ (i - 1) + 1 = i
            BY <5>2, <5>4
          <6> QED BY <2>4, <4>2, <4>3, <5>2, <6>1
        <5> QED BY <5>3, <5>4
      <4>5. PICK R, n, R2, z : R = roster /\ n = nickOf[e] /\ R2 = roster' /\ z = roster[n]
        OBVIOUS
      <4>6. n \in DOMAIN R /\ n # nick /\ R2[n] = z /\ nickOf'[e] = n
        BY <1>1, <1>33, <1>34, <1>6, <1>15, <3>3, <4>5 DEF Put
      <4>7. Listed(R, x) = R2 /\ Named(n, x) = n /\ Seated(z, x) = z
        BY <1>34, <2>4, <4>5 DEF Listed, Named, Seated
      <4>8. Knows(R2, n, z, t, R2, n)
        <5>1. Steady("listed", t) /\ Steady("named", t) /\ Steady("seated", t)
          BY <2>4, <4>2 DEF Steady, Does, Listed, Named, Seated
        <5>2. Fold("listed", R2, t) = R2 /\ Fold("named", n, t) = n /\ Fold("seated", z, t) = z
          BY <4>2, <5>1, FoldSteady
        <5> QED BY <4>6, <5>2 DEF Knows
      <4>9. Knows(R, n, z, m, R2, n)
        <5>1. Knows(Listed(R, m[1]), Named(n, m[1]), Seated(z, m[1]), t, R2, n)
          BY <4>3, <4>7, <4>8
        <5>2. IsSeq(m) /\ m # <<>> /\ t = Tail(m)
          BY <4>3
        <5> QED BY ONLY <5>1, <5>2, KnowsTail
      <4> QED BY <3>3, <4>1, <4>3, <4>4, <4>5, <4>6, <4>9 DEF Hearing
    <3> QED BY <3>1, <3>2, <3>3
  <2>6. PICK u, g : u = up'[e] /\ g = agreed'[e]
    OBVIOUS
  <2>7. /\ Linked(e \in inGame, connected[e], MDFNnetplay[e], receiving[e], Joined[e], PlayersList[e],
                  u, down[e], g)
        /\ LaidOut(e \in inGame, Joined[e], LocalPlayersMask[e], u, g)
    BY <1>9, <1>11, <1>15, <2>1, <2>6 DEF LinkedAt, LaidOutAt
  <2>8. (e \in inGame) <=> (e \in inGame')
    BY <1>32, <1>15
  <2> QED BY <1>4, <2>1, <2>5, <2>6, <2>7, <2>8, HearKeeps
\* The new one is told who it is first, then who the others are.
<1>16. LinkedAt(c)' /\ LaidOutAt(c)' /\ KnowsAt(c)'
  <2>1. UNCHANGED <<connected, MDFNnetplay, receiving, Joined, PlayersList, LocalPlayersMask, OurNick>>
    BY <1>4 DEF connection, seats
  <2>2. (c \in inGame') = TRUE
    BY <1>32
  <2>3. Linked(FALSE, connected[c], MDFNnetplay[c], receiving[c], Joined[c], PlayersList[c], up[c], down[c], agreed[c])
    <3>1. (c \in inGame) = FALSE
      BY <1>5
    <3> QED BY <1>1, <3>1 DEF LinkedAt
  <2>4. PICK x, m : x = Msg("YOUJOINED", mask, nick) /\ m = <<x>> \o others
    OBVIOUS
  <2>5. down'[c] = Hears(c, m)
    <3>1. down'[c] = Hears(c, <<Msg("YOUJOINED", mask, nick)>> \o others)
      BY <1>38
    <3> QED BY <2>4, <3>1
  <2>6. x.cmd = "YOUJOINED" /\ x.arg = mask /\ x.nick = nick
    BY <2>4 DEF Msg
  <2>7. /\ IsSeq(others)
        /\ \A i \in DOMAIN others : /\ others[i].cmd = "PLAYERJOINED" /\ others[i].nick \in DOMAIN roster
                                      /\ others[i].arg = roster[others[i].nick]
        /\ \A n \in DOMAIN roster : \E i \in DOMAIN others : others[i].nick = n
    <3>1. Others(S, others)
      BY <1>2 DEF Others
    <3>2. Introduce(others)
      BY <3>1, OthersAre
    <3> QED BY ONLY <3>2 DEF Introduce
  <2>10. /\ IsSeq(m) /\ m # <<>> /\ m[1] = x /\ Tail(m) = others /\ Len(m) = Len(others) + 1
         /\ \A i \in 1 .. Len(others) : m[i + 1] = others[i]
    <3>1. Leads(x, others, m)
      BY <2>4, <2>7 DEF Leads
    <3> QED BY ONLY <3>1, SeqCons
  <2>11. \A i \in DOMAIN m : m[i].cmd = "YOUJOINED" => i = 1
    <3>1. SUFFICES ASSUME NEW i \in DOMAIN m, i # 1 PROVE m[i].cmd # "YOUJOINED"
      OBVIOUS
    <3>2. Len(others) \in Nat /\ DOMAIN others = 1 .. Len(others) /\ DOMAIN m = 1 .. (Len(others) + 1)
      BY <2>7, <2>10, SeqShape
    <3>3. i - 1 \in 1 .. Len(others) /\ (i - 1) + 1 = i
      BY <3>1, <3>2
    <3> QED BY <2>7, <2>10, <3>2, <3>3
  <2>12. CASE connected[c]
    <3>1. MDFNnetplay[c] /\ receiving[c] /\ ~ Joined[c] /\ up[c] = <<Joins>> /\ PlayersList[c] = <<>>
          /\ down[c] = <<>>
      BY <1>31, <2>3, <2>12 DEF Linked
    <3>2. v = <<>> /\ IsSeq(v) /\ DOMAIN v = {}
      <4>1. v = <<>>
        BY <1>10, <3>1, SeqOne
      <4> QED BY <4>1, EmptyIsSeq
    <3>3. down'[c] = m
      <4>1. down'[c] = down[c] \o m
        BY <2>5, <2>12 DEF Hears
      <4> QED BY <2>10, <3>1, <4>1, NoneBefore
    <3>4. Linked(TRUE, connected[c], MDFNnetplay[c], receiving[c], Joined[c], PlayersList[c], v, m, mask)
      BY <2>3, <2>6, <2>10, <2>11, <2>12, <3>1, <3>2 DEF Linked
    <3>5. LinkedAt(c)'
      BY <1>9, <1>11, <2>1, <2>2, <3>3, <3>4 DEF LinkedAt
    <3>6. LaidOutAt(c)'
      BY <1>11, <2>1, <3>1, <3>2 DEF LaidOutAt, LaidOut
    <3>7. KnowsAt(c)'
      <4>1. PICK l, me, lpm, R2, base : /\ l = PlayersList[c] /\ me = OurNick[c] /\ lpm = LocalPlayersMask[c]
                                        /\ R2 = roster' /\ base = Listed(l, x)
        OBVIOUS
      <4>2. base = [n \in {nick} |-> mask]
        <5>1. base = Put(l, nick, mask)
          BY <2>6, <4>1 DEF Listed
        <5>2. DOMAIN l = {}
          BY <3>1, <4>1, EmptyIsSeq
        <5> QED BY <5>1, <5>2 DEF Put
      <4>3. R2 = [n \in {nick} \cup DOMAIN roster |-> IF n = nick THEN mask ELSE roster[n]]
        BY <1>34, <4>1 DEF Put
      <4>5. Fold("listed", base, others) = R2
        <5>1. Fold("listed", base, others) = WithOne(roster, nick, mask)
          <6>1. Joining(roster, others, nick, mask, base)
            BY <1>6, <2>7, <4>2 DEF Joining
          <6> QED BY ONLY <6>1, FoldJoins
        <5> QED BY <4>3, <5>1 DEF WithOne
      <4>6. Steady("named", others) /\ Steady("seated", others)
        BY <2>7 DEF Steady, Does, Named, Seated
      <4>7. Fold("named", nick, others) = nick /\ Fold("seated", mask, others) = mask
        BY <2>7, <4>6, FoldSteady
      <4>8. R2[nick] = mask
        BY <4>3
      <4>9. Knows(base, nick, mask, others, R2, nick)
        BY <4>5, <4>7, <4>8 DEF Knows
      <4>10. Named(me, x) = nick /\ Seated(lpm, x) = mask
        BY <2>6 DEF Named, Seated
      <4>11. Knows(Listed(l, m[1]), Named(me, m[1]), Seated(lpm, m[1]), others, R2, nick)
        BY <2>10, <4>1, <4>9, <4>10
      <4>12. IsSeq(m) /\ m # <<>> /\ others = Tail(m)
        BY <2>10
      <4>13. Knows(l, me, lpm, m, R2, nick)
        BY ONLY <4>11, <4>12, KnowsTail
      <4>14. nickOf'[c] = nick
        BY <1>33 DEF Put
      <4> QED BY <2>1, <3>3, <4>1, <4>13, <4>14 DEF KnowsAt
    <3> QED BY <3>5, <3>6, <3>7
  <2>13. CASE ~ connected[c]
    <3>1. ~ MDFNnetplay[c] /\ ~ receiving[c] /\ ~ Joined[c] /\ up[c] = <<Joins, Closed>> /\ PlayersList[c] = <<>>
          /\ down[c] = <<>>
      BY <1>31, <2>3, <2>13 DEF Linked
    <3>2. IsSeq(v) /\ Len(v) = 1 /\ DOMAIN v = 1 .. 1 /\ v[1] = Closed
      <4>1. IsSeq(up[c]) /\ up[c] # <<>>
        BY <1>31, <2>3 DEF Linked
      <4>2. Len(up[c]) = 2 /\ up[c][2] = Closed
        BY <3>1
      <4>3. IsSeq(Tail(up[c])) /\ Len(Tail(up[c])) = Len(up[c]) - 1
            /\ \A i \in 1 .. (Len(up[c]) - 1) : Tail(up[c])[i] = up[c][i + 1]
        BY ONLY <4>1, SeqTail
      <4>4. IsSeq(v) /\ Len(v) = 1 /\ v[1] = up[c][2]
        BY ONLY <1>10, <4>2, <4>3
      <4> QED BY <4>2, <4>4, SeqShape
    <3>3. down'[c] = <<>>
      BY <2>5, <2>13 DEF Hears
    <3>4. Linked(TRUE, connected[c], MDFNnetplay[c], receiving[c], Joined[c], PlayersList[c], v, down[c], mask)
      <4>1. v # <<>>
        BY <3>2, EmptyIsSeq
      <4>2. \A i \in DOMAIN v : v[i].cmd = "closed" /\ Asks(v[i]) /\ i = Len(v)
        BY <3>2 DEF Closed, Asks
      <4>3. IsSeq(down[c]) /\ DOMAIN down[c] = {}
        BY <3>1, EmptyIsSeq
      <4> QED BY <2>3, <2>13, <3>1, <3>2, <4>1, <4>2, <4>3 DEF Linked, Leaves
    <3>5. LinkedAt(c)'
      BY <1>9, <1>11, <2>1, <2>2, <3>1, <3>3, <3>4 DEF LinkedAt
    <3>6. LaidOutAt(c)'
      BY <1>11, <2>1, <3>1, <3>2 DEF LaidOutAt, LaidOut
    <3>7. KnowsAt(c)'
      BY <2>1, <2>13 DEF KnowsAt
    <3> QED BY <3>5, <3>6, <3>7
  <2> QED BY <2>12, <2>13
<1>17. \A e \in Clients : LinkedAt(e)' /\ LaidOutAt(e)' /\ KnowsAt(e)'
  BY <1>15, <1>16
<1> QED BY <1>8, <1>14, <1>17 DEF IInv


-----------------------------------------------------------------------------
(* The invariant holds.                                                      *)

LEMMA EmptyMap == \A s, S : s = <<>> => s \in [{} -> S]
<1>1. SUFFICES ASSUME NEW s, NEW S, s = <<>> PROVE s \in [{} -> S]
  OBVIOUS
<1>2. IsSeq(s) /\ DOMAIN s = {} /\ Len(s) = 0
  BY <1>1, EmptyIsSeq
<1>3. s = [i \in 1 .. Len(s) |-> s[i]]
  BY ONLY <1>2, SeqShape
<1>4. s = [i \in {} |-> s[i]]
  BY ONLY <1>2, <1>3
<1> QED BY ONLY <1>4

LEMMA InitHolds == ASSUME Init PROVE IInv
<1>1. /\ connected = [c \in Clients |-> FALSE] /\ MDFNnetplay = connected /\ receiving = connected
      /\ Joined = connected
      /\ LocalPlayersMask = [c \in Clients |-> {}] /\ PlayersList = [c \in Clients |-> <<>>]
      /\ OurNick = [c \in Clients |-> ""]
      /\ mach = [c \in Clients |-> <<c>>]
      /\ up = [c \in Clients |-> <<>>] /\ down = up
      /\ inGame = {} /\ nickOf = <<>> /\ roster = <<>>
      /\ agreed = [c \in Clients |-> {}]
      /\ strayed = [c \in Clients |-> TRUE]
  BY DEF Init
<1>2. Maps
  BY <1>1 DEF Maps, IsMap
<1>3. Served
  <2>1. nickOf \in [{} -> Names] /\ roster \in [{} -> SUBSET Ports]
    BY <1>1, EmptyMap
  <2>2. {nickOf[c] : c \in inGame} = {} /\ inGame = {}
    BY <1>1
  <2> QED BY <2>1, <2>2 DEF Served
<1>4. ASSUME NEW c \in Clients PROVE LinkedAt(c) /\ LaidOutAt(c) /\ KnowsAt(c)
  <2>1. ~ connected[c] /\ ~ MDFNnetplay[c] /\ ~ receiving[c] /\ ~ Joined[c] /\ c \notin inGame
        /\ connected[c] \in BOOLEAN /\ MDFNnetplay[c] \in BOOLEAN /\ receiving[c] \in BOOLEAN
        /\ Joined[c] \in BOOLEAN
    BY <1>1
  <2>2. up[c] = <<>> /\ down[c] = <<>> /\ PlayersList[c] = <<>>
    BY <1>1
  <2>3. IsSeq(up[c]) /\ IsSeq(down[c])
    BY <2>2, EmptyIsSeq
  <2>4. LinkedAt(c)
    BY <2>1, <2>2, <2>3 DEF LinkedAt, Linked
  <2>5. LaidOutAt(c) /\ KnowsAt(c)
    BY <2>1 DEF LaidOutAt, LaidOut, KnowsAt
  <2> QED BY <2>4, <2>5
<1> QED BY <1>2, <1>3, <1>4 DEF IInv

LEMMA StutterKeeps == ASSUME IInv, UNCHANGED vars PROVE IInv'
<1>1. /\ UNCHANGED <<connected, MDFNnetplay, receiving>>
      /\ UNCHANGED <<LocalPlayersMask, OurNick, PlayersList, Joined>>
      /\ UNCHANGED <<mach, up, down, inGame, nickOf, roster, agreed, strayed>>
  BY DEF vars, connection, seats, server
<1>2. Maps' /\ Served'
  BY <1>1 DEF IInv, Maps, Served, IsMap
<1>3. ASSUME NEW c \in Clients PROVE LinkedAt(c)' /\ LaidOutAt(c)' /\ KnowsAt(c)'
  <2>1. LinkedAt(c) /\ LaidOutAt(c) /\ KnowsAt(c)
    BY DEF IInv
  <2> QED BY <1>1, <2>1 DEF LinkedAt, LaidOutAt, KnowsAt
<1> QED BY <1>2, <1>3 DEF IInv

LEMMA StepKeeps == ASSUME IInv, [Next]_vars PROVE IInv'
<1>1. ASSUME NEW c \in Clients, Client(c) PROVE IInv'
  <2>1. CASE MDFNI_NetplayConnect(c)
    BY <2>1, ConnectKeeps
  <2>2. CASE MDFN_QSimpleCommand(c) \/ MDFNI_LoadState(c) \/ MDFNI_NetplayLine(c)
    BY <2>2, CommandKeeps
  <2>3. CASE CC_quit(c)
    BY <2>3, QuitKeeps
  <2>4. CASE NetError(c)
    BY <2>4, ErrorKeeps
  <2>5. CASE NetplayStart(c)
    BY <2>5, StartKeeps
  <2>6. CASE SendInput(c)
    BY <2>6, InputKeeps
  <2>7. CASE Receive(c)
    BY <2>7, ReceiveKeeps
  <2> QED BY <1>1, <2>1, <2>2, <2>3, <2>4, <2>5, <2>6, <2>7 DEF Client
<1>2. ASSUME NEW c \in Clients, Login(c) PROVE IInv'
  BY <1>2, LoginKeeps
<1>3. ASSUME NEW c \in Clients, Serve(c) PROVE IInv'
  BY <1>3, ServeKeeps
<1>4. CASE Frame
  BY <1>4, FrameKeeps
<1>5. CASE UNCHANGED vars
  BY <1>5, StutterKeeps
<1> QED BY <1>1, <1>2, <1>3, <1>4, <1>5 DEF Next

\* The invariant that the players and the server keep between them, from which what
\* follows is read off.
THEOREM Invariant == Spec => []IInv
<1>1. Init => IInv
  BY InitHolds
<1>2. IInv /\ [Next]_vars => IInv'
  BY StepKeeps
<1> QED BY <1>1, <1>2, PTL DEF Spec

\* ControllersAgree: whatever the players and the server do, and whenever the
\* controllers change, the server reads all that a client has sent by the controllers
\* the client laid it out by (netplay.cpp, SendCommand and CTRL_CHANGE_ACK).
THEOREM ControllersHold == Spec => []ControllersAgree
<1>1. IInv => ControllersAgree
  <2>1. SUFFICES ASSUME IInv, NEW c \in inGame, NEW i \in DOMAIN up[c], up[c][i] # Closed
                 PROVE  up[c][i].lpm =
                          FoldLeft(LAMBDA dealt, msg : IF msg.cmd = "CTRL_CHANGE_ACK" THEN msg.arg ELSE dealt,
                                   agreed[c], SubSeq(up[c], 1, i - 1))
    BY DEF ControllersAgree
  <2>2. PICK x, s : x = agreed[c] /\ s = SubSeq(up[c], 1, i - 1)
    OBVIOUS
  <2>3. FoldLeft(LAMBDA dealt, msg : IF msg.cmd = "CTRL_CHANGE_ACK" THEN msg.arg ELSE dealt, x, s)
          = Fold("held", x, s)
    BY FoldsAre
  <2>4. LaidOutAt(c)
    BY <2>1 DEF IInv, Maps
  <2>5. up[c][i].lpm = Fold("held", agreed[c], SubSeq(up[c], 1, i - 1))
    BY <2>1, <2>4 DEF LaidOutAt, LaidOut
  <2> QED BY <2>2, <2>3, <2>5
<1> QED BY <1>1, Invariant, PTL

\* PlayersInSync: "[BUG] Players list state out of sync." (netplay.cpp:800) never: with
\* what it has yet to read, every client knows who plays and as whom, which of them it
\* is, and that its controllers are those the others think it has.
THEOREM PlayersHold == Spec => []PlayersInSync
<1>1. IInv => PlayersInSync
  <2>1. SUFFICES ASSUME IInv, NEW c \in inGame, connected[c]
                 PROVE  /\ FoldLeft(Listed, PlayersList[c], down[c]) = roster
                        /\ FoldLeft(Named, OurNick[c], down[c]) = nickOf[c]
                        /\ FoldLeft(Seated, LocalPlayersMask[c], down[c]) = roster[nickOf[c]]
    BY DEF PlayersInSync
  <2>2. KnowsAt(c)
    BY <2>1 DEF IInv, Maps
  <2>3. /\ Fold("listed", PlayersList[c], down[c]) = roster
        /\ Fold("named", OurNick[c], down[c]) = nickOf[c]
        /\ Fold("seated", LocalPlayersMask[c], down[c]) = roster[nickOf[c]]
    BY <2>1, <2>2 DEF KnowsAt, Knows
  <2> QED BY <2>3, FoldsAre
<1> QED BY <1>1, Invariant, PTL

-----------------------------------------------------------------------------
(* The machines.  What a client's machine is once it has been fed all that    *)
(* is on the way to it only changes when the server says something about it, *)
(* which it says to everyone; whoever follows has followed before, or a state *)
(* has been sent to all.                                                     *)

OfMachine == {"", "RESET", "LOADSTATE"}
Quiet(s) == IsSeq(s) /\ \A i \in DOMAIN s : s[i].cmd \notin OfMachine
Brings(d) == \E i \in DOMAIN d : d[i].cmd = "LOADSTATE"
Follows(c) == c \in inGame /\ connected[c] /\ (~ strayed[c] \/ Brings(down[c]))
Becomes(c) == Fold("fed", mach[c], down[c])
Agree == \A c, d \in Clients : Follows(c) /\ Follows(d) => Becomes(c) = Becomes(d)

LEMMA AgreeIs == Agree <=> MachinesAgree
<1>1. \A c \in Clients : FoldLeft(Fed, mach[c], down[c]) = Becomes(c)
  BY FoldsAre DEF Becomes
<1>2. \A c \in Clients : InStep(c) <=> Follows(c)
  BY DEF InStep, Follows, Brings, Range
<1> QED BY <1>1, <1>2 DEF Agree, MachinesAgree

\* Nobody follows who did not, or becomes anything else.
Stays(d) == Follows(d)' => Follows(d) /\ Becomes(d)' = Becomes(d)

LEMMA AgreeKeeps ==
  ASSUME Agree, \A d \in Clients : Stays(d)
  PROVE  Agree'
BY DEF Agree, Stays

Unmoved(d) == /\ mach'[d] = mach[d] /\ down'[d] = down[d] /\ strayed'[d] = strayed[d]
              /\ d \in inGame' /\ connected'[d] => d \in inGame /\ connected[d]

LEMMA UnmovedStays ==
  ASSUME NEW d, Unmoved(d) PROVE Stays(d)
<1>1. /\ mach'[d] = mach[d] /\ down'[d] = down[d] /\ strayed'[d] = strayed[d]
      /\ d \in inGame' /\ connected'[d] => d \in inGame /\ connected[d]
  BY DEF Unmoved
<1>2. Becomes(d)' = Becomes(d)
  BY <1>1 DEF Becomes
<1>3. Follows(d)' => Follows(d)
  <2>1. ~ strayed'[d] => ~ strayed[d]
    BY ONLY <1>1
  <2>2. Brings(down[d])' => Brings(down[d])
    BY <1>1 DEF Brings
  <2> QED BY <1>1, <2>1, <2>2 DEF Follows
<1> QED BY <1>2, <1>3 DEF Stays

LEMMA AwayStays ==
  ASSUME NEW d, d \notin inGame' \/ ~ connected'[d] PROVE Stays(d)
BY DEF Stays, Follows

\* What does not concern the machine.
LEMMA QuietNone ==
  ASSUME NEW s, s = <<>> PROVE Quiet(s)
BY EmptyIsSeq DEF Quiet

LEMMA QuietOne ==
  ASSUME NEW a, a.cmd \notin OfMachine, NEW s, s = <<a>> PROVE Quiet(s)
BY SeqOne DEF Quiet

Spliced(s, t, u) == IsSeq(s) /\ IsSeq(t) /\ u = s \o t

\* Every message of two sequences, one after the other, is of one of them.
LEMMA OfEither ==
  ASSUME NEW s, NEW t, NEW u, Spliced(s, t, u)
  PROVE  /\ IsSeq(u)
         /\ \A i \in DOMAIN u : (i \in DOMAIN s /\ u[i] = s[i]) \/ \E k \in DOMAIN t : u[i] = t[k]
<1>0. IsSeq(s) /\ IsSeq(t) /\ u = s \o t
  BY DEF Spliced
<1>1. Len(s) \in Nat /\ Len(t) \in Nat /\ DOMAIN s = 1 .. Len(s) /\ DOMAIN t = 1 .. Len(t)
  BY <1>0, SeqShape
<1>2. /\ IsSeq(s \o t) /\ Len(s \o t) = Len(s) + Len(t)
      /\ \A i \in 1 .. Len(s) : (s \o t)[i] = s[i]
      /\ \A i \in 1 .. Len(t) : (s \o t)[Len(s) + i] = t[i]
  BY ONLY <1>0, SeqConcat
<1>3. /\ IsSeq(u) /\ Len(u) = Len(s) + Len(t)
      /\ \A i \in 1 .. Len(s) : u[i] = s[i]
      /\ \A i \in 1 .. Len(t) : u[Len(s) + i] = t[i]
  BY ONLY <1>0, <1>2
<1>4. DOMAIN u = 1 .. (Len(s) + Len(t))
  BY <1>3, SeqShape
<1>5. ASSUME NEW i \in DOMAIN u, i \notin 1 .. Len(s) PROVE \E k \in DOMAIN t : u[i] = t[k]
  <2>1. i - Len(s) \in 1 .. Len(t) /\ Len(s) + (i - Len(s)) = i
    BY <1>1, <1>4, <1>5
  <2>2. u[i] = t[i - Len(s)]
    BY <1>3, <2>1
  <2> QED BY <1>1, <2>1, <2>2
<1> QED BY <1>1, <1>3, <1>5

LEMMA QuietConcat ==
  ASSUME NEW s, NEW t, Quiet(s), Quiet(t), NEW u, u = s \o t PROVE Quiet(u)
<1>1. Spliced(s, t, u)
  BY DEF Quiet, Spliced
<1>2. /\ IsSeq(u)
      /\ \A i \in DOMAIN u : (i \in DOMAIN s /\ u[i] = s[i]) \/ \E k \in DOMAIN t : u[i] = t[k]
  BY ONLY <1>1, OfEither
<1> QED BY <1>2 DEF Quiet

LEMMA QuietStays ==
  ASSUME NEW d, NEW m, Quiet(m), IsSeq(down[d]), down'[d] = down[d] \o m,
         mach'[d] = mach[d], strayed'[d] = strayed[d],
         d \in inGame' /\ connected'[d] => d \in inGame /\ connected[d]
  PROVE  Stays(d)
<1>1. PICK s, u : s = down[d] /\ u = down'[d]
  OBVIOUS
<1>2. IsSeq(s) /\ IsSeq(m) /\ u = s \o m
  BY <1>1 DEF Quiet
<1>3. Fold("fed", mach[d], s \o m) = Fold("fed", Fold("fed", mach[d], s), m)
  <2>1. PICK x : x = mach[d]
    OBVIOUS
  <2>2. Fold("fed", x, s \o m) = Fold("fed", Fold("fed", x, s), m)
    BY ONLY <1>2, FoldConcat
  <2> QED BY <2>1, <2>2
<1>4. Steady("fed", m)
  BY DEF Steady, Quiet, Does, Fed, OfMachine
<1>5. \A x : Fold("fed", x, m) = x
  BY <1>2, <1>4, FoldSteady
<1>6. Becomes(d)' = Becomes(d)
  BY <1>1, <1>2, <1>3, <1>5 DEF Becomes
<1>7. Brings(u) => Brings(s)
  <2>1. \A i \in DOMAIN u : (i \in DOMAIN s /\ u[i] = s[i]) \/ \E k \in DOMAIN m : u[i] = m[k]
    <3>1. Spliced(s, m, u)
      BY <1>2 DEF Spliced
    <3> QED BY ONLY <3>1, OfEither
  <2> QED BY <2>1 DEF Brings, Quiet, OfMachine
<1> QED BY <1>1, <1>6, <1>7 DEF Stays, Follows

LEMMA DownIsSeq ==
  ASSUME IInv, NEW d \in Clients PROVE IsSeq(down[d])
BY DEF IInv, LinkedAt, Linked

\* The server says something to everyone.
LEMMA TellQuiet ==
  ASSUME IInv, Agree, NEW msg, Tell(<<msg>>), msg.cmd \notin OfMachine,
         UNCHANGED <<connected, mach, strayed>>, inGame' \subseteq inGame
  PROVE  Agree'
<1>1. PICK m : m = <<msg>>
  OBVIOUS
<1>2. Quiet(m)
  BY <1>1, QuietOne
<1>3. down' = [c \in Clients |-> IF c \in inGame THEN Hears(c, m) ELSE down[c]]
  BY <1>1 DEF Tell
<1>4. ASSUME NEW d \in Clients PROVE Stays(d)
  <2>1. CASE d \in inGame /\ connected[d]
    <3>1. down'[d] = down[d] \o m
      BY <1>3, <2>1 DEF Hears
    <3> QED BY <1>2, <2>1, <3>1, DownIsSeq, QuietStays
  <2>2. CASE ~ (d \in inGame /\ connected[d])
    BY <2>2, AwayStays
  <2> QED BY <2>1, <2>2
<1> QED BY <1>4, AgreeKeeps

LEMMA TellAll ==
  ASSUME IInv, Agree, NEW msg, Tell(<<msg>>), msg.cmd \in OfMachine,
         UNCHANGED <<connected, mach, strayed, inGame>>
  PROVE  Agree'
<1>1. PICK m : m = <<msg>>
  OBVIOUS
<1>2. IsSeq(m) /\ Len(m) = 1 /\ m[1] = msg /\ DOMAIN m = 1 .. 1
  BY <1>1, SeqOne
<1>3. down' = [c \in Clients |-> IF c \in inGame THEN Hears(c, m) ELSE down[c]]
  BY <1>1 DEF Tell
<1>4. ASSUME NEW d \in Clients, Follows(d)'
      PROVE  /\ Becomes(d)' = Fed(Becomes(d), msg)
             /\ msg.cmd # "LOADSTATE" => Follows(d)
  <2>1. d \in inGame /\ connected[d]
    BY <1>4 DEF Follows
  <2>2. PICK s, u, x : s = down[d] /\ u = down'[d] /\ x = mach[d]
    OBVIOUS
  <2>3. u = s \o m /\ IsSeq(s)
    BY <1>3, <2>1, <2>2, DownIsSeq DEF Hears
  <2>4. Fold("fed", x, s \o m) = Fold("fed", Fold("fed", x, s), m)
    BY ONLY <1>2, <2>3, FoldConcat
  <2>5. PICK y : y = Fold("fed", x, s)
    OBVIOUS
  <2>6. Fold("fed", y, m) = Fed(y, msg)
    <3>1. Fold("fed", y, m) = Does("fed", y, msg)
      BY ONLY <1>1, FoldOne
    <3> QED BY <3>1 DEF Does
  <2>7. Becomes(d)' = Fed(Becomes(d), msg)
    BY <2>2, <2>3, <2>4, <2>5, <2>6 DEF Becomes
  <2>8. ASSUME msg.cmd # "LOADSTATE", Brings(u) PROVE Brings(s)
    <3>1. \A i \in DOMAIN u : (i \in DOMAIN s /\ u[i] = s[i]) \/ \E k \in DOMAIN m : u[i] = m[k]
      <4>1. Spliced(s, m, u)
        BY <1>2, <2>3 DEF Spliced
      <4> QED BY ONLY <4>1, OfEither
    <3>2. \A k \in DOMAIN m : m[k].cmd # "LOADSTATE"
      BY <1>2, <2>8
    <3> QED BY <2>8, <3>1, <3>2 DEF Brings
  <2> QED BY <1>4, <2>2, <2>7, <2>8 DEF Follows
<1>5. SUFFICES ASSUME NEW c \in Clients, NEW d \in Clients, Follows(c)', Follows(d)'
               PROVE  Becomes(c)' = Becomes(d)'
  BY DEF Agree
<1>6. CASE msg.cmd = "LOADSTATE"
  <2>1. \A x : Fed(x, msg) = msg.arg
    BY <1>6 DEF Fed
  <2> QED BY <1>4, <1>5, <2>1
<1>7. CASE msg.cmd # "LOADSTATE"
  BY <1>4, <1>5, <1>7 DEF Agree
<1> QED BY <1>6, <1>7

LEMMA HeldQuiet ==
  ASSUME IInv, Agree, NEW dealt, NEW msgs, TellHeld(dealt, msgs), Quiet(msgs),
         UNCHANGED <<connected, mach, strayed, inGame>>
  PROVE  Agree'
<1>1. down' = [c \in Clients |->
           IF c \notin inGame THEN down[c]
           ELSE Hears(c, (IF dealt[c] = Held[c] THEN <<>> ELSE <<Msg("CTRL_CHANGE", dealt[c], "")>>) \o msgs)]
  BY DEF TellHeld
<1>2. ASSUME NEW d \in Clients PROVE Stays(d)
  <2>1. CASE d \in inGame /\ connected[d]
    <3>1. PICK pre, m, a : /\ a = Msg("CTRL_CHANGE", dealt[d], "")
                           /\ pre = IF dealt[d] = Held[d] THEN <<>> ELSE <<a>>
                           /\ m = pre \o msgs
      OBVIOUS
    <3>2. down'[d] = down[d] \o m
      BY <1>1, <2>1, <3>1 DEF Hears
    <3>3. a.cmd \notin OfMachine
      BY <3>1 DEF Msg, OfMachine
    <3>4. Quiet(pre)
      BY <3>1, <3>3, QuietNone, QuietOne
    <3>5. Quiet(m)
      BY <3>1, <3>4, QuietConcat
    <3> QED BY <2>1, <3>2, <3>5, DownIsSeq, QuietStays
  <2>2. CASE ~ (d \in inGame /\ connected[d])
    BY <2>2, AwayStays
  <2> QED BY <2>1, <2>2
<1> QED BY <1>2, AgreeKeeps

\* What the players do.
LEMMA ClientAgree ==
  ASSUME IInv, Agree, NEW c \in Clients, Client(c)
  PROVE  Agree'
<1>0. Maps /\ LinkedAt(c)
  BY DEF IInv
<1>1. CASE MDFNI_NetplayConnect(c)
  <2>1. /\ c \notin inGame /\ connected' = [connected EXCEPT ![c] = TRUE]
        /\ UNCHANGED <<mach, down, strayed, inGame>>
    BY <1>1 DEF MDFNI_NetplayConnect, server
  <2>2. ASSUME NEW d \in Clients PROVE Stays(d)
    <3>1. CASE d = c
      BY <2>1, <3>1, AwayStays
    <3>2. CASE d # c
      <4>1. connected'[d] = connected[d]
        BY <1>0, <2>1, <3>2 DEF Maps, IsMap
      <4> QED BY <2>1, <4>1, UnmovedStays DEF Unmoved
    <3> QED BY <3>1, <3>2
  <2> QED BY <2>2, AgreeKeeps
<1>2. CASE MDFN_QSimpleCommand(c) \/ MDFNI_NetplayLine(c) \/ NetplayStart(c) \/ SendInput(c)
  <2>1. UNCHANGED <<connected, mach, down, strayed, inGame>>
    BY <1>2 DEF MDFN_QSimpleCommand, MDFNI_NetplayLine, NetplayStart, SendInput, connection, server
  <2> QED BY <2>1, UnmovedStays, AgreeKeeps DEF Unmoved
<1>3. CASE MDFNI_LoadState(c)
  <2>1. /\ mach' = [mach EXCEPT ![c] = Saved] \/ LoadFails(c)
        /\ strayed' = [strayed EXCEPT ![c] = TRUE] /\ UNCHANGED <<connected, down, inGame>>
    BY <1>3 DEF MDFNI_LoadState, connection, server
  <2>2. ASSUME NEW d \in Clients PROVE Stays(d)
    <3>1. CASE d # c
      <4>1. mach'[d] = mach[d] /\ strayed'[d] = strayed[d]
        <5>1. LoadFails(c) => mach'[d] = mach[d]
          BY <1>0, <3>1, FailedIsMap DEF Maps
        <5> QED BY <1>0, <2>1, <3>1, <5>1 DEF Maps, IsMap
      <4> QED BY <2>1, <4>1, UnmovedStays DEF Unmoved
    <3>2. CASE d = c
      <4>1. strayed'[c] = TRUE
        BY <1>0, <2>1 DEF Maps, IsMap
      <4>2. SUFFICES ASSUME Follows(c)' PROVE Follows(c) /\ Becomes(c)' = Becomes(c)
        BY <3>2 DEF Stays
      <4>3. c \in inGame /\ connected[c] /\ Brings(down[c])
        BY <2>1, <4>1, <4>2 DEF Follows
      <4>4. PICK b, x, s : b = mach'[c] /\ x = mach[c] /\ s = down[c]
        OBVIOUS
      <4>5. Fold("fed", b, s) = Fold("fed", x, s)
        <5>1. PICK j \in DOMAIN s : s[j].cmd = "LOADSTATE"
          BY <4>3, <4>4 DEF Brings
        <5>2. \A y, z : Does("fed", y, s[j]) = Does("fed", z, s[j])
          BY <5>1 DEF Does, Fed
        <5>3. IsSeq(s)
          BY <4>4, DownIsSeq
        <5> QED BY <5>2, <5>3, FoldForgets
      <4> QED BY <2>1, <4>3, <4>4, <4>5 DEF Follows, Becomes
    <3> QED BY <3>1, <3>2
  <2> QED BY <2>2, AgreeKeeps
<1>4. CASE CC_quit(c) \/ NetError(c)
  <2>1. MDFNI_NetplayDisconnect(c) /\ UNCHANGED <<strayed, inGame>> /\ (UNCHANGED mach \/ LoadFails(c))
    BY <1>4 DEF CC_quit, NetError, server
  <2>2. connected' = [connected EXCEPT ![c] = FALSE] /\ down' = [down EXCEPT ![c] = <<>>]
    BY <2>1 DEF MDFNI_NetplayDisconnect
  <2>3. ASSUME NEW d \in Clients PROVE Stays(d)
    <3>1. CASE d = c
      <4>1. ~ connected'[c]
        BY <1>0, <2>2 DEF Maps, IsMap
      <4> QED BY <3>1, <4>1, AwayStays
    <3>2. CASE d # c
      <4>1. connected'[d] = connected[d] /\ down'[d] = down[d]
        BY <1>0, <2>2, <3>2 DEF Maps, IsMap
      <4>2. mach'[d] = mach[d]
        BY <1>0, <2>1, <3>2, FailedIsMap DEF Maps
      <4> QED BY <2>1, <4>1, <4>2, UnmovedStays DEF Unmoved
    <3> QED BY <3>1, <3>2
  <2> QED BY <2>3, AgreeKeeps
<1>5. CASE Receive(c)
  <2> DEFINE msg == Head(down[c])
  <2>1. /\ down[c] # <<>> /\ down' = [down EXCEPT ![c] = Tail(@)] /\ mach' = [mach EXCEPT ![c] = Fed(@, msg)]
        /\ strayed' = [strayed EXCEPT ![c] = @ /\ msg.cmd # "LOADSTATE"]
        /\ UNCHANGED <<connected, inGame>>
    BY <1>5 DEF Receive, server
  <2>2. ASSUME NEW d \in Clients, d # c PROVE Stays(d)
    <3>1. mach'[d] = mach[d] /\ down'[d] = down[d] /\ strayed'[d] = strayed[d]
      BY <1>0, <2>1, <2>2 DEF Maps, IsMap
    <3> QED BY <2>1, <3>1, UnmovedStays DEF Unmoved
  <2>3. PICK s, t, x : s = down[c] /\ t = Tail(s) /\ x = mach[c]
    OBVIOUS
  <2>4. IsSeq(s) /\ s # <<>> /\ msg = s[1]
    BY <2>1, <2>3, DownIsSeq, HeadIs
  <2>5. /\ IsSeq(t) /\ Len(t) = Len(s) - 1 /\ \A i \in 1 .. (Len(s) - 1) : t[i] = s[i + 1]
        /\ DOMAIN s = 1 .. Len(s) /\ DOMAIN t = 1 .. (Len(s) - 1) /\ Len(s) \in Nat \ {0}
    <3>1. IsSeq(Tail(s)) /\ Len(Tail(s)) = Len(s) - 1 /\ \A i \in 1 .. (Len(s) - 1) : Tail(s)[i] = s[i + 1]
      BY ONLY <2>4, SeqTail
    <3>2. IsSeq(t) /\ Len(t) = Len(s) - 1 /\ \A i \in 1 .. (Len(s) - 1) : t[i] = s[i + 1]
      BY ONLY <2>3, <3>1
    <3>3. DOMAIN s = 1 .. Len(s) /\ Len(s) \in Nat /\ Len(s) # 0
      BY <2>4, SeqShape DEF IsSeq
    <3>4. DOMAIN t = 1 .. (Len(s) - 1)
      BY <3>2, SeqShape
    <3> QED BY <3>2, <3>3, <3>4
  <2>6. down'[c] = t /\ mach'[c] = Fed(x, s[1])
    BY <1>0, <2>1, <2>3, <2>4 DEF Maps, IsMap
  <2>7. strayed'[c] <=> strayed[c] /\ s[1].cmd # "LOADSTATE"
    BY <1>0, <2>1, <2>4 DEF Maps, IsMap
  <2>8. Fold("fed", x, s) = Fold("fed", Does("fed", x, s[1]), Tail(s))
    BY ONLY <2>4, FoldTail
  <2>9. Does("fed", x, s[1]) = Fed(x, s[1])
    BY DEF Does
  <2>10. Becomes(c)' = Becomes(c)
    BY <2>3, <2>6, <2>8, <2>9 DEF Becomes
  <2>11. Follows(c)' => Follows(c)
    <3>1. SUFFICES ASSUME Follows(c)' PROVE ~ strayed[c] \/ Brings(s)
      BY <2>1, <2>3 DEF Follows
    <3>2. CASE ~ strayed'[c]
      <4>1. CASE s[1].cmd = "LOADSTATE"
        BY <2>5, <4>1 DEF Brings
      <4> QED BY <2>7, <3>2, <4>1
    <3>3. CASE Brings(t)
      <4>1. PICK i \in DOMAIN t : t[i].cmd = "LOADSTATE"
        BY <3>3 DEF Brings
      <4>2. i + 1 \in DOMAIN s /\ s[i + 1] = t[i]
        BY <2>5
      <4> QED BY <4>1, <4>2 DEF Brings
    <3> QED BY <2>6, <3>1, <3>2, <3>3 DEF Follows
  <2>12. \A d \in Clients : Stays(d)
    BY <2>2, <2>10, <2>11 DEF Stays
  <2> QED BY <2>12, AgreeKeeps
<1> QED BY <1>1, <1>2, <1>3, <1>4, <1>5 DEF Client

\* A new one has strayed from those who play, or is the first.
LEMMA LoginAgree ==
  ASSUME IInv, Agree, NEW c \in Clients, Login(c)
  PROVE  Agree'
<1>1. Maps /\ Served /\ LinkedAt(c) /\ inGame \subseteq Clients
  BY DEF IInv, Maps
<1>2. inGame' = inGame \cup {c} /\ strayed' = [strayed EXCEPT ![c] = inGame # {}] /\ UNCHANGED clients
  BY DEF Login
<1>3. UNCHANGED <<connected, mach>>
  BY <1>2 DEF clients, connection
<1>4. CASE inGame = {}
  <2>1. \A d \in Clients : Follows(d)' => d = c
    BY <1>2, <1>4 DEF Follows
  <2> QED BY <2>1 DEF Agree
<1>5. CASE inGame # {}
  <2>1. PICK mask, nick, S, others :
          /\ mask = {p \in Ports \ UNION Range(roster) : \A q \in Ports \ UNION Range(roster) : p <= q}
          /\ nick = CHOOSE n \in Names : n \notin DOMAIN roster
          /\ S = {Msg("PLAYERJOINED", roster[n], n) : n \in DOMAIN roster}
          /\ others = SetToSeq(S)
    OBVIOUS
  <2>2. PICK asked \in IF inGame = {} THEN {c} ELSE inGame :
          down' = [d \in Clients |->
            CASE d = c -> Hears(c, <<Msg("YOUJOINED", mask, nick)>> \o others)
              [] d \in inGame -> Hears(d, <<Msg("PLAYERJOINED", mask, nick)>> \o
                                        (IF d = asked THEN <<Msg("REQUEST_STATE", 0, "")>> ELSE <<>>))
              [] OTHER -> down[d]]
    BY <2>1 DEF Login
  <2>3. PICK x, y, z : /\ x = Msg("YOUJOINED", mask, nick) /\ y = Msg("PLAYERJOINED", mask, nick)
                       /\ z = Msg("REQUEST_STATE", 0, "")
    OBVIOUS
  <2>4. x.cmd \notin OfMachine /\ y.cmd \notin OfMachine /\ z.cmd \notin OfMachine
    BY <2>3 DEF Msg, OfMachine
  <2>5. c \notin inGame
    BY NotYet
  <2>6. ASSUME NEW d \in Clients, d # c PROVE Stays(d)
    <3>1. CASE d \in inGame /\ connected[d]
      <4>1. PICK s, t, m : s = <<y>> /\ t = (IF d = asked THEN <<z>> ELSE <<>>) /\ m = s \o t
        OBVIOUS
      <4>2. down'[d] = Hears(d, m)
        BY <2>2, <2>3, <2>6, <3>1, <4>1
      <4>3. down'[d] = down[d] \o m
        BY <3>1, <4>2 DEF Hears
      <4>4. Quiet(s)
        BY <2>4, <4>1, QuietOne
      <4>5. Quiet(t)
        BY <2>4, <4>1, QuietOne, QuietNone
      <4>6. Quiet(m)
        BY <4>1, <4>4, <4>5, QuietConcat
      <4>7. strayed'[d] = strayed[d]
        BY <1>1, <1>2, <2>6 DEF Maps, IsMap
      <4> QED BY <1>3, <3>1, <4>3, <4>6, <4>7, DownIsSeq, QuietStays
    <3>2. CASE ~ (d \in inGame /\ connected[d])
      <4>1. d \notin inGame' \/ ~ connected'[d]
        BY <1>2, <1>3, <2>6, <3>2
      <4> QED BY <4>1, AwayStays
    <3> QED BY <3>1, <3>2
  <2>7. Stays(c)
    <3>1. SUFFICES ASSUME Follows(c)' PROVE FALSE
      BY DEF Stays
    <3>2. strayed'[c] /\ connected[c] /\ Brings(down'[c])
      BY <1>1, <1>2, <1>3, <1>5, <3>1 DEF Follows, Maps, IsMap
    <3>3. PICK s, m : s = <<x>> /\ m = s \o others
      OBVIOUS
    <3>4. down'[c] = Hears(c, m)
      <4>1. (c \in inGame) = FALSE
        BY <2>5
      <4> QED BY <2>2, <2>3, <3>3, <4>1
    <3>5. down'[c] = down[c] \o m
      BY <3>2, <3>4 DEF Hears
    <3>6. Quiet(s)
      BY <2>4, <3>3, QuietOne
    <3>7. Introduce(others)
      <4>1. Others(S, others)
        BY <2>1 DEF Others
      <4> QED BY <4>1, OthersAre
    <3>8. Quiet(others)
      BY <3>7 DEF Introduce, Quiet, OfMachine
    <3>9. Quiet(m)
      BY <3>3, <3>6, <3>8, QuietConcat
    <3>10. down[c] = <<>>
      BY <1>1, <2>5 DEF LinkedAt, Linked
    <3>11. down'[c] = m
      <4>1. IsSeq(m)
        BY <3>9 DEF Quiet
      <4> QED BY <3>5, <3>10, <4>1, NoneBefore
    <3> QED BY <3>2, <3>9, <3>11 DEF Brings, Quiet, OfMachine
  <2>8. \A d \in Clients : Stays(d)
    BY <2>6, <2>7
  <2> QED BY <2>8, AgreeKeeps
<1> QED BY <1>4, <1>5

\* What the server does with what it is sent.
LEMMA ServeAgree ==
  ASSUME IInv, Agree, NEW c \in Clients, Serve(c)
  PROVE  Agree'
<1> DEFINE msg == Head(up[c])
<1>1. c \in inGame /\ UNCHANGED <<clients, strayed>>
  BY DEF Serve
<1>2. UNCHANGED <<connected, mach, strayed>>
  BY <1>1 DEF clients, connection
<1>3. \/ Input(c, msg) \/ Acknowledged(c, msg) \/ (msg.cmd = "SETFPS" /\ UNCHANGED <<down, server>>)
      \/ Relay(c, msg) \/ Reseat(c, msg) \/ Swap(c, msg) \/ Rename(c, msg) \/ Leave(c, msg)
  BY DEF Serve
<1> HIDE DEF msg
<1>4. ASSUME UNCHANGED <<down, inGame>> PROVE Agree'
  BY <1>2, <1>4, UnmovedStays, AgreeKeeps DEF Unmoved
<1>5. CASE Input(c, msg) \/ Acknowledged(c, msg) \/ (msg.cmd = "SETFPS" /\ UNCHANGED <<down, server>>)
  BY <1>4, <1>5 DEF Input, Acknowledged, server
<1>6. CASE Relay(c, msg)
  <2>1. PICK m : m = Msg(msg.cmd, msg.arg, "")
    OBVIOUS
  <2>2. Tell(<<m>>) /\ UNCHANGED inGame /\ msg.cmd \in {"RESET", "LOADSTATE"}
    BY <1>6, <2>1 DEF Relay, server
  <2>3. m.cmd \in OfMachine
    BY <2>1, <2>2 DEF Msg, OfMachine
  <2> QED BY <1>2, <2>2, <2>3, TellAll
<1>7. CASE Reseat(c, msg)
  <2>1. /\ msg.cmd \in {"TAKE", "DROP", "DUPE"}
        /\ LET dealt == [d \in inGame |->
                 IF d = c THEN IF msg.cmd = "DROP" THEN Held[c] \ msg.arg ELSE Held[c] \cup msg.arg
                 ELSE IF msg.cmd = "TAKE" THEN Held[d] \ msg.arg ELSE Held[d]]
           IN  TellHeld(dealt, SetToSeq({Msg("NOTIF", dealt[d], nickOf[d]) : d \in {e \in inGame : dealt[e] # Held[e]}}))
        /\ UNCHANGED inGame
    BY <1>7 DEF Reseat
  <2>2. PICK dealt : TellHeld(dealt, SetToSeq({Msg("NOTIF", dealt[d], nickOf[d]) : d \in {e \in inGame : dealt[e] # Held[e]}}))
    BY <2>1
  <2> DEFINE E == {e \in inGame : dealt[e] # Held[e]}
             op(d) == Msg("NOTIF", dealt[d], nickOf[d])
             f == [d \in E |-> op(d)]
             T == {op(d) : d \in E}
  <2>3. IsFiniteSet(E)
    <3>1. inGame \in SUBSET Clients /\ IsFiniteSet(Clients)
      BY NetplayAssumption DEF IInv, Maps
    <3>2. IsFiniteSet(inGame) /\ E \in SUBSET inGame
      BY <3>1, FS_Subset
    <3> QED BY <3>2, FS_Subset
  <2>4. f \in Surjection(E, T)
    BY DEF Surjection
  <2>5. \A x \in T : x.cmd = "NOTIF"
    BY DEF Msg
  <2>6. PICK S, s : S = T /\ s = SetToSeq(S)
    OBVIOUS
  <2>7. TellHeld(dealt, s)
    BY <2>2, <2>6
  <2> HIDE DEF E, f, T, op
  <2>8. IsFiniteSet(T)
    BY <2>3, <2>4, FS_Surjection
  <2>9. IsSeq(s) /\ \A i \in DOMAIN s : s[i] \in S
    <3>1. IsFiniteSet(S) /\ s = SetToSeq(S)
      BY <2>6, <2>8
    <3> QED BY ONLY <3>1, SetToSeqIs
  <2>10. Quiet(s)
    BY <2>5, <2>6, <2>9 DEF Quiet, OfMachine
  <2> QED BY <1>2, <2>1, <2>7, <2>10, HeldQuiet
<1>8. CASE Swap(c, msg)
  <2>1. PICK dealt, x, s : /\ x = Msg("SWAP_NOTIF", msg.arg, "") /\ s = <<x>>
                          /\ TellHeld(dealt, s) /\ UNCHANGED inGame
    BY <1>8 DEF Swap
  <2>2. x.cmd \notin OfMachine
    BY <2>1 DEF Msg, OfMachine
  <2>3. Quiet(s)
    BY <2>1, <2>2, QuietOne
  <2> QED BY <1>2, <2>1, <2>3, HeldQuiet
<1>9. CASE Rename(c, msg)
  <2>1. UNCHANGED inGame
    BY <1>9 DEF Rename
  <2>2. CASE msg.arg \in DOMAIN roster
    BY <1>4, <1>9, <2>1, <2>2 DEF Rename
  <2>3. CASE msg.arg \notin DOMAIN roster
    <3>1. PICK m : m = Msg("NICKCHANGED", msg.arg, nickOf[c])
      OBVIOUS
    <3>2. Tell(<<m>>)
      BY <1>9, <2>3, <3>1 DEF Rename
    <3>3. m.cmd \notin OfMachine
      BY <3>1 DEF Msg, OfMachine
    <3> QED BY <1>2, <2>1, <3>2, <3>3, TellQuiet
  <2> QED BY <2>2, <2>3
<1>10. CASE Leave(c, msg)
  <2>1. PICK m : m = Msg("PLAYERLEFT", roster[nickOf[c]], nickOf[c])
    OBVIOUS
  <2>2. Tell(<<m>>) /\ inGame' \subseteq inGame
    BY <1>10, <2>1 DEF Leave
  <2>3. m.cmd \notin OfMachine
    BY <2>1 DEF Msg, OfMachine
  <2> QED BY <1>2, <2>2, <2>3, TellQuiet
<1> QED BY <1>3, <1>5, <1>6, <1>7, <1>8, <1>9, <1>10

LEMMA FrameAgree ==
  ASSUME IInv, Agree, Frame
  PROVE  Agree'
<1>1. PICK msg : msg = Msg("", UNION {pressed[c] : c \in inGame}, "")
  OBVIOUS
<1>2. Tell(<<msg>>) /\ UNCHANGED <<connected, mach, strayed, inGame>>
  BY <1>1 DEF Frame, clients, connection, server
<1>3. msg.cmd \in OfMachine
  BY <1>1 DEF Msg, OfMachine
<1> QED BY <1>2, <1>3, TellAll

\* MachinesAgree: any two clients that have what the server has sent carried out have
\* the same machine: no reset, state or frame reaches one and not the other, or in
\* another order, however far each has got (netplay.cpp, Netplay_Update).
THEOREM MachinesHold == Spec => []MachinesAgree
<1>1. Init => Agree
  BY DEF Init, Agree, Follows
<1>2. IInv /\ Agree /\ [Next]_vars => Agree'
  <2>1. SUFFICES ASSUME IInv, Agree, [Next]_vars PROVE Agree'
    OBVIOUS
  <2>2. ASSUME UNCHANGED vars PROVE Agree'
    <3>1. UNCHANGED <<connected, mach, down, strayed, inGame>>
      BY <2>2 DEF vars, connection, server
    <3> QED BY <2>1, <3>1, UnmovedStays, AgreeKeeps DEF Unmoved
  <2>3. ASSUME NEW c \in Clients, Client(c) PROVE Agree'
    BY <2>1, <2>3, ClientAgree
  <2>4. ASSUME NEW c \in Clients, Login(c) PROVE Agree'
    BY <2>1, <2>4, LoginAgree
  <2>5. ASSUME NEW c \in Clients, Serve(c) PROVE Agree'
    BY <2>1, <2>5, ServeAgree
  <2>6. CASE Frame
    BY <2>1, <2>6, FrameAgree
  <2> QED BY <2>1, <2>2, <2>3, <2>4, <2>5, <2>6 DEF Next
<1>3. Agree => MachinesAgree
  BY AgreeIs
<1> QED BY <1>1, <1>2, <1>3, Invariant, PTL DEF Spec

-----------------------------------------------------------------------------
(* The two threads of the driver: what is blitted, and the events handled.   *)

\* The main thread has the mutex while it pumps events, sets up the mode and blits.
HasMutex == {"pump", "publish", "vsync", "pump2", "publish2", "synced", "look", "blit",
             "unlock", "fail"}
\* Between the setting up of the mode and the look at what there is to blit.
Syncing == {"vsync", "pump2", "publish2", "synced"}

\* While nobody asks for a mode and none has failed, it is set up as the settings say.
ModeInv ==
  /\ mpc \in HasMutex \cup {"lock", "close", "join", "closed"}
  /\ mpc \in HasMutex <=> VTMutex = "main"
  /\ FirstVideoSync => NeedVideoSync
  /\ mpc \in Syncing => NeedVideoSync
  /\ mpc \in {"look", "blit"} => ~ NeedVideoSync
  /\ mpc = "blit" => ~ VideoError
  /\ mpc \in Syncing \ {"vsync"} => mode = Mode /\ ~ VideoError
  /\ ~ NeedVideoSync /\ ~ VideoError => mode = Mode
  /\ NeedVideoSync \in BOOLEAN /\ VideoError \in BOOLEAN /\ FirstVideoSync \in BOOLEAN
  /\ fs \in BOOLEAN

\* The game thread is in a call of MDFND_Update, or of GameThread_HandleEvents.
InUpdate == {"pass", "late", "count", "handle", "input", "fs", "fswait", "keys", "updated"}

Flags == held \in BOOLEAN /\ do_flip \in BOOLEAN /\ passed \in BOOLEAN /\ fskip \in BOOLEAN

Places ==
  /\ SoftFB_BackBuffer \in {0, 1} /\ VTReady \in {-1, 0, 1}
  /\ vtr \in {-1, VTReady}
  /\ mpc = "blit" <=> vtr # -1

Calls ==
  /\ gpc \in InUpdate \cup {"loop", "emulate", "done"}
  /\ gpc \in InUpdate => caller \in {"frame", "fudge", "midsync"}
  /\ gpc \in InUpdate /\ caller = "fudge" => which = 1 - SoftFB_BackBuffer
  /\ ~ (gpc \in InUpdate /\ caller = "frame") => do_flip = FALSE
  /\ gpc \in InUpdate /\ caller = "frame" =>
       which \in IF fskip = TRUE THEN {-1, 1 - SoftFB_BackBuffer} ELSE {SoftFB_BackBuffer}
  /\ gpc \in {"pass", "late", "input", "fs", "fswait", "keys", "updated"} => caller # "midsync"

\* What is to be blitted is not the back buffer, but for the time between the
\* passing of a frame and the exchange of the buffers.
Passing ==
  /\ VTReady = SoftFB_BackBuffer => passed = TRUE /\ fskip = FALSE
  /\ passed = TRUE => which # -1 /\ VTReady \in {-1, which}

Shown ==
  held = FALSE => /\ do_flip = FALSE
                  /\ IF gpc \in InUpdate /\ caller = "frame" THEN Passing
                     ELSE VTReady # SoftFB_BackBuffer

BufferInv == Flags /\ Places /\ Calls /\ Shown

BlitInv == ModeInv /\ BufferInv

-----------------------------------------------------------------------------
LEMMA ModeMain == ASSUME ModeInv, MainThread \/ ExitWanted PROVE ModeInv'
<1> USE DEF ModeInv, HasMutex, Syncing, Mode
<1>1. CASE LoopTop
  BY <1>1 DEF LoopTop, mainRest, syncVars, runVars
<1>2. CASE PumpEvent
  BY <1>2 DEF PumpEvent, mainRest, syncVars, runVars
<1>3. CASE EventSent
  BY <1>3 DEF EventSent, mainRest, syncVars, runVars
<1>4. CASE ExitWanted
  BY <1>4 DEF ExitWanted, mainRest, syncVars
<1>5. CASE PumpEnd
  BY <1>5 DEF PumpEnd, mainRest, syncVars
<1>6. CASE Video_Sync
  <2>1. /\ mpc = "vsync"
        /\ UNCHANGED <<VTMutex, FirstVideoSync>>
    BY <1>6 DEF Video_Sync, mainRest
  <2>2. CASE mode' = Mode /\ VideoError' = FALSE /\ mpc' = "pump2" /\ UNCHANGED <<fs, NeedVideoSync>>
    BY <2>1, <2>2
  <2>3. CASE /\ fs' = FALSE /\ mode' = "windowed" /\ VideoError' = FALSE /\ mpc' = "pump2"
             /\ UNCHANGED NeedVideoSync
    BY <2>1, <2>3
  <2>4. CASE Caught(FALSE) /\ fs' \in {fs, FALSE}
    BY <2>1, <2>4 DEF Caught
  <2> QED BY <1>6, <2>2, <2>3, <2>4 DEF Video_Sync
<1>7. CASE Synced
  BY <1>7 DEF Synced, mainRest
<1>8. CASE Look
  BY <1>8 DEF Look, mainRest, syncVars
<1>9. CASE BlitScreen
  <2>1. /\ mpc = "blit" /\ fs' \in {fs, FALSE}
        /\ UNCHANGED <<VTMutex, FirstVideoSync>>
    BY <1>9 DEF BlitScreen, mainRest
  <2>2. CASE /\ mpc' = "unlock" /\ mode' = IF fs' = fs THEN mode ELSE "windowed"
             /\ UNCHANGED <<VideoError, NeedVideoSync>>
    <3>1. CASE fs' = fs
      BY <2>1, <2>2, <3>1
    <3>2. CASE fs' # fs
      BY <2>1, <2>2, <3>2
    <3> QED BY <3>1, <3>2
  <2>3. CASE Caught(VideoError)
    BY <2>1, <2>3 DEF Caught
  <2> QED BY <1>9, <2>2, <2>3 DEF BlitScreen
<1>10. CASE Unlock
  BY <1>10 DEF Unlock, mainRest, syncVars
<1>11. CASE CloseGame
  BY <1>11 DEF CloseGame, mainRest, syncVars
<1> QED
  BY <1>1, <1>2, <1>3, <1>4, <1>5, <1>6, <1>7, <1>8, <1>9, <1>10, <1>11 DEF MainThread

\* Only the change of the setting touches any of this, when the main thread waits
\* for the mutex.
LEMMA ModeGame == ASSUME ModeInv, GameThread PROVE ModeInv'
<1> USE DEF ModeInv, HasMutex, Syncing, Mode
<1>1. CASE GT_ToggleFS
  <2>1. UNCHANGED <<mpc, VTMutex, mode, VideoError, FirstVideoSync>>
    BY <1>1 DEF GT_ToggleFS, gameRest
  <2>2. CASE VTMutex = "free" /\ NeedVideoSync' = TRUE /\ fs' = ~ fs
    BY <2>1, <2>2
  <2>3. CASE UNCHANGED <<fs, NeedVideoSync>>
    BY <2>1, <2>3
  <2> QED BY <1>1, <2>2, <2>3 DEF GT_ToggleFS
<1>2. CASE UNCHANGED <<mpc, VTMutex, syncVars>>
  BY <1>2 DEF syncVars
<1> QED
  BY <1>1, <1>2 DEF GameThread, FrameStart, MidFrame, FrameEnd, PassBlit, CountEvents, HandleEvent,
                    EventsHandled, CheckCommandKeys, Updated, gameRest, syncVars, runVars

LEMMA BufferMain == ASSUME ModeInv, BufferInv, MainThread \/ ExitWanted PROVE BufferInv'
<1> USE DEF BufferInv, Flags, Places, Calls, Shown, Passing, InUpdate
<1>1. UNCHANGED <<SoftFB_BackBuffer, gameVars>>
  BY DEF MainThread, LoopTop, PumpEvent, EventSent, ExitWanted, PumpEnd, Video_Sync, Synced, Look,
         BlitScreen, Unlock, CloseGame, mainRest
<1>2. CASE Look
  BY <1>1, <1>2 DEF Look, gameVars, updVars, loopVars
<1>3. CASE BlitScreen
  BY <1>1, <1>3 DEF BlitScreen, Caught, gameVars, updVars, loopVars
<1>4. CASE UNCHANGED <<VTReady, vtr>> /\ mpc # "blit" /\ mpc' # "blit"
  BY <1>1, <1>4 DEF gameVars, updVars, loopVars
<1> QED
  BY <1>2, <1>3, <1>4 DEF MainThread, LoopTop, PumpEvent, EventSent, ExitWanted, PumpEnd, Video_Sync,
                          Caught, Synced, Unlock, CloseGame

LEMMA BufferGame == ASSUME BufferInv, GameThread PROVE BufferInv'
<1> USE DEF BufferInv, Flags, Places, Calls, Shown, Passing, InUpdate, gameRest
<1>1. CASE FrameStart
  BY <1>1 DEF FrameStart, bufVars, updVars
<1>2. CASE MidFrame
  BY <1>2 DEF MidFrame, Update, bufVars, loopVars
<1>3. CASE FrameEnd
  <2>1. /\ gpc' \in {"pass", "count"} /\ caller' = "frame" /\ passed' = FALSE
        /\ UNCHANGED <<bufVars, mpc, vtr, fskip, do_flip>> /\ gpc = "emulate"
        /\ which' = ToShow
    BY <1>3 DEF FrameEnd, Update
  <2>2. which' \in IF fskip = TRUE THEN {-1, 1 - SoftFB_BackBuffer} ELSE {SoftFB_BackBuffer}
    BY <2>1 DEF ToShow
  <2>3. held' \in BOOLEAN /\ (held = TRUE /\ held' = FALSE => VTReady = -1)
    BY <1>3 DEF FrameEnd
  <2>4. Flags' /\ Places' /\ Calls'
    BY <2>1, <2>2, <2>3 DEF bufVars
  <2>5. Shown'
    BY <2>1, <2>2, <2>3 DEF bufVars
  <2> QED BY <2>4, <2>5
<1>4. CASE PassBlit
  <2>1. /\ gpc \in {"pass", "late"} /\ gpc' \in {"updated", "count", "late"}
        /\ UNCHANGED <<SoftFB_BackBuffer, mpc, vtr, caller, which, fskip, do_flip, held>>
    BY <1>4 DEF PassBlit, AfterPass, loopVars
  <2>2. CASE UNCHANGED <<VTReady, passed>>
    BY <2>1, <2>2
  <2>3. CASE which # -1 /\ VTReady = -1 /\ VTReady' = which /\ passed' = TRUE
    BY <2>1, <2>3
  <2> QED BY <1>4, <2>2, <2>3 DEF PassBlit
<1>5. CASE CountEvents
  BY <1>5 DEF CountEvents, bufVars, loopVars
<1>6. CASE HandleEvent
  BY <1>6 DEF HandleEvent, bufVars, loopVars
<1>7. CASE EventsHandled
  BY <1>7 DEF EventsHandled, bufVars, loopVars
<1>8. CASE CheckCommandKeys
  BY <1>8 DEF CheckCommandKeys, AfterInput, bufVars, updVars, loopVars
<1>9. CASE GT_ToggleFS
  BY <1>9 DEF GT_ToggleFS, AfterInput, bufVars, updVars, loopVars
<1>10. CASE Updated
  <2>1. gpc = "updated" /\ UNCHANGED <<VTReady, mpc, vtr>>
    BY <1>10 DEF Updated
  <2>2. CASE /\ caller = "fudge" /\ gpc' = "emulate" /\ passed' = FALSE
             /\ UNCHANGED <<SoftFB_BackBuffer, caller, fskip, do_flip, held>>
    BY <2>1, <2>2
  <2> DEFINE flip == IF fskip /\ which # -1 THEN do_flip ELSE passed
  <2>3. CASE /\ caller = "frame" /\ Update("frame", ToShow) /\ do_flip' = flip /\ held' = TRUE
             /\ UNCHANGED <<SoftFB_BackBuffer, fskip>>
    BY <2>1, <2>3 DEF Update, ToShow
  <2>4. CASE /\ caller = "frame"
             /\ SoftFB_BackBuffer' = IF flip THEN 1 - SoftFB_BackBuffer ELSE SoftFB_BackBuffer
             /\ gpc' = "loop" /\ do_flip' = FALSE /\ fskip' = FALSE /\ passed' = FALSE
             /\ UNCHANGED <<caller, held>>
    <3>1. held = FALSE => IF flip THEN VTReady \in {-1, SoftFB_BackBuffer}
                          ELSE VTReady # SoftFB_BackBuffer
      <4>1. CASE fskip = TRUE
        BY <2>1, <2>4, <4>1
      <4>2. CASE fskip = FALSE
        BY <2>1, <2>4, <4>2
      <4> QED BY <4>1, <4>2
    <3> HIDE DEF flip
    <3>2. CASE flip
      <4>1. SoftFB_BackBuffer' = 1 - SoftFB_BackBuffer
        BY <2>4, <3>2
      <4>2. held = FALSE => VTReady' # SoftFB_BackBuffer'
        BY <2>1, <3>1, <3>2, <4>1
      <4>3. Flags'
        BY <2>4
      <4>6. SoftFB_BackBuffer' \in {0, 1}
        BY <4>1
      <4>7. Places'
        BY <2>1, <2>4, <4>6
      <4>4. Calls'
        BY <2>1, <2>4
      <4>5. Shown'
        BY <2>1, <2>4, <4>2
      <4> QED BY <4>3, <4>7, <4>4, <4>5
    <3>3. CASE ~ flip
      <4>1. SoftFB_BackBuffer' = SoftFB_BackBuffer
        BY <2>4, <3>3
      <4>2. held = FALSE => VTReady' # SoftFB_BackBuffer'
        BY <2>1, <3>1, <3>3, <4>1
      <4> QED BY <2>1, <2>4, <4>1, <4>2
    <3> QED BY <3>2, <3>3
  <2> QED BY <1>10, <2>1, <2>2, <2>3, <2>4 DEF Updated
<1> QED
  BY <1>1, <1>2, <1>3, <1>4, <1>5, <1>6, <1>7, <1>8, <1>9, <1>10 DEF GameThread

LEMMA BlitInit == DriverInit => BlitInv
<1>1. DriverInit => ModeInv
  BY DEF DriverInit, ModeInv, HasMutex, Syncing
<1>2. DriverInit => BufferInv
  <2>1. DriverInit => Flags /\ Places /\ Calls
    BY DEF DriverInit, Flags, Places, Calls, InUpdate
  <2>2. DriverInit => Shown
    BY DEF DriverInit, Shown, InUpdate
  <2> QED BY <2>1, <2>2 DEF BufferInv
<1> QED BY <1>1, <1>2 DEF BlitInv

LEMMA BlitStep == BlitInv /\ [DriverNext]_driverVars => BlitInv'
<1>1. ASSUME BlitInv, UNCHANGED driverVars PROVE BlitInv'
  BY <1>1 DEF BlitInv, ModeInv, BufferInv, Flags, Places, Calls, Shown, Passing, Mode, driverVars, bufVars, syncVars, gameVars, updVars, loopVars
<1> QED BY <1>1, ModeMain, ModeGame, BufferMain, BufferGame DEF BlitInv, DriverNext

\* A frame is blitted in the mode the settings ask for, and from a buffer that
\* nothing is drawn into, unless the game was held with it on the screen
\* (MainVideoLoop, PassBlit and GameLoop).
THEOREM BlitsSafely == DriverSpec => []BlitsAsAsked
<1>1. BlitInv => BlitsAsAsked
  BY DEF BlitInv, ModeInv, BufferInv, Flags, Places, Calls, Shown, BlitsAsAsked, DrawsOffScreen, InUpdate
<1> QED BY <1>1, BlitInit, BlitStep, PTL DEF DriverSpec

-----------------------------------------------------------------------------
(* Events.  An event is in the ring from Store on, and counted by Publish.  *)

Slots == 0 .. (Size - 1)

LEMMA WrapLemma ==
  ASSUME NEW x \in Slots, NEW k \in 0 .. Size
  PROVE  /\ (x + k) % Size \in Slots
         /\ (x + k) % Size = IF x + k < Size THEN x + k ELSE x + k - Size
BY SizeAssumption DEF Slots

\* Going on from where one has got to is going all the way.
LEMMA WrapTwice ==
  ASSUME NEW x \in Slots, NEW j \in Nat, NEW k \in Nat, j + k <= Size
  PROVE  (((x + j) % Size) + k) % Size = (x + (j + k)) % Size
<1>1. j \in 0 .. Size /\ k \in 0 .. Size /\ j + k \in 0 .. Size
  BY SizeAssumption
<1>2. PICK y \in Slots : y = (x + j) % Size /\ y = IF x + j < Size THEN x + j ELSE x + j - Size
  BY <1>1, WrapLemma
<1>3. (y + k) % Size = IF y + k < Size THEN y + k ELSE y + k - Size
  BY <1>1, WrapLemma
<1>4. (x + (j + k)) % Size = IF x + (j + k) < Size THEN x + (j + k) ELSE x + (j + k) - Size
  BY <1>1, WrapLemma
<1>5. x \in Nat /\ Size \in Nat /\ x < Size /\ y \in Nat /\ y < Size
  BY SizeAssumption DEF Slots
<1>6. CASE x + j < Size
  BY <1>2, <1>3, <1>4, <1>5, <1>6
<1>7. CASE ~ (x + j < Size)
  <2>1. y + k < Size /\ y + k = x + (j + k) - Size /\ ~ (x + (j + k) < Size)
    BY <1>2, <1>5, <1>7
  <2> QED BY <1>2, <1>3, <1>4, <2>1
<1> QED BY <1>6, <1>7

\* Different places in the ring are different slots.
LEMMA WrapApart ==
  ASSUME NEW x \in Slots, NEW j \in Slots, NEW k \in Slots, j # k
  PROVE  (x + j) % Size # (x + k) % Size
<1>1. j \in 0 .. Size /\ k \in 0 .. Size
  BY SizeAssumption DEF Slots
<1>2. /\ (x + j) % Size = IF x + j < Size THEN x + j ELSE x + j - Size
      /\ (x + k) % Size = IF x + k < Size THEN x + k ELSE x + k - Size
  BY <1>1, WrapLemma
<1>3. /\ x \in Int /\ j \in Int /\ k \in Int /\ Size \in Int
      /\ 0 <= j /\ j < Size /\ 0 <= k /\ k < Size
  BY SizeAssumption DEF Slots
<1> HIDE DEF Slots
<1> QED BY <1>2, <1>3

\* Events written and not yet taken off the ring, and how many were before them.
Written == gtevents.in_count + IF mpc \in {"publish", "publish2"} THEN 1 ELSE 0
TakenOff == Len(handled) - seen

EventTypes ==
  /\ gtevents \in [data : [Slots -> Int], read_pos : Slots, write_pos : Slots, in_count : Nat]
  /\ sent \in Nat /\ seen \in Nat /\ numevents \in Nat /\ handled \in Seq(Int)
  /\ overrun \in BOOLEAN

\* What is being handled is still in the ring.
HandlingInv == /\ seen <= numevents /\ numevents <= gtevents.in_count
               /\ gpc # "handle" => numevents = 0 /\ seen = 0

\* As long as every event had room, the ring holds those not yet taken off, in the
\* order they were sent in.
RingInv ==
  ~ overrun =>
    /\ Written <= Size
    /\ gtevents.write_pos = (gtevents.read_pos + Written) % Size
    /\ sent = TakenOff + Written
    /\ \A i \in 0 .. (Written - 1) :
         gtevents.data[(gtevents.read_pos + i) % Size] = TakenOff + i + 1
    /\ \A i \in 1 .. Len(handled) : handled[i] = i

EventInv == EventTypes /\ HandlingInv /\ RingInv

LEMMA PumpLemma == ASSUME EventInv, PumpEvent PROVE EventInv'
<1> USE DEF EventInv
<1>1. /\ UNCHANGED <<handled, seen, numevents, gpc>> /\ sent' = sent + 1
      /\ mpc \notin {"publish", "publish2"} /\ mpc' \in {"publish", "publish2"}
      /\ gtevents' = Store(gtevents, sent + 1)
      /\ overrun' = (overrun \/ gtevents.in_count >= Size)
  BY DEF PumpEvent, mainRest, gameVars, updVars
<1>2. /\ gtevents'.data = [gtevents.data EXCEPT ![gtevents.write_pos] = sent + 1]
      /\ gtevents'.write_pos = (gtevents.write_pos + 1) % Size
      /\ gtevents'.read_pos = gtevents.read_pos /\ gtevents'.in_count = gtevents.in_count
      /\ gtevents' = [data |-> gtevents'.data, read_pos |-> gtevents'.read_pos,
                      write_pos |-> gtevents'.write_pos, in_count |-> gtevents'.in_count]
  BY <1>1 DEF EventTypes, Store
<1>3. gtevents'.write_pos \in Slots
  <2>1. gtevents.write_pos \in Slots /\ 1 \in 0 .. Size
    BY SizeAssumption DEF EventTypes
  <2> QED BY <1>2, <2>1, WrapLemma
<1>4. EventTypes'
  BY <1>1, <1>2, <1>3 DEF EventTypes
<1>5. HandlingInv'
  BY <1>1, <1>2 DEF HandlingInv
<1>6. Written = gtevents.in_count /\ Written' = Written + 1 /\ TakenOff' = TakenOff
  BY <1>1, <1>2 DEF Written, TakenOff, EventTypes
<1>7. ASSUME ~ overrun' PROVE RingInv'
  <2>1. ~ overrun /\ Written \in Nat /\ Size \in Nat /\ Written < Size
    <3>1. ~ overrun /\ ~ (gtevents.in_count >= Size)
      BY <1>1, <1>7
    <3>2. gtevents.in_count \in Nat /\ Size \in Nat
      BY SizeAssumption DEF EventTypes
    <3> QED BY <1>6, <3>1, <3>2
  <2>2. gtevents'.write_pos = (gtevents.read_pos + (Written + 1)) % Size
    <3>1. (((gtevents.read_pos + Written) % Size) + 1) % Size = (gtevents.read_pos + (Written + 1)) % Size
      <4>1. gtevents.read_pos \in Slots /\ 1 \in Nat /\ Written + 1 <= Size
        BY <2>1 DEF EventTypes
      <4> QED BY <2>1, <4>1, WrapTwice
    <3> QED BY <1>2, <2>1, <3>1 DEF RingInv
  <2>3. ASSUME NEW i \in 0 .. Written
        PROVE  gtevents'.data[(gtevents.read_pos + i) % Size] = TakenOff + i + 1
    <3>1. CASE i = Written
      BY <1>2, <2>1, <3>1 DEF RingInv, EventTypes
    <3>2. CASE i # Written
      <4>1. /\ i \in Slots /\ i \in 0 .. Size /\ i \in 0 .. (Written - 1)
            /\ Written \in Slots
        BY <2>1, <3>2 DEF Slots
      <4>2. (gtevents.read_pos + i) % Size \in Slots
        BY <4>1, WrapLemma DEF EventTypes
      <4>3. (gtevents.read_pos + i) % Size # gtevents.write_pos
        BY <2>1, <3>2, <4>1, WrapApart DEF RingInv, EventTypes
      <4> QED BY <1>2, <2>1, <4>1, <4>2, <4>3 DEF RingInv, EventTypes
    <3> QED BY <3>1, <3>2
  <2>4. Written' <= Size /\ Written' - 1 = Written
    BY <1>6, <2>1
  <2>5. TakenOff \in Int /\ sent' = TakenOff + Written'
    BY <1>1, <1>6, <2>1 DEF RingInv, TakenOff, EventTypes
  <2> QED BY <1>1, <1>2, <1>6, <2>1, <2>2, <2>3, <2>4, <2>5 DEF RingInv
<1> QED BY <1>4, <1>5, <1>7 DEF RingInv

LEMMA SentLemma == ASSUME EventInv, EventSent PROVE EventInv'
<1> USE DEF EventInv
<1>1. /\ UNCHANGED <<handled, seen, numevents, gpc, sent, overrun>>
      /\ mpc \in {"publish", "publish2"} /\ mpc' \notin {"publish", "publish2"}
      /\ gtevents' = Publish(gtevents)
  BY DEF EventSent, mainRest, gameVars, updVars
<1>2. /\ gtevents'.data = gtevents.data /\ gtevents'.write_pos = gtevents.write_pos
      /\ gtevents'.read_pos = gtevents.read_pos /\ gtevents'.in_count = gtevents.in_count + 1
      /\ gtevents' = [data |-> gtevents'.data, read_pos |-> gtevents'.read_pos,
                      write_pos |-> gtevents'.write_pos, in_count |-> gtevents'.in_count]
  BY <1>1 DEF EventTypes, Publish
<1>3. Written' = Written /\ TakenOff' = TakenOff
  BY <1>1, <1>2 DEF Written, TakenOff, EventTypes
<1>4. EventTypes' /\ HandlingInv'
  BY <1>1, <1>2 DEF EventTypes, HandlingInv
<1>5. RingInv'
  BY <1>1, <1>2, <1>3 DEF RingInv
<1> QED BY <1>4, <1>5

LEMMA HandleLemma == ASSUME EventInv, HandleEvent PROVE EventInv'
<1> USE DEF EventInv
<1>1. /\ UNCHANGED <<gtevents, mpc, sent, overrun, numevents, gpc>>
      /\ gpc = "handle" /\ seen < numevents /\ seen' = seen + 1
      /\ handled' = Append(handled, gtevents.data[(gtevents.read_pos + seen) % Size])
  BY DEF HandleEvent, gameRest, Peek
<1>2. gtevents.data[(gtevents.read_pos + seen) % Size] \in Int
  BY SizeAssumption DEF EventTypes, Slots
<1>3. EventTypes' /\ HandlingInv'
  BY <1>1, <1>2 DEF EventTypes, HandlingInv
<1>4. Len(handled') = Len(handled) + 1 /\ TakenOff' = TakenOff /\ Written' = Written
  BY <1>1, <1>2 DEF EventTypes, TakenOff, Written
<1>5. ASSUME ~ overrun PROVE RingInv'
  <2>1. seen \in 0 .. (Written - 1)
    BY <1>1 DEF EventTypes, HandlingInv, Written
  <2>2. handled' = Append(handled, Len(handled) + 1)
    BY <1>1, <1>5, <2>1 DEF RingInv, TakenOff, EventTypes
  <2>3. \A i \in 1 .. Len(handled') : handled'[i] = i
    BY <1>4, <1>5, <2>2 DEF RingInv, EventTypes
  <2> QED BY <1>1, <1>4, <1>5, <2>3 DEF RingInv
<1> QED BY <1>1, <1>3, <1>5 DEF RingInv

LEMMA HandledLemma == ASSUME EventInv, EventsHandled PROVE EventInv'
<1> USE DEF EventInv
<1>1. /\ UNCHANGED <<handled, mpc, sent, overrun>>
      /\ seen = numevents /\ numevents' = 0 /\ seen' = 0 /\ gpc' # "handle"
      /\ gtevents' = AdvanceRead(gtevents, numevents)
  BY DEF EventsHandled, gameRest, Taken
<1> DEFINE r == gtevents.read_pos
           n == numevents
<1>2. /\ gtevents'.data = gtevents.data /\ gtevents'.write_pos = gtevents.write_pos
      /\ gtevents'.read_pos = (r + n) % Size /\ gtevents'.in_count = gtevents.in_count - n
      /\ gtevents' = [data |-> gtevents'.data, read_pos |-> gtevents'.read_pos,
                      write_pos |-> gtevents'.write_pos, in_count |-> gtevents'.in_count]
  BY <1>1 DEF EventTypes, AdvanceRead
<1>3. (r + n) % Size \in Slots
  BY SizeAssumption DEF EventTypes, Slots
<1>4. EventTypes' /\ HandlingInv'
  BY <1>1, <1>2, <1>3 DEF EventTypes, HandlingInv
<1>5. Written' = Written - n /\ TakenOff' = TakenOff + n
  BY <1>1, <1>2 DEF Written, TakenOff, EventTypes
<1>6. ASSUME ~ overrun PROVE RingInv'
  <2>1. n \in Nat /\ n <= Written /\ Written <= Size /\ Written \in Nat /\ r \in Slots
    BY <1>6 DEF RingInv, HandlingInv, EventTypes, Written
  <2>2. gtevents'.write_pos = (gtevents'.read_pos + Written') % Size
    <3>1. (((r + n) % Size) + (Written - n)) % Size = (r + (n + (Written - n))) % Size
      BY <2>1, WrapTwice
    <3>2. n + (Written - n) = Written
      BY <2>1
    <3> QED BY <1>2, <1>5, <1>6, <3>1, <3>2 DEF RingInv
  <2>3. ASSUME NEW i \in 0 .. (Written' - 1)
        PROVE  gtevents'.data[(gtevents'.read_pos + i) % Size] = TakenOff' + i + 1
    <3>1. n + i \in 0 .. (Written - 1) /\ n + i <= Size /\ i \in Nat
      <4>1. i \in Nat /\ i <= Written' - 1 /\ Written' = Written - n
        BY <1>5, <2>1
      <4>2. Size \in Nat /\ n \in Nat /\ Written \in Nat /\ Written <= Size
        BY <2>1, SizeAssumption
      <4> HIDE DEF n
      <4> QED BY <4>1, <4>2
    <3>2. (gtevents'.read_pos + i) % Size = (r + (n + i)) % Size
      BY <1>2, <2>1, <3>1, WrapTwice
    <3>3. gtevents.data[(r + (n + i)) % Size] = TakenOff + (n + i) + 1
      BY <1>6, <3>1 DEF RingInv
    <3>4. TakenOff \in Int
      BY DEF TakenOff, EventTypes
    <3> QED BY <1>2, <1>5, <2>1, <3>1, <3>2, <3>3, <3>4
  <2>4. TakenOff \in Int
    BY DEF TakenOff, EventTypes
  <2>5. Written' <= Size /\ sent' = TakenOff' + Written'
    <3>1. Size \in Nat /\ sent' = TakenOff + Written
      BY <1>1, <1>6, SizeAssumption DEF RingInv
    <3>2. TakenOff + Written = (TakenOff + n) + (Written - n) /\ Written - n <= Size
      BY <2>1, <2>4, <3>1
    <3> QED BY <1>5, <3>1, <3>2
  <2> QED BY <1>1, <1>6, <2>2, <2>3, <2>5 DEF RingInv
<1> QED BY <1>1, <1>4, <1>6 DEF RingInv

LEMMA EventStep == ASSUME EventInv, [DriverNext]_driverVars PROVE EventInv'
<1>1. CASE PumpEvent
  BY <1>1, PumpLemma
<1>2. CASE EventSent
  BY <1>2, SentLemma
<1>3. CASE HandleEvent
  BY <1>3, HandleLemma
<1>4. CASE EventsHandled
  BY <1>4, HandledLemma
<1>5. CASE CountEvents
  <2>1. /\ UNCHANGED <<gtevents, mpc, sent, overrun, handled>>
        /\ numevents' = gtevents.in_count /\ seen' = 0 /\ gpc # "handle" /\ gpc' = "handle"
    BY <1>5 DEF CountEvents, gameRest, CanRead
  <2>2. TakenOff' = TakenOff /\ Written' = Written
    BY <2>1 DEF TakenOff, Written, EventInv, HandlingInv
  <2> QED BY <2>1, <2>2 DEF EventInv, EventTypes, HandlingInv, RingInv
<1>6. ASSUME /\ UNCHANGED <<gtevents, sent, overrun, handled, numevents, seen>>
             /\ mpc' \in {"publish", "publish2"} <=> mpc \in {"publish", "publish2"}
             /\ gpc' = "handle" <=> gpc = "handle"
      PROVE  EventInv'
  <2>1. TakenOff' = TakenOff /\ Written' = Written
    BY <1>6 DEF TakenOff, Written
  <2> QED BY <1>6, <2>1 DEF EventInv, EventTypes, HandlingInv, RingInv
<1>7. ASSUME LoopTop \/ ExitWanted \/ PumpEnd \/ Video_Sync \/ Synced \/ Look \/ BlitScreen
             \/ Unlock \/ CloseGame
      PROVE  EventInv'
  BY <1>6, <1>7 DEF LoopTop, ExitWanted, PumpEnd, Video_Sync, Synced, Look, BlitScreen, Caught,
                    Unlock, CloseGame, mainRest, gameVars, updVars, queueVars
<1>8. ASSUME FrameStart \/ MidFrame \/ FrameEnd \/ PassBlit \/ CheckCommandKeys \/ GT_ToggleFS
             \/ Updated
      PROVE  EventInv'
  BY <1>6, <1>8 DEF FrameStart, MidFrame, FrameEnd, PassBlit, CheckCommandKeys, GT_ToggleFS, Updated,
                    Update, AfterPass, AfterInput, gameRest, updVars
<1>9. CASE UNCHANGED driverVars
  BY <1>6, <1>9 DEF driverVars, queueVars, gameVars, updVars
<1> QED
  BY <1>1, <1>2, <1>3, <1>4, <1>5, <1>7, <1>8, <1>9 DEF DriverNext, MainThread, GameThread

LEMMA EventInit == DriverInit => EventInv
<1> SUFFICES ASSUME DriverInit PROVE EventInv
  OBVIOUS
<1>1. gtevents = [data |-> [i \in Slots |-> 0], read_pos |-> 0, write_pos |-> 0, in_count |-> 0]
  BY DEF DriverInit, NewFIFO, Slots
<1>2. EventTypes
  <2>1. 0 \in Slots
    BY SizeAssumption DEF Slots
  <2>2. gtevents \in [data : [Slots -> Int], read_pos : Slots, write_pos : Slots, in_count : Nat]
    BY <1>1, <2>1
  <2>3. handled = <<>> /\ sent = 0 /\ seen = 0 /\ numevents = 0 /\ overrun = FALSE
    BY DEF DriverInit
  <2>4. handled \in Seq(Int)
    BY <2>3
  <2> QED BY <2>2, <2>3, <2>4 DEF EventTypes
<1>3. HandlingInv
  BY <1>1 DEF DriverInit, HandlingInv
<1>4. Written = 0 /\ TakenOff = 0
  BY <1>1 DEF DriverInit, Written, TakenOff
<1>5. RingInv
  BY <1>1, <1>4, SizeAssumption DEF DriverInit, RingInv
<1> QED BY <1>2, <1>3, <1>5 DEF EventInv

\* The game thread handles the main thread's events in the order they were sent
\* in, none lost and none twice, as long as each had room (SendEvent, PumpWrap and
\* GameThread_HandleEvents, over AtomicFIFO).
THEOREM EventsHandledOnce == DriverSpec => []EventsInOrder
<1>1. ASSUME EventInv PROVE EventsInOrder
  <2>1. handled \in Seq(Int)
    BY <1>1 DEF EventInv, EventTypes
  <2>2. ~ overrun => \A i \in 1 .. Len(handled) : handled[i] = i
    BY <1>1 DEF EventInv, RingInv
  <2> QED BY <2>1, <2>2 DEF EventsInOrder
<1> QED BY <1>1, EventInit, EventStep, PTL DEF DriverSpec
=============================================================================
