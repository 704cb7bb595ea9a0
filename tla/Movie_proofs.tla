----------------------------- MODULE Movie_proofs -----------------------------
(***************************************************************************)
(* Proofs about Movie for every machine, every set of inputs, commands and *)
(* media, every depth of the rewind stack and every bound of the model:    *)
(* what a movie replays to stays in step with the machine.                 *)
(***************************************************************************)
EXTENDS Movie, WellFoundedInduction, TLAPS

(* Induction over the natural numbers, from the least element of a set: the *)
(* set of the numbers for which something holds is all of Nat.              *)

LEMMA NatLeast ==
  ASSUME NEW T, T \subseteq Nat, T # {}
  PROVE  \E n \in T : \A m \in T : n <= m
<1> DEFINE R == OpToRel(<, Nat)
<1>1. R = {ss \in Nat \X Nat : ss[1] < ss[2]}
  BY DEF OpToRel
<1>2. IsWellFoundedOn(R, Nat)
  BY NatLessThanWellFounded
<1> HIDE DEF R
<1>3. PICK n \in T : \A m \in T : ~ (<<m, n>> \in R)
  BY <1>2, WFMin
<1>4. ASSUME NEW m \in T, m < n PROVE <<m, n>> \in R
  <2> DEFINE p == <<m, n>>
  <2>1. p \in Nat \X Nat /\ p[1] = m /\ p[2] = n
    OBVIOUS
  <2> HIDE DEF p
  <2>2. p \in R
    BY <2>1, <1>1, <1>4
  <2> QED BY <2>2 DEF p
<1>5. ASSUME NEW m \in T PROVE n <= m
  <2>1. ~ (m < n)
    BY <1>3, <1>4
  <2> QED BY <2>1
<1> QED BY <1>5

LEMMA NatAll ==
  ASSUME NEW T, T \subseteq Nat, 0 \in T, \A n \in T : n + 1 \in T
  PROVE  T = Nat
<1>1. SUFFICES ASSUME Nat \ T # {} PROVE FALSE
  OBVIOUS
<1>2. PICK n \in Nat \ T : \A m \in Nat \ T : n <= m
  BY <1>1, NatLeast
<1>3. n - 1 \in Nat \ T
  BY <1>2
<1> QED BY <1>2, <1>3

-----------------------------------------------------------------------------
(* Sequences *)

IsSeq(s) == s \in Seq({s[i] : i \in DOMAIN s})

\* Whatever has the numbers up to n for its domain is a sequence of length n.
LEMMA SeqFromDomain ==
  ASSUME NEW n \in Nat, NEW s, s = [i \in 1 .. n |-> s[i]]
  PROVE  IsSeq(s) /\ Len(s) = n
<1>1. s \in [1 .. n -> {s[i] : i \in DOMAIN s}]
  OBVIOUS
<1> QED BY <1>1 DEF IsSeq

LEMMA SeqShape ==
  ASSUME NEW s, IsSeq(s)
  PROVE  Len(s) \in Nat /\ DOMAIN s = 1 .. Len(s) /\ s = [i \in 1 .. Len(s) |-> s[i]]
BY DEF IsSeq

LEMMA SeqAppend ==
  ASSUME NEW s, IsSeq(s), NEW x
  PROVE  /\ IsSeq(Append(s, x)) /\ Len(Append(s, x)) = Len(s) + 1
         /\ \A i \in 1 .. (Len(s) + 1) :
              Append(s, x)[i] = IF i = Len(s) + 1 THEN x ELSE s[i]
<1> DEFINE S == {s[i] : i \in DOMAIN s} \cup {x}
           t == Append(s, x)
<1>1. s \in Seq(S) /\ x \in S
  BY SeqShape DEF IsSeq
<1> HIDE DEF S
<1>2. /\ t \in Seq(S) /\ Len(t) = Len(s) + 1 /\ Len(s) \in Nat
      /\ \A i \in 1 .. (Len(s) + 1) : t[i] = IF i = Len(s) + 1 THEN x ELSE s[i]
  BY <1>1
<1> HIDE DEF t
<1>3. t = [i \in 1 .. Len(t) |-> t[i]] /\ Len(t) \in Nat
  BY <1>2
<1>4. IsSeq(t)
  BY <1>3, SeqFromDomain
<1> QED BY <1>2, <1>4 DEF t

LEMMA SeqTail ==
  ASSUME NEW s, IsSeq(s), s # <<>>
  PROVE  /\ IsSeq(Tail(s)) /\ Len(Tail(s)) = Len(s) - 1
         /\ \A i \in 1 .. (Len(s) - 1) : Tail(s)[i] = s[i + 1]
<1> DEFINE S == {s[i] : i \in DOMAIN s}
           t == Tail(s)
<1>1. s \in Seq(S)
  BY DEF IsSeq
<1> HIDE DEF S
<1>2. /\ t \in Seq(S) /\ Len(t) = Len(s) - 1 /\ Len(s) \in Nat
      /\ \A i \in 1 .. (Len(s) - 1) : t[i] = s[i + 1]
  BY <1>1
<1> HIDE DEF t
<1>3. t = [i \in 1 .. Len(t) |-> t[i]] /\ Len(t) \in Nat
  BY <1>2
<1>4. IsSeq(t)
  BY <1>3, SeqFromDomain
<1> QED BY <1>2, <1>4 DEF t

LEMMA SeqFront ==
  ASSUME NEW s, IsSeq(s), NEW n \in 0 .. Len(s)
  PROVE  /\ IsSeq(SubSeq(s, 1, n)) /\ Len(SubSeq(s, 1, n)) = n
         /\ \A i \in 1 .. n : SubSeq(s, 1, n)[i] = s[i]
<1> DEFINE S == {s[i] : i \in DOMAIN s}
           t == SubSeq(s, 1, n)
<1>1. s \in Seq(S)
  BY DEF IsSeq
<1> HIDE DEF S
<1>2. /\ t \in Seq(S) /\ Len(t) = n /\ Len(s) \in Nat
      /\ \A i \in 1 .. n : t[i] = s[i]
  BY <1>1
<1> HIDE DEF t
<1>3. t = [i \in 1 .. Len(t) |-> t[i]] /\ Len(t) \in Nat
  BY <1>2
<1>4. IsSeq(t)
  BY <1>3, SeqFromDomain
<1> QED BY <1>2, <1>4 DEF t

-----------------------------------------------------------------------------
(* What a movie replays to: Replay of any file, one token at a time.        *)

ReplayStep(tok, m) ==
  CASE tok.t = "state" -> tok.v.mach
    [] tok.t = "torn" -> m
    [] OTHER -> Append(m, tok.v)

Replays(f, n, r) == r = [k \in 0 .. n |-> IF k = 0 THEN <<>> ELSE ReplayStep(f[k], r[k - 1])]

ReplayOf(f, n) ==
  LET r[k \in 0 .. n] == IF k = 0 THEN <<>>
                         ELSE CASE f[k].t = "state" -> f[k].v.mach
                                [] f[k].t = "torn" -> r[k - 1]
                                [] OTHER -> Append(r[k - 1], f[k].v)
  IN  r[n]

\* There is such a history of the machine, up to any token.
LEMMA ReplaysExists ==
  ASSUME NEW f, NEW n \in Nat
  PROVE  \E r : Replays(f, n, r)
<1> DEFINE T == {m \in Nat : \E r : Replays(f, m, r)}
<1>1. 0 \in T
  <2> DEFINE r == [k \in 0 .. 0 |-> <<>>]
  <2>1. Replays(f, 0, r)
    BY DEF Replays
  <2> HIDE DEF r
  <2> QED BY <2>1
<1>2. ASSUME NEW m \in T PROVE m + 1 \in T
  <2>1. PICK r : Replays(f, m, r)
    OBVIOUS
  <2> DEFINE q == [k \in 0 .. (m + 1) |-> IF k = 0 THEN <<>> ELSE ReplayStep(f[k], r[k - 1])]
  <2>2. \A k \in 0 .. m : q[k] = r[k]
    BY <2>1 DEF Replays
  <2>3. \A k \in 0 .. (m + 1) : k # 0 => q[k - 1] = r[k - 1]
    BY <2>2
  <2>4. q = [k \in 0 .. (m + 1) |-> IF k = 0 THEN <<>> ELSE ReplayStep(f[k], q[k - 1])]
    BY <2>3
  <2> HIDE DEF q
  <2>5. Replays(f, m + 1, q)
    BY <2>4 DEF Replays
  <2> QED BY <2>5
<1> HIDE DEF T
<1>3. T \subseteq Nat
  BY DEF T
<1>4. T = Nat
  BY <1>1, <1>2, <1>3, NatAll
<1> QED BY <1>4 DEF T

\* Two histories agree as far as the files do.
LEMMA ReplaysAgree ==
  ASSUME NEW f, NEW g, NEW m \in Nat, NEW n \in Nat, NEW r, NEW q,
         Replays(f, m, r), Replays(g, n, q), NEW l \in Nat, l <= m, l <= n,
         \A k \in 1 .. l : f[k] = g[k]
  PROVE  r[l] = q[l]
<1> DEFINE T == {k \in Nat : k <= l => r[k] = q[k]}
<1>1. 0 \in T
  BY DEF Replays
<1>2. ASSUME NEW k \in T PROVE k + 1 \in T
  <2>1. CASE k + 1 <= l
    <3>1. r[k + 1] = ReplayStep(f[k + 1], r[k]) /\ q[k + 1] = ReplayStep(g[k + 1], q[k])
      <4>1. k + 1 \in 0 .. m /\ k + 1 \in 0 .. n /\ k + 1 # 0 /\ (k + 1) - 1 = k
        BY <2>1
      <4> QED BY <4>1 DEF Replays
    <3>2. f[k + 1] = g[k + 1] /\ r[k] = q[k]
      BY <2>1
    <3> QED BY <3>1, <3>2
  <2>2. CASE ~ (k + 1 <= l)
    BY <2>2
  <2> QED BY <2>1, <2>2
<1>3. T \subseteq Nat
  OBVIOUS
<1> HIDE DEF T
<1>4. T = Nat
  BY <1>1, <1>2, <1>3, NatAll
<1> QED BY <1>4 DEF T

LEMMA ReplayOfIs ==
  ASSUME NEW f, NEW n \in Nat
  PROVE  \E r : Replays(f, n, r) /\ ReplayOf(f, n) = r[n]
<1> DEFINE c == CHOOSE r : Replays(f, n, r)
<1>1. Replays(f, n, c)
  BY ReplaysExists
<1>2. ReplayOf(f, n) = c[n]
  BY DEF ReplayOf, Replays, ReplayStep
<1> QED BY <1>1, <1>2

\* One token more is one step more.
LEMMA ReplayNext ==
  ASSUME NEW f, NEW n \in Nat
  PROVE  ReplayOf(f, n + 1) = ReplayStep(f[n + 1], ReplayOf(f, n))
<1>1. PICK r : Replays(f, n, r) /\ ReplayOf(f, n) = r[n]
  BY ReplayOfIs
<1>2. PICK q : Replays(f, n + 1, q) /\ ReplayOf(f, n + 1) = q[n + 1]
  BY ReplayOfIs
<1>3. r[n] = q[n]
  BY <1>1, <1>2, ReplaysAgree
<1>4. q[n + 1] = ReplayStep(f[n + 1], q[n])
  <2>1. n + 1 \in 0 .. (n + 1) /\ n + 1 # 0 /\ (n + 1) - 1 = n
    OBVIOUS
  <2> QED BY <1>2, <2>1 DEF Replays
<1> QED BY <1>1, <1>2, <1>3, <1>4

\* What comes later in the file does not matter.
LEMMA ReplayPrefix ==
  ASSUME NEW f, NEW g, NEW n \in Nat, \A k \in 1 .. n : f[k] = g[k]
  PROVE  ReplayOf(f, n) = ReplayOf(g, n)
<1>1. PICK r : Replays(f, n, r) /\ ReplayOf(f, n) = r[n]
  BY ReplayOfIs
<1>2. PICK q : Replays(g, n, q) /\ ReplayOf(g, n) = q[n]
  BY ReplayOfIs
<1>3. n <= n /\ Replays(f, n, r) /\ Replays(g, n, q)
  BY <1>1, <1>2
<1>4. r[n] = q[n]
  BY ONLY <1>3, n \in Nat, \A k \in 1 .. n : f[k] = g[k], ReplaysAgree
<1> QED BY <1>1, <1>2, <1>4

LEMMA ReplayFirst ==
  ASSUME NEW f, f[1].t = "state"
  PROVE  ReplayOf(f, 1) = f[1].v.mach
<1>1. ReplayOf(f, 0 + 1) = ReplayStep(f[0 + 1], ReplayOf(f, 0))
  BY ReplayNext
<1> QED BY <1>1 DEF ReplayStep

LEMMA ReplayHere == \A n : Replay(n) = ReplayOf(file, n)
BY DEF Replay, ReplayOf

-----------------------------------------------------------------------------
(* The invariant.  A movie that is recorded is written at its end.  Unless  *)
(* something has made it depart from the machine, the movie up to fpos      *)
(* replays to the machine, which from the polling of the input until it     *)
(* runs is one input behind.  The rewind states of this movie are the last  *)
(* on the stack, their positions ordered as they are; each one taken while  *)
(* the movie matched is one input behind its own position, departed or not. *)

Going == ActiveMovieMode # "STOPPED"

MachineAt(f, pos, ph, m, ports) ==
  ReplayOf(f, pos) = IF ph \in {"rewind", "run"} THEN Append(m, ports) ELSE m

Matches(f, x) == x.pos <= Len(f) /\ ReplayOf(f, x.pos) = Append(x.mach, x.ports)

Snapshots(f, pos, st, ses) ==
  /\ \A i \in DOMAIN st : st[i].movie = ses =>
       st[i].pos <= pos /\ (st[i].insync = TRUE => Matches(f, st[i]))
  /\ \A i, j \in DOMAIN st : st[i].movie = ses /\ i <= j =>
       st[j].movie = ses /\ st[i].pos <= st[j].pos

Basics ==
  /\ phase \in {"idle", "netplay", "input", "rewind", "run", "midsync", "midinput"}
  /\ ActiveMovieMode \in {"STOPPED", "PLAYING", "RECORDING"}
  /\ session \in Nat /\ (Going => session # 0)
  /\ fpos \in Nat /\ IsSeq(file) /\ IsSeq(stack)
  /\ MDFNnetplay => ActiveMovieMode # "PLAYING"
  /\ ActiveMovieMode = "RECORDING" => fpos = Len(file)
  /\ \A i \in DOMAIN stack : stack[i].pos \in Nat /\ stack[i].movie \in 0 .. session

Synced == fpos <= Len(file) /\ MachineAt(file, fpos, phase, mach, PortData)

IInv == /\ Basics
        /\ Going => Snapshots(file, fpos, stack, session)
        /\ Going /\ departures = {} => Synced

LEMMA EmptyIsSeq == IsSeq(<<>>) /\ DOMAIN <<>> = {}
<1>1. DOMAIN <<>> = {}
  OBVIOUS
<1>2. {<<>>[i] : i \in DOMAIN <<>>} = {}
  BY <1>1
<1>3. <<>> \in Seq({})
  OBVIOUS
<1> QED BY <1>1, <1>2, <1>3 DEF IsSeq

LEMMA Start == Init => IInv
BY EmptyIsSeq DEF Init, IInv, Basics, Going

\* When the movie stops, nothing is left to keep in step.
LEMMA StopLemma ==
  ASSUME IInv, ActiveMovieMode' = "STOPPED", fpos' \in Nat, IsSeq(file'),
         phase' \in {"idle", "netplay", "input", "rewind", "run", "midsync", "midinput"},
         stack' \in {stack, <<>>}, UNCHANGED session
  PROVE  IInv'
BY EmptyIsSeq DEF IInv, Basics, Going

LEMMA PutInLemma ==
  ASSUME NEW f, IsSeq(f), NEW pos \in Nat, NEW tok
  PROVE  /\ IsSeq(PutIn(f, pos, tok))
         /\ pos = Len(f) => Len(PutIn(f, pos, tok)) = pos + 1
         /\ PutIn(f, pos, tok)[pos + 1] = tok
         /\ \A k \in 1 .. pos : PutIn(f, pos, tok)[k] = f[k]
<1> DEFINE n == IF pos < Len(f) THEN Len(f) ELSE pos + 1
           g == PutIn(f, pos, tok)
<1>1. n \in Nat /\ pos + 1 \in 1 .. n /\ 1 .. pos \subseteq 1 .. n
  BY SeqShape
<1>2. g = [i \in 1 .. n |-> IF i = pos + 1 THEN tok ELSE f[i]]
  BY DEF PutIn
<1>3. Len(f) \in Nat
  BY SeqShape
<1>4. pos = Len(f) => n = pos + 1
  BY <1>3
<1> HIDE DEF g, n
<1>5. g = [i \in 1 .. n |-> g[i]]
  BY <1>2
<1>6. IsSeq(g) /\ Len(g) = n
  BY <1>1, <1>5, SeqFromDomain
<1>7. g[pos + 1] = tok /\ \A k \in 1 .. pos : g[k] = f[k]
  BY <1>1, <1>2
<1> QED BY <1>4, <1>6, <1>7 DEF g

LEMMA TruncateLemma ==
  ASSUME NEW pos \in Nat, Truncate(pos), IsSeq(file)
  PROVE  /\ IsSeq(file') /\ Len(file') = pos
         /\ pos <= Len(file) => \A k \in 1 .. pos : file'[k] = file[k]
<1>1. file' = [i \in 1 .. pos |-> IF i <= Len(file) THEN file[i] ELSE Torn]
  BY DEF Truncate
<1>2. file' = [i \in 1 .. pos |-> file'[i]]
  BY <1>1
<1>3. Len(file) \in Nat
  BY SeqShape
<1> QED BY <1>1, <1>2, <1>3, SeqFromDomain

\* One file has all of the other up to a position, as far as the other goes.
Holds(g, f, pos) ==
  \A n \in Nat : n <= pos /\ n <= Len(f) => n <= Len(g) /\ \A k \in 1 .. n : g[k] = f[k]

\* What is written after them leaves the rewind states valid.
LEMMA SnapshotsKept ==
  ASSUME NEW f, NEW g, NEW pos \in Nat, NEW q \in Nat, pos <= q, NEW st, NEW ses,
         Holds(g, f, pos),
         \A i \in DOMAIN st : st[i].pos \in Nat, Snapshots(f, pos, st, ses)
  PROVE  Snapshots(g, q, st, ses)
<1>1. ASSUME NEW i \in DOMAIN st, st[i].movie = ses
      PROVE  st[i].pos <= q /\ (st[i].insync = TRUE => Matches(g, st[i]))
  <2>1. PICK n \in Nat : n = st[i].pos
    OBVIOUS
  <2>2. n <= pos /\ (st[i].insync = TRUE => Matches(f, st[i]))
    BY <1>1, <2>1 DEF Snapshots
  <2>3. CASE st[i].insync = TRUE
    <3>1. n <= Len(f) /\ ReplayOf(f, n) = Append(st[i].mach, st[i].ports)
      BY <2>1, <2>2, <2>3 DEF Matches
    <3>2. n <= Len(g) /\ \A k \in 1 .. n : g[k] = f[k]
      BY <2>2, <3>1 DEF Holds
    <3>3. ReplayOf(g, n) = ReplayOf(f, n)
      BY <3>2, ReplayPrefix
    <3> QED BY <2>1, <2>2, <3>1, <3>2, <3>3 DEF Matches
  <2>4. st[i].pos <= q
    BY <2>1, <2>2
  <2> QED BY <2>3, <2>4
<1> QED BY <1>1 DEF Snapshots

\* Between frames and around the machine: nothing that the movie has to follow.
LEMMA AsideLemma ==
  ASSUME IInv, UNCHANGED <<ActiveMovieMode, file, fpos, session>>,
         departures' = {} => departures = {} /\ UNCHANGED mach, MDFNnetplay' => MDFNnetplay,
         stack' \in {stack, <<>>},
         phase \notin {"rewind", "run"},
         phase' \in {"idle", "netplay", "input", "midsync", "midinput"}
  PROVE  IInv'
<1>1. Basics'
  BY EmptyIsSeq DEF IInv, Basics, Going
<1>2. ASSUME Going', departures' = {} PROVE Synced'
  <2>1. Synced
    BY <1>2 DEF IInv, Going
  <2> QED BY <1>2, <2>1 DEF Synced, MachineAt
<1>3. ASSUME Going' PROVE Snapshots(file, fpos, stack', session)
  <2>1. Snapshots(file, fpos, stack, session)
    BY <1>3 DEF IInv, Going
  <2> QED BY <2>1, EmptyIsSeq DEF Snapshots
<1> QED BY <1>1, <1>2, <1>3 DEF IInv

\* A token is recorded of what the machine has been through, or a state whatever it
\* has been through.
LEMMA RecordLemma ==
  ASSUME IInv, NEW tok, Record(tok), UNCHANGED <<stack, session>>,
         tok.t = "state" \/ (departures' = {} => departures = {}), MDFNnetplay' => MDFNnetplay,
         phase \notin {"rewind", "run"},
         phase' \in {"idle", "netplay", "input", "rewind", "run", "midsync", "midinput"},
         ActiveMovieMode = "PLAYING" /\ departures' = {} =>
           departures = {} /\ UNCHANGED <<phase, mach>>,
         ActiveMovieMode = "RECORDING" /\ departures' = {} =>
           ReplayStep(tok, mach) = IF phase' \in {"rewind", "run"} THEN Append(mach', PortData') ELSE mach'
  PROVE  IInv'
<1>1. CASE ActiveMovieMode = "RECORDING" /\ Put(tok)
  <2>1. fpos \in Nat /\ fpos = Len(file) /\ IsSeq(file)
    BY <1>1 DEF IInv, Basics
  <2>2. /\ IsSeq(file') /\ Len(file') = fpos + 1 /\ fpos' = fpos + 1
        /\ file'[fpos + 1] = tok /\ \A k \in 1 .. fpos : file'[k] = file[k]
        /\ ActiveMovieMode' = "RECORDING"
    BY <1>1, <2>1, PutInLemma DEF Put
  <2>3. Basics'
    BY <1>1, <2>1, <2>2 DEF IInv, Basics, Going
  <2>4. ASSUME departures' = {} PROVE Synced'
    <3>1. ReplayOf(file', fpos + 1) = ReplayStep(tok, mach)
      <4>1. ReplayOf(file', fpos + 1) = ReplayStep(tok, ReplayOf(file', fpos))
        BY <2>1, <2>2, ReplayNext
      <4>2. CASE tok.t = "state"
        BY <4>1, <4>2 DEF ReplayStep
      <4>3. CASE departures = {}
        <5>1. ReplayOf(file, fpos) = mach
          BY <1>1, <4>3 DEF IInv, Going, Synced, MachineAt
        <5>2. ReplayOf(file', fpos) = mach
          BY <2>1, <2>2, <5>1, ReplayPrefix
        <5> QED BY <4>1, <5>2
      <4> QED BY <2>4, <4>2, <4>3
    <3>2. MachineAt(file', fpos + 1, phase', mach', PortData')
      BY <1>1, <2>4, <3>1 DEF MachineAt
    <3>3. fpos' <= Len(file')
      BY <2>1, <2>2
    <3> QED BY <2>2, <3>2, <3>3 DEF Synced
  <2>5. Snapshots(file', fpos + 1, stack, session)
    <3>1. fpos + 1 \in Nat /\ fpos <= fpos + 1 /\ \A i \in DOMAIN stack : stack[i].pos \in Nat
      BY <2>1 DEF IInv, Basics
    <3>2. Snapshots(file, fpos, stack, session)
      BY <1>1 DEF IInv, Going
    <3>3. Holds(file', file, fpos)
      BY <2>1, <2>2 DEF Holds
    <3> QED BY ONLY <2>1, <3>1, <3>2, <3>3, SnapshotsKept
  <2> QED BY <2>2, <2>3, <2>4, <2>5 DEF IInv
<1>2. CASE ActiveMovieMode = "RECORDING" /\ PutFails
  <2>1. IsSeq(file')
    BY <1>2, PutInLemma DEF PutFails, IInv, Basics
  <2> QED BY <1>2, <2>1, StopLemma DEF PutFails
<1>3. CASE ActiveMovieMode # "RECORDING" /\ UNCHANGED movie
  <2>1. CASE ActiveMovieMode = "STOPPED"
    BY <1>3, <2>1, StopLemma DEF movie, IInv, Basics
  <2>2. CASE ActiveMovieMode = "PLAYING"
    <3>1. Basics'
      BY <1>3, <2>2 DEF IInv, Basics, Going, movie
    <3>2. ASSUME departures' = {} PROVE Synced'
      <4>1. Synced /\ UNCHANGED <<phase, mach>>
        BY <2>2, <3>2 DEF IInv, Going
      <4> QED BY <1>3, <2>2, <3>2, <4>1 DEF Synced, MachineAt, movie
    <3>3. Snapshots(file, fpos, stack, session)
      BY <2>2 DEF IInv, Going
    <3> QED BY <1>3, <3>1, <3>2, <3>3 DEF IInv, movie
  <2> QED BY <1>3, <2>1, <2>2 DEF IInv, Basics
<1> QED BY <1>1, <1>2, <1>3 DEF Record

LEMMA StopMovieLemma ==
  ASSUME IInv, MDFNMOV_Stop, UNCHANGED <<stack, session>>,
         phase' \in {"idle", "netplay", "input", "rewind", "run", "midsync", "midinput"}
  PROVE  IInv'
<1>1. IsSeq(file')
  <2>1. \A tok : IsSeq(PutIn(file, fpos, tok))
    BY PutInLemma DEF IInv, Basics
  <2> QED BY <2>1 DEF MDFNMOV_Stop, IInv, Basics
<1> QED BY <1>1, StopLemma DEF MDFNMOV_Stop

-----------------------------------------------------------------------------
(* The rewind stack                                                         *)

\* A state pushed is one more valid rewind state, wherever the oldest goes.
LEMMA PushLemma ==
  ASSUME NEW f, NEW pos \in Nat, NEW st, IsSeq(st), NEW x, NEW ses \in Nat,
         \A i \in DOMAIN st : st[i].pos \in Nat /\ st[i].movie \in 0 .. ses,
         x.pos = pos, x.movie \in 0 .. ses
  PROVE  LET t == Rewinding!Push(st, x)
         IN  /\ IsSeq(t)
             /\ \A i \in DOMAIN t : t[i].pos \in Nat /\ t[i].movie \in 0 .. ses
             /\ Snapshots(f, pos, st, ses) /\ x.movie = ses /\ (x.insync = TRUE => Matches(f, x))
                => Snapshots(f, pos, t, ses)
<1> DEFINE a == Append(st, x)
           t == Rewinding!Push(st, x)
<1>1. /\ IsSeq(a) /\ Len(a) = Len(st) + 1 /\ Len(st) \in Nat /\ DOMAIN st = 1 .. Len(st)
      /\ \A i \in 1 .. (Len(st) + 1) : a[i] = IF i = Len(st) + 1 THEN x ELSE st[i]
  BY SeqAppend, SeqShape
<1>2. t = a \/ t = Tail(a)
  BY DEF Rewinding!Push
<1> HIDE DEF a, t
<1>3. a # <<>>
  BY <1>1, EmptyIsSeq, SeqShape
<1>4. PICK k \in {0, 1} : /\ IsSeq(t) /\ Len(t) = Len(a) - k
                          /\ \A i \in 1 .. (Len(a) - k) : t[i] = a[i + k]
  <2>1. CASE t = a
    BY <1>1, <2>1
  <2>2. CASE t = Tail(a)
    <3>1. IsSeq(Tail(a)) /\ Len(Tail(a)) = Len(a) - 1
          /\ \A i \in 1 .. (Len(a) - 1) : Tail(a)[i] = a[i + 1]
      BY <1>1, <1>3, SeqTail
    <3> QED BY <2>2, <3>1
  <2> QED BY <1>2, <2>1, <2>2
<1>5. DOMAIN t = 1 .. (Len(a) - k)
  BY <1>4, SeqShape
<1>6. \A i \in DOMAIN t : \/ t[i] = x /\ i + k = Len(st) + 1
                          \/ i + k \in DOMAIN st /\ t[i] = st[i + k]
  <2> SUFFICES ASSUME NEW i \in DOMAIN t
               PROVE  \/ t[i] = x /\ i + k = Len(st) + 1
                      \/ i + k \in DOMAIN st /\ t[i] = st[i + k]
    OBVIOUS
  <2>1. i \in 1 .. (Len(a) - k) /\ k \in Nat
    BY <1>5
  <2>2. i \in Nat /\ i + k \in 1 .. (Len(st) + 1)
    BY <1>1, <2>1
  <2>3. t[i] = a[i + k]
    BY <1>4, <2>1
  <2> DEFINE l == i + k
  <2> HIDE DEF l
  <2>4. l \in 1 .. (Len(st) + 1)
    BY <2>2 DEF l
  <2>5. a[l] = IF l = Len(st) + 1 THEN x ELSE st[l]
    BY <1>1, <2>4
  <2>6. l # Len(st) + 1 => l \in DOMAIN st
    BY <1>1, <2>4
  <2>7. t[i] = a[l]
    BY <2>3 DEF l
  <2> QED BY <2>5, <2>6, <2>7 DEF l
<1>7. \A i \in DOMAIN t : i \in Nat /\ t[i].pos \in Nat /\ t[i].movie \in 0 .. ses
  BY <1>1, <1>5, <1>6
<1>8. ASSUME Snapshots(f, pos, st, ses), x.movie = ses, x.insync = TRUE => Matches(f, x)
      PROVE  Snapshots(f, pos, t, ses)
  <2>1. \A i \in DOMAIN st : st[i].movie = ses =>
          st[i].pos <= pos /\ (st[i].insync = TRUE => Matches(f, st[i]))
    BY <1>8 DEF Snapshots
  <2>2. ASSUME NEW i \in DOMAIN t, t[i].movie = ses
        PROVE  t[i].pos <= pos /\ (t[i].insync = TRUE => Matches(f, t[i]))
    <3>1. CASE t[i] = x
      BY <1>8, <2>2, <3>1
    <3>2. CASE i + k \in DOMAIN st /\ t[i] = st[i + k]
      BY <2>1, <2>2, <3>2
    <3> QED BY <1>6, <3>1, <3>2
  <2>3. ASSUME NEW i \in DOMAIN t, NEW j \in DOMAIN t, t[i].movie = ses, i <= j
        PROVE  t[j].movie = ses /\ t[i].pos <= t[j].pos
    <3>1. CASE t[j] = x
      BY <1>8, <2>2, <2>3, <3>1
    <3>2. CASE j + k \in DOMAIN st /\ t[j] = st[j + k]
      <4>1. i + k \in DOMAIN st /\ t[i] = st[i + k] /\ i + k <= j + k
        BY <1>1, <1>6, <1>7, <2>3, <3>2
      <4> QED BY <1>8, <2>3, <3>2, <4>1 DEF Snapshots
    <3> QED BY <1>6, <3>1, <3>2
  <2> QED BY <2>2, <2>3 DEF Snapshots
<1> QED BY <1>4, <1>7, <1>8 DEF t

\* What is left of the stack when it is popped is its beginning.
LEMMA PopLemma ==
  ASSUME NEW st, IsSeq(st), st # <<>>
  PROVE  LET t == Rewinding!Pop(st)
         IN  /\ IsSeq(t) /\ DOMAIN t \subseteq DOMAIN st
             /\ \A i \in DOMAIN t : t[i] = st[i]
             /\ Len(st) \in DOMAIN st /\ \A i \in DOMAIN st : i <= Len(st)
<1>1. Len(st) \in Nat /\ DOMAIN st = 1 .. Len(st) /\ st = [i \in 1 .. Len(st) |-> st[i]]
  BY SeqShape
<1>2. Len(st) # 0
  <2>1. ASSUME Len(st) = 0 PROVE FALSE
    <3>1. st \in Seq({st[i] : i \in DOMAIN st}) /\ Len(st) = 0
      BY <2>1 DEF IsSeq
    <3> QED BY <3>1
  <2> QED BY <2>1
<1>3. CASE Len(st) > 1
  <2> DEFINE n == Len(st) - 1
  <2>1. n \in 0 .. Len(st)
    BY <1>1, <1>2
  <2>2. Rewinding!Pop(st) = SubSeq(st, 1, n)
    BY <1>3 DEF Rewinding!Pop
  <2> HIDE DEF n
  <2>3. IsSeq(SubSeq(st, 1, n)) /\ Len(SubSeq(st, 1, n)) = n
        /\ \A i \in 1 .. n : SubSeq(st, 1, n)[i] = st[i]
    BY <2>1, SeqFront
  <2>4. DOMAIN SubSeq(st, 1, n) = 1 .. n
    BY <2>3, SeqShape
  <2> QED BY <1>1, <1>2, <2>1, <2>2, <2>3, <2>4
<1>4. CASE ~ (Len(st) > 1)
  <2>1. Rewinding!Pop(st) = st
    BY <1>4 DEF Rewinding!Pop
  <2> QED BY <1>1, <1>2, <2>1
<1> QED BY <1>3, <1>4

-----------------------------------------------------------------------------
(* Every step keeps the movie in step with the machine.                     *)

LEMMA SaveMovieKeeps ==
  ASSUME IInv, MDFNI_SaveMovie
  PROVE  IInv'
<1> USE DEF frame, movie, rewinding, history
<1>1. CASE ActiveMovieMode = "PLAYING" /\ HandleMovieError /\ UNCHANGED history
  BY <1>1, StopLemma DEF MDFNI_SaveMovie, HandleMovieError, IInv, Basics
<1>2. CASE MDFNMOV_Stop /\ UNCHANGED history
  BY <1>2, StopMovieLemma DEF MDFNI_SaveMovie
<1>3. CASE /\ ActiveMovieMode' = "RECORDING"
           /\ file' = <<Loadstate(SaveSM)>> /\ fpos' = 1 /\ NewSession
  <2>1. file' = [i \in 1 .. 1 |-> file'[i]] /\ file'[1] = Loadstate(SaveSM)
    BY <1>3
  <2>2. IsSeq(file') /\ Len(file') = 1
    BY <2>1, SeqFromDomain
  <2>3. session' = session + 1 /\ departures' = {} /\ UNCHANGED stack /\ UNCHANGED phase
        /\ phase = "idle" /\ UNCHANGED MDFNnetplay /\ UNCHANGED mach
    BY <1>3 DEF NewSession, MDFNI_SaveMovie
  <2>4. Basics'
    BY <1>3, <2>2, <2>3 DEF IInv, Basics, Going
  <2>5. ReplayOf(file', 1) = mach'
    BY <2>1, <2>3, ReplayFirst DEF Loadstate, SaveSM
  <2>6. \A i \in DOMAIN stack : stack[i].movie # session'
    BY <2>3 DEF IInv, Basics
  <2>7. Snapshots(file', 1, stack, session')
    BY <2>6 DEF Snapshots
  <2>8. Synced'
    BY <1>3, <2>2, <2>3, <2>5 DEF Synced, MachineAt
  <2> QED BY <1>3, <2>3, <2>4, <2>7, <2>8 DEF IInv
<1>4. CASE /\ ActiveMovieMode' = "STOPPED" /\ fpos' = 0
           /\ file' \in {file, <<Torn>>} /\ UNCHANGED history
  <2>1. <<Torn>> = [i \in 1 .. 1 |-> <<Torn>>[i]]
    OBVIOUS
  <2>2. IsSeq(file')
    BY <1>4, <2>1, SeqFromDomain DEF IInv, Basics
  <2> QED BY <1>4, <2>2, StopLemma DEF MDFNI_SaveMovie, IInv, Basics
<1> QED BY <1>1, <1>2, <1>3, <1>4 DEF MDFNI_SaveMovie

LEMMA LoadMovieKeeps ==
  ASSUME IInv, MDFNI_LoadMovie
  PROVE  IInv'
<1> USE DEF frame, movie, rewinding, history
<1>1. CASE HandleMovieError /\ UNCHANGED history
  BY <1>1, StopLemma DEF MDFNI_LoadMovie, HandleMovieError, IInv, Basics
<1>2. CASE MDFNMOV_Stop /\ UNCHANGED history
  BY <1>2, StopMovieLemma DEF MDFNI_LoadMovie
<1>3. CASE /\ ~ MDFNnetplay /\ file # <<>> /\ file[1].t = "state"
           /\ mach' = file[1].v.mach
           /\ ActiveMovieMode' = "PLAYING" /\ fpos' = 1 /\ UNCHANGED file /\ NewSession
  <2>1. session' = session + 1 /\ departures' = {} /\ UNCHANGED stack /\ UNCHANGED phase
        /\ phase = "idle" /\ UNCHANGED MDFNnetplay
    BY <1>3 DEF NewSession, MDFNI_LoadMovie
  <2>2. Basics'
    BY <1>3, <2>1 DEF IInv, Basics, Going
  <2>3. ReplayOf(file', 1) = mach'
    BY <1>3, ReplayFirst
  <2>4. \A i \in DOMAIN stack : stack[i].movie # session'
    BY <2>1 DEF IInv, Basics
  <2>5. Snapshots(file', 1, stack, session')
    BY <2>4 DEF Snapshots
  <2>6. 1 <= Len(file)
    <3>1. IsSeq(file) /\ file # <<>>
      BY <1>3 DEF IInv, Basics
    <3>2. Len(file) \in Nat /\ Len(file) \in DOMAIN file /\ DOMAIN file = 1 .. Len(file)
      BY <3>1, PopLemma, SeqShape
    <3> QED BY <3>2
  <2>7. Synced'
    BY <1>3, <2>1, <2>3, <2>6 DEF Synced, MachineAt
  <2> QED BY <1>3, <2>1, <2>2, <2>5, <2>7 DEF IInv
<1> QED BY <1>1, <1>2, <1>3 DEF MDFNI_LoadMovie

LEMMA LoadStateKeeps ==
  ASSUME IInv, MDFNI_LoadState
  PROVE  IInv'
<1> USE DEF frame, rewinding
<1>1. UNCHANGED <<stack, session, phase, MDFNnetplay>> /\ phase = "idle"
  BY DEF MDFNI_LoadState
<1>2. ASSUME NEW s \in saved, LoadSM(s), RecordLoaded(s)
      PROVE  IInv'
  <2>1. ReplayStep(Loadstate(s), mach) = mach' /\ Loadstate(s).t = "state"
    BY <1>2 DEF ReplayStep, Loadstate, LoadSM
  <2>2. Record(Loadstate(s)) /\ (ActiveMovieMode = "PLAYING" => departures' # {})
    BY <1>2 DEF RecordLoaded
  <2> QED BY <1>1, <2>1, <2>2, RecordLemma
<1>3. ASSUME LoadFails, UNCHANGED movie
      PROVE  IInv'
  <2>1. departures' = {} => departures = {} /\ UNCHANGED mach
    BY <1>3 DEF LoadFails
  <2> QED BY <1>1, <1>3, <2>1, AsideLemma DEF movie
<1> QED BY <1>2, <1>3 DEF MDFNI_LoadState

LEMMA CommandKeeps ==
  ASSUME IInv, NEW c, MDFN_QSimpleCommand(c)
  PROVE  IInv'
<1> USE DEF frame, rewinding, history
<1>1. ReplayStep(Command(c), mach) = Append(mach, c)
  BY DEF ReplayStep, Command
<1>2. /\ UNCHANGED <<stack, session, departures, phase, MDFNnetplay>> /\ phase = "idle"
      /\ ActiveMovieMode # "PLAYING" /\ mach' = Append(mach, c) /\ Record(Command(c))
  BY DEF MDFN_QSimpleCommand
<1> QED BY <1>1, <1>2, RecordLemma

LEMMA SetMediaKeeps ==
  ASSUME IInv, NEW c, MDFNI_SetMedia(c)
  PROVE  IInv'
<1> USE DEF frame, rewinding
<1>1. ReplayStep(Command(c), mach) = Append(mach, c)
  BY DEF ReplayStep, Command
<1>2. /\ UNCHANGED <<stack, session, phase, MDFNnetplay>> /\ phase = "idle"
      /\ departures' = {} => departures = {} /\ ~ MDFNnetplay
      /\ Record(Command(c))
      /\ mach' = IF ~ MDFNnetplay /\ ActiveMovieMode # "PLAYING"
                 THEN Append(mach, c) ELSE mach
  BY DEF MDFNI_SetMedia
<1> QED BY <1>1, <1>2, RecordLemma

LEMMA PlayerKeeps ==
  ASSUME IInv, Player
  PROVE  IInv'
<1> USE DEF frame, movie, rewinding, history
<1>1. CASE MDFNI_SaveState
  BY <1>1, AsideLemma DEF MDFNI_SaveState
<1>2. CASE \E enable \in BOOLEAN : MDFNI_EnableStateRewind(enable)
  BY <1>2, AsideLemma DEF MDFNI_EnableStateRewind
<1>3. CASE MDFNI_NetplayDisconnect
  BY <1>3, AsideLemma DEF MDFNI_NetplayDisconnect
<1> QED
  BY <1>1, <1>2, <1>3, SaveMovieKeeps, LoadMovieKeeps, LoadStateKeeps, CommandKeeps,
     SetMediaKeeps DEF Player

LEMMA NetplayKeeps ==
  ASSUME IInv, Netplay_Update
  PROVE  IInv'
<1> USE DEF frame, movie, rewinding, history
<1>1. CASE NoNetplay
  BY <1>1, AsideLemma DEF NoNetplay
<1>2. CASE NetplayStart
  <2>1. CASE ActiveMovieMode = "PLAYING"
    BY <1>2, <2>1, StopMovieLemma DEF NetplayStart, IInv, Basics
  <2>2. CASE ActiveMovieMode # "PLAYING"
    <3>1. /\ UNCHANGED <<phase, mach, PortData, ActiveMovieMode, file, fpos, stack, session,
                         departures>>
      BY <1>2, <2>2 DEF NetplayStart
    <3>2. Basics'
      BY <2>2, <3>1 DEF IInv, Basics, Going
    <3> QED BY <3>1, <3>2 DEF IInv, Going, Synced, MachineAt
  <2> QED BY <2>1, <2>2
<1>3. CASE \E c \in Commands \cup Media : RecvCommand(c)
  <2>1. Basics' /\ departures' # {}
    BY <1>3 DEF RecvCommand, IInv, Basics, Going
  <2>2. UNCHANGED <<ActiveMovieMode, file, fpos, stack, session>>
    BY <1>3 DEF RecvCommand
  <2> QED BY <2>1, <2>2 DEF IInv, Going
<1>4. CASE \E s \in saved : RecvState(s)
  <2>1. PICK s \in saved : RecvState(s)
    BY <1>4
  <2>2. ReplayStep(Loadstate(s), mach) = mach' /\ Loadstate(s).t = "state"
    BY <2>1 DEF RecvState, ReplayStep, Loadstate, LoadSM
  <2>3. /\ UNCHANGED <<stack, session, phase, MDFNnetplay>> /\ phase = "netplay"
        /\ ActiveMovieMode # "PLAYING" /\ Record(Loadstate(s))
    BY <2>1 DEF RecvState, RecordLoaded, IInv, Basics
  <2> QED BY <2>2, <2>3, RecordLemma
<1>5. CASE \E p \in Inputs : RecvInput(p)
  BY <1>5, AsideLemma DEF RecvInput
<1>6. CASE RecvStateFails
  BY <1>6, AsideLemma DEF RecvStateFails, LoadFails
<1> QED BY <1>1, <1>2, <1>3, <1>4, <1>5, <1>6 DEF Netplay_Update

\* The movie advances by one token, which takes the machine with it; a state does
\* wherever the machine is.
LEMMA PlayLemma ==
  ASSUME IInv, ActiveMovieMode = "PLAYING", fpos < Len(file), fpos' = fpos + 1,
         UNCHANGED <<ActiveMovieMode, file, stack, session, MDFNnetplay>>,
         file[fpos + 1].t = "state" \/ (departures' = {} => departures = {}),
         phase \notin {"rewind", "run"},
         phase' \in {"idle", "netplay", "input", "rewind", "run", "midsync", "midinput"},
         ReplayStep(file[fpos + 1], mach) =
           IF phase' \in {"rewind", "run"} THEN Append(mach', PortData') ELSE mach'
  PROVE  IInv'
<1>1. fpos \in Nat /\ IsSeq(file) /\ Len(file) \in Nat
  BY SeqShape DEF IInv, Basics
<1>2. Basics'
  BY <1>1 DEF IInv, Basics, Going
<1>3. ASSUME departures' = {} PROVE Synced'
  <2>1. ReplayOf(file, fpos + 1) = ReplayStep(file[fpos + 1], ReplayOf(file, fpos))
    BY <1>1, ReplayNext
  <2>2. ReplayOf(file, fpos + 1) = ReplayStep(file[fpos + 1], mach)
    <3>1. CASE file[fpos + 1].t = "state"
      BY <2>1, <3>1 DEF ReplayStep
    <3>2. CASE departures = {}
      <4>1. ReplayOf(file, fpos) = mach
        BY <3>2 DEF IInv, Going, Synced, MachineAt
      <4> QED BY <2>1, <4>1
    <3> QED BY <1>3, <3>1, <3>2
  <2>3. fpos + 1 <= Len(file)
    BY <1>1
  <2> QED BY <2>2, <2>3 DEF Synced, MachineAt
<1>4. Snapshots(file, fpos + 1, stack, session)
  <2>1. /\ fpos + 1 \in Nat /\ fpos <= fpos + 1 /\ \A i \in DOMAIN stack : stack[i].pos \in Nat
        /\ Holds(file, file, fpos)
    BY <1>1 DEF IInv, Basics, Holds
  <2>2. Snapshots(file, fpos, stack, session)
    BY DEF IInv, Going
  <2> QED BY ONLY <1>1, <2>1, <2>2, SnapshotsKept
<1> QED BY <1>2, <1>3, <1>4 DEF IInv

LEMMA ProcessInputKeeps ==
  ASSUME IInv, MDFNMOV_ProcessInput
  PROVE  IInv'
<1> USE DEF movie, rewinding, history
<1>1. /\ UNCHANGED <<stack, session, MDFNnetplay>>
      /\ phase \in {"input", "midinput"}
  BY DEF MDFNMOV_ProcessInput, Polling
<1>2. Polled => phase' \in {"rewind", "run"}
  BY DEF Polled
<1>3. CASE ActiveMovieMode = "STOPPED" /\ Polled /\ UNCHANGED <<PortData, mach, movie, departures>>
  BY <1>1, <1>2, <1>3, StopLemma DEF IInv, Basics
<1>4. CASE /\ ActiveMovieMode = "RECORDING" /\ Record(Input(PortData)) /\ Polled
           /\ UNCHANGED <<PortData, mach, departures>>
  <2>1. ReplayStep(Input(PortData), mach) = Append(mach', PortData')
    BY <1>4 DEF ReplayStep, Input
  <2> QED BY <1>1, <1>2, <1>4, <2>1, RecordLemma
<1>5. CASE MDFNMOV_Stop /\ Polled
  BY <1>1, <1>2, <1>5, StopMovieLemma
<1>6. CASE ActiveMovieMode = "PLAYING" /\ ~ (fpos >= Len(file)) /\ PlayInput
  <2>1. fpos < Len(file) /\ fpos' = fpos + 1
    BY <1>6, SeqShape DEF IInv, Basics, PlayInput
  <2>2. ReplayStep(file[fpos + 1], mach) = Append(mach', PortData')
    BY <1>6 DEF PlayInput, ReplayStep
  <2> QED BY <1>1, <1>2, <1>6, <2>1, <2>2, PlayLemma DEF PlayInput
<1>7. CASE ActiveMovieMode = "PLAYING" /\ ~ (fpos >= Len(file)) /\ PlayCommand
  <2>1. fpos < Len(file) /\ fpos' = fpos + 1
    BY <1>7, SeqShape DEF IInv, Basics, PlayCommand
  <2>2. ReplayStep(file[fpos + 1], mach) = mach'
    BY <1>7 DEF PlayCommand, ReplayStep
  <2> QED BY <1>1, <1>7, <2>1, <2>2, PlayLemma DEF PlayCommand
<1>8. CASE ActiveMovieMode = "PLAYING" /\ ~ (fpos >= Len(file)) /\ PlayState
  <2>1. fpos < Len(file) /\ fpos' = fpos + 1
    BY <1>8, SeqShape DEF IInv, Basics, PlayState
  <2>2. ReplayStep(file[fpos + 1], mach) = mach' /\ file[fpos + 1].t = "state"
    BY <1>8 DEF PlayState, LoadSM, ReplayStep
  <2> QED BY <1>1, <1>8, <2>1, <2>2, PlayLemma DEF PlayState
<1>9. CASE PlayTorn
  BY <1>1, <1>2, <1>9, StopLemma DEF PlayTorn, HandleMovieError, IInv, Basics
<1> QED
  BY <1>3, <1>4, <1>5, <1>6, <1>7, <1>8, <1>9 DEF MDFNMOV_ProcessInput

LEMMA RecordFrameKeeps ==
  ASSUME IInv, phase = "rewind", phase' = "run", UNCHANGED <<MDFNnetplay, session>>, RecordFrame
  PROVE  IInv'
<1> USE DEF movie, rewinding
<1>1. /\ UNCHANGED <<PortData, mach, ActiveMovieMode, file, fpos, departures>>
      /\ stack' = Rewinding!Push(stack, Snapshot)
  BY DEF RecordFrame
<1> DEFINE x == Snapshot
<1>2. /\ x.pos = fpos /\ x.movie \in 0 .. session /\ x.mach = mach /\ x.ports = PortData
      /\ session \in Nat /\ fpos \in Nat /\ IsSeq(stack)
      /\ \A i \in DOMAIN stack : stack[i].pos \in Nat /\ stack[i].movie \in 0 .. session
  BY DEF Snapshot, SnapshotOf, IInv, Basics
<1>3. Going => x.movie = session
  BY DEF Snapshot, SnapshotOf, Going
<1>4. Going /\ x.insync = TRUE => departures = {}
  BY DEF Snapshot, SnapshotOf
<1> HIDE DEF x
<1>5. /\ IsSeq(stack')
      /\ \A i \in DOMAIN stack' : stack'[i].pos \in Nat /\ stack'[i].movie \in 0 .. session
      /\ Snapshots(file, fpos, stack, session) /\ x.movie = session
         /\ (x.insync = TRUE => Matches(file, x))
         => Snapshots(file, fpos, stack', session)
  <2>1. stack' = Rewinding!Push(stack, x)
    BY <1>1 DEF x
  <2> QED BY ONLY <1>2, <2>1, PushLemma
<1>6. Basics'
  BY <1>1, <1>5 DEF IInv, Basics, Going
<1>7. ASSUME Going PROVE Snapshots(file, fpos, stack', session)
  <2>1. Snapshots(file, fpos, stack, session)
    BY <1>7 DEF IInv
  <2>2. x.insync = TRUE => Matches(file, x)
    BY <1>2, <1>4, <1>7 DEF IInv, Synced, MachineAt, Matches
  <2> QED BY <1>3, <1>5, <1>7, <2>1, <2>2
<1>8. ASSUME Going, departures = {} PROVE Synced'
  BY <1>1, <1>8 DEF IInv, Synced, MachineAt
<1> QED BY <1>1, <1>6, <1>7, <1>8 DEF IInv, Going

\* The youngest state of this movie takes the movie back to where it was; that of
\* another leaves none of this one.
LEMMA RewindFrameKeeps ==
  ASSUME IInv, phase = "rewind", phase' = "run", UNCHANGED <<MDFNnetplay, session>>, RewindFrame
  PROVE  IInv'
<1> USE DEF movie, rewinding
<1> DEFINE s == Rewinding!Top(stack)
<1>1. CASE stack = <<>> /\ UNCHANGED <<PortData, mach, movie, rewinding, departures>>
  <2>1. Basics'
    BY <1>1 DEF IInv, Basics, Going
  <2> QED BY <1>1, <2>1 DEF IInv, Going, Synced, MachineAt
<1>2. CASE RewindFails(s)
  <2>1. Basics' /\ departures' # {}
    BY <1>2, EmptyIsSeq DEF RewindFails, IInv, Basics, Going
  <2>2. Snapshots(file, fpos, <<>>, session)
    BY EmptyIsSeq DEF Snapshots
  <2> QED BY <1>2, <2>1, <2>2 DEF IInv, RewindFails
<1>3. CASE stack # <<>> /\ RewindLoads(s)
  <2>1. /\ IsSeq(stack') /\ DOMAIN stack' \subseteq DOMAIN stack
        /\ \A i \in DOMAIN stack' : stack'[i] = stack[i]
        /\ Len(stack) \in DOMAIN stack /\ \A i \in DOMAIN stack : i <= Len(stack)
        /\ s = stack[Len(stack)]
    <3>1. IsSeq(stack) /\ stack # <<>>
      BY <1>3 DEF IInv, Basics
    <3> QED BY <1>3, <3>1, PopLemma DEF RewindLoads, Rewinding!Top
  <2> HIDE DEF s
  <2>2. /\ mach' = s.mach /\ PortData' = s.ports /\ UNCHANGED ActiveMovieMode
        /\ s.movie = 0 <=> ActiveMovieMode = "STOPPED"
        /\ s.movie = 0 => UNCHANGED <<file, fpos>>
        /\ s.movie # 0 => SeekMovie(s.pos)
    BY <1>3 DEF RewindLoads, LoadSM, SeekMovie
  <2>3. s.pos \in Nat /\ s.movie \in 0 .. session /\ session \in Nat
        /\ \A i \in DOMAIN stack' : stack'[i].pos \in Nat /\ stack'[i].movie \in 0 .. session
    BY <2>1 DEF IInv, Basics
  <2>4. s.movie # 0 /\ departures' = {} => s.movie = session /\ s.insync = TRUE
    <3>1. departures' = CASE s.movie = 0 -> departures
                          [] s.movie = session /\ s.insync -> {}
                          [] OTHER -> departures \cup {"rewind"}
      BY <1>3 DEF RewindLoads
    <3>2. departures \cup {"rewind"} # {}
      OBVIOUS
    <3> QED BY <3>1, <3>2
  <2>5. CASE ActiveMovieMode = "STOPPED"
    BY <2>1, <2>2, <2>3, <2>5 DEF IInv, Basics, Going
  <2>6. CASE ActiveMovieMode # "STOPPED"
    <3>1. SeekMovie(s.pos) /\ s.movie # 0
      BY <2>2, <2>6
    <3>2. IsSeq(file) /\ (ActiveMovieMode = "PLAYING" \/ ActiveMovieMode = "RECORDING")
      BY <2>6 DEF IInv, Basics
    <3>3. /\ IsSeq(file') /\ (ActiveMovieMode = "RECORDING" => Len(file') = s.pos)
          /\ fpos' = s.pos /\ Len(file) \in Nat
      BY <2>3, <3>1, <3>2, TruncateLemma, SeqShape DEF SeekMovie
    <3>4. Basics'
      BY <2>1, <2>2, <2>3, <3>3 DEF IInv, Basics, Going
    <3>5. Holds(file', file, s.pos)
      <4>1. CASE ActiveMovieMode = "RECORDING"
        <5>1. file' = [i \in 1 .. s.pos |-> IF i <= Len(file) THEN file[i] ELSE Torn]
          BY <3>1, <4>1 DEF SeekMovie, Truncate
        <5>2. \A n \in Nat : n <= s.pos /\ n <= Len(file) => \A k \in 1 .. n : file'[k] = file[k]
          BY <2>3, <3>3, <5>1
        <5> QED BY <3>3, <4>1, <5>2 DEF Holds
      <4>2. CASE ActiveMovieMode = "PLAYING"
        BY <3>1, <4>2 DEF SeekMovie, Holds
      <4> QED BY <3>2, <4>1, <4>2
    <3>6. Snapshots(file, fpos, stack, session)
      BY <2>6 DEF IInv, Going
    <3>7. Snapshots(file, s.pos, stack', session)
      <4>1. \A i \in DOMAIN stack : stack[i].movie = session => stack[i].pos <= s.pos
        BY <2>1, <3>6 DEF Snapshots
      <4> QED BY <2>1, <3>6, <4>1 DEF Snapshots
    <3>8. Snapshots(file', s.pos, stack', session)
      <4>1. s.pos \in Nat /\ s.pos <= s.pos /\ \A i \in DOMAIN stack' : stack'[i].pos \in Nat
        BY <2>3
      <4> QED BY ONLY <3>5, <3>7, <4>1, SnapshotsKept
    <3>9. ASSUME departures' = {} PROVE Synced'
      <4>1. Matches(file, s)
        BY <2>1, <2>4, <3>1, <3>6, <3>9 DEF Snapshots
      <4>2. s.pos <= Len(file') /\ \A k \in 1 .. s.pos : file'[k] = file[k]
        BY <2>3, <3>5, <4>1 DEF Matches, Holds
      <4>3. ReplayOf(file', s.pos) = ReplayOf(file, s.pos)
        BY <2>3, <4>2, ReplayPrefix
      <4> QED BY <2>2, <3>3, <4>1, <4>2, <4>3 DEF Synced, MachineAt, Matches
    <3> QED BY <3>3, <3>4, <3>8, <3>9 DEF IInv
  <2> QED BY <2>5, <2>6
<1> QED BY <1>1, <1>2, <1>3 DEF RewindFrame

LEMMA FrameKeeps ==
  ASSUME IInv, MDFNSRW_Frame
  PROVE  IInv'
<1> USE DEF movie, rewinding
<1>1. phase = "rewind" /\ phase' = "run" /\ UNCHANGED <<MDFNnetplay, session>>
  BY DEF MDFNSRW_Frame
<1>2. CASE UNCHANGED <<PortData, mach, movie, rewinding, departures>>
  <2>1. Basics'
    BY <1>1, <1>2 DEF IInv, Basics, Going
  <2> QED BY <1>1, <1>2, <2>1 DEF IInv, Going, Synced, MachineAt
<1> QED BY <1>1, <1>2, RecordFrameKeeps, RewindFrameKeeps DEF MDFNSRW_Frame

LEMMA RunKeeps ==
  ASSUME IInv, Run
  PROVE  IInv'
<1> USE DEF movie, rewinding, history
<1>1. /\ phase = "run" /\ phase' \in {"midsync", "idle"} /\ mach' = Append(mach, PortData)
      /\ UNCHANGED <<ActiveMovieMode, file, fpos, stack, MDFNnetplay, session, departures>>
  BY DEF Run
<1>2. Basics'
  BY <1>1 DEF IInv, Basics, Going
<1> QED BY <1>1, <1>2 DEF IInv, Going, Synced, MachineAt

LEMMA Step == IInv /\ [Next]_vars => IInv'
<1> SUFFICES ASSUME IInv, [Next]_vars PROVE IInv'
  OBVIOUS
<1>1. CASE \E p \in Inputs, rewind \in BOOLEAN : MDFNI_Emulate(p, rewind)
  BY <1>1, AsideLemma DEF MDFNI_Emulate, movie, rewinding, history
<1>2. CASE MDFN_MidSync
  BY <1>2, AsideLemma DEF MDFN_MidSync, movie, rewinding, history
<1>3. CASE UNCHANGED vars
  <2>1. Basics'
    BY <1>3 DEF vars, frame, movie, rewinding, history, IInv, Basics, Going
  <2> QED BY <1>3, <2>1 DEF vars, frame, movie, rewinding, history, IInv, Going, Synced, MachineAt
<1> QED
  BY <1>1, <1>2, <1>3, PlayerKeeps, NetplayKeeps, ProcessInputKeeps, FrameKeeps, RunKeeps DEF Next

LEMMA KeepsStep == Spec => []IInv
BY Start, Step, PTL DEF Spec

\* At the end of a frame, whatever has been recorded, loaded, rewound, switched
\* or swapped, a movie being recorded replays to the machine: in every order of
\* the player's commands, and of the server's inputs and states.  A load that fails
\* half way and the other departures are over with the next state recorded, and with
\* rewinding to a frame before them.
THEOREM RecordsTheMachine == Spec => []RecordingInSync
<1>1. IInv => RecordingInSync
  BY ReplayHere DEF IInv, Basics, Going, Synced, MachineAt, RecordingInSync
<1> QED BY <1>1, KeepsStep, PTL

\* A movie being played has brought the machine where the part of it that has been
\* played leads to, back and forth.
THEOREM PlaysTheMovie == Spec => []PlaybackInSync
<1>1. IInv => PlaybackInSync
  BY ReplayHere DEF IInv, Basics, Going, Synced, MachineAt, PlaybackInSync
<1> QED BY <1>1, KeepsStep, PTL

\* The rewind states taken in step and the positions of the movie in them stay those of
\* the same moments, whether the movie has departed from the machine since or not.
THEOREM RewindsTogether == Spec => []SnapshotsInSync
<1>1. IInv => SnapshotsInSync
  <2> SUFFICES ASSUME IInv, ActiveMovieMode # "STOPPED",
                      NEW i \in DOMAIN stack, stack[i].movie = session, stack[i].insync
               PROVE  /\ stack[i].pos <= fpos
                      /\ Replay(stack[i].pos) = Append(stack[i].mach, stack[i].ports)
    BY DEF SnapshotsInSync
  <2>1. Snapshots(file, fpos, stack, session)
    BY DEF IInv, Going
  <2>2. stack[i].pos <= fpos /\ Matches(file, stack[i])
    BY <2>1 DEF Snapshots
  <2> QED BY <2>2, ReplayHere DEF Matches
<1> QED BY <1>1, KeepsStep, PTL
==============================================================================
