-------------------------- MODULE PPURender_proofs --------------------------
(***************************************************************************)
(* Proofs about PPURender for any number of lines, any ring and any set of *)
(* values of the chip's memory.                                            *)
(***************************************************************************)
EXTENDS PPURender, TLAPS

-----------------------------------------------------------------------------
(* The inductive invariant: the ring *)

Types ==
  /\ SpecEx \in BOOLEAN /\ FrameBeginVBlank \in BOOLEAN
  /\ WQ \in [Positions -> Entry] /\ command \in Entry
  /\ WritePos \in Positions /\ ReadPos \in Positions /\ TMP_WritePos \in Positions
  /\ TMP_ReadPos \in Positions /\ RWritePos \in Positions /\ RReadPos \in Positions
  /\ rpc \in {"publish", "poll", "take", "execute", "done"}
  /\ mem \in Values /\ sprites \in Values
  /\ PPU \in Values /\ scanline \in 0 .. VBlankLine /\ LinePhase \in {0, 1, 3}
  /\ SkipFrame \in BOOLEAN /\ skip \in BOOLEAN /\ SpecExSS \in Values \X (0 .. VBlankLine)
  /\ mpc \in {"idle", "ahead", "ahead over", "frame", "over", "synced", "kill", "gone"}
  /\ todo \in Seq(Entry \cup {Publish, Wait}) /\ pending \in Seq(Entry)
  /\ fetched \in Values \cup {None}
  /\ want \in [Lines -> SUBSET [mem : Values, sprites : Values]]
  /\ picture \in [Lines -> {NotDrawn, AsAsked, Otherwise}]

\* How far on round the ring a position is from another, and the position i places on.
Gap(r, x) == IF r <= x THEN x - r ELSE x - r + WQSize
On(r, i) == IF r + i < WQSize THEN r + i ELSE r + i - WQSize

\* How far a position is ahead of the one that the emulating thread takes the render
\* thread's to be, and the slot i places on from where that is.
Dist(x) == Gap(ReadPos, x)
At(i) == On(RReadPos, i)

\* The positions follow one another round the ring, none lapping another.
OrderInv ==
  /\ Dist(TMP_ReadPos) <= Dist(RReadPos) /\ Dist(RReadPos) <= Dist(RWritePos)
  /\ Dist(RWritePos) <= Dist(TMP_WritePos) /\ Dist(TMP_WritePos) <= Dist(WritePos)
  /\ rpc \in {"publish", "poll"} => RReadPos = RWritePos
  /\ rpc = "take" => RReadPos # RWritePos
  /\ rpc = "execute" => TMP_ReadPos # RReadPos

PendingInv ==
  /\ Len(pending) = Dist(WritePos) - Dist(RReadPos)
  /\ \A i \in 1 .. Len(pending) : WQ[At(i - 1)] = pending[i]

-----------------------------------------------------------------------------
(* ... frames *)

\* Everything asked of the render thread and not yet done.
Asked == {pending[i] : i \in 1 .. Len(pending)} \cup {todo[i] : i \in 1 .. Len(todo)}
         \cup {c \in {command} : rpc = "execute"}

Rest == pending = <<>> /\ rpc \in {"publish", "poll"}
Resting == mpc = "idle" \/ (mpc = "synced" /\ todo = <<>>)
Shows == {"frame", "over", "synced"}

RestInv ==
  /\ mpc \in {"idle", "gone"} => todo = <<>>
  /\ mpc = "synced" => todo \in {<<>>, <<Wait>>, <<Publish, Wait>>}
  /\ Resting => Rest
  /\ rpc = "done" => mpc \in {"kill", "gone"}
  /\ EXIT \in Asked => mpc \in {"kill", "gone"}

\* Whether to skip is looked at in the first line, and holds for the others.
FrameInv ==
  /\ SpecExSS[2] \in {0, FrameEndsAt}
  /\ mpc \in {"idle", "ahead over", "over", "synced"} => LinePhase = 0 /\ scanline \in {0, FrameEndsAt}
  /\ mpc = "ahead" => skip
  /\ mpc \in {"ahead", "frame"} /\ scanline \in Lines /\ (scanline > 1 \/ LinePhase # 0)
       => SkipFrame = skip
  /\ mpc \in Shows => es = "espec"

\* The line has been come to in this frame.
Reached(l) == /\ ~ (FrameBeginVBlank /\ scanline = VBlankLine)
              /\ l < scanline \/ (l = scanline /\ LinePhase # 0)

DrawInv ==
  \A e \in Asked : /\ Draws(e) => mpc \in Shows
                   /\ e.Command = "RENDER_LINE" /\ mpc = "frame" => Reached(e.line)

\* No line is asked for twice.
Apart(e, f) == e.Command = "RENDER_LINE" /\ f.Command = "RENDER_LINE" => e.line # f.line
OnceInv ==
  /\ \A i, j \in 1 .. Len(pending) : i < j => Apart(pending[i], pending[j])
  /\ \A i, j \in 1 .. Len(todo) : i < j => Apart(todo[i], todo[j])
  /\ \A i \in 1 .. Len(pending), j \in 1 .. Len(todo) : Apart(pending[i], todo[j])
  /\ rpc = "execute" => /\ \A i \in 1 .. Len(pending) : Apart(command, pending[i])
                        /\ \A i \in 1 .. Len(todo) : Apart(command, todo[i])

PictureInv ==
  \A l \in Lines :
    \/ picture[l] = AsAsked
    \/ /\ picture[l] = NotDrawn /\ mpc \in Shows /\ ~ skip
       /\ (mpc = "frame" /\ ~ Reached(l)) \/ RENDER_LINE(l) \in Asked

-----------------------------------------------------------------------------
(* ... and what lines show *)

Effect(e, s) == Shown(IF e.Command = "WRITE" THEN e.v ELSE s.mem,
                      IF e.Command = "FETCH_SPRITE_DATA" THEN s.mem ELSE s.sprites)
Renders(w, e, s) == e.Command = "RENDER_LINE" => s \in w[e.line]

\* What there is now, once the entry taken is done.
Now == IF rpc = "execute" THEN Effect(command, Shown(mem, sprites)) ELSE Shown(mem, sprites)

\* h is what there is after each of the entries, and w what the lines among them should
\* show: h follows what is queued from what there is now, and g what is still to be
\* queued, up to what the emulated chip is.
Follows(w, h, q) ==
  \A i \in 1 .. Len(q) : h[i] = Effect(q[i], h[i - 1]) /\ Renders(w, q[i], h[i - 1])
UpToDate(s) == s.mem = PPU /\ (fetched # None => s.sprites = fetched)
Replay(h, g) ==
  /\ h[0] = Now /\ Follows(want, h, pending)
  /\ g[0] = h[Len(pending)] /\ Follows(want, g, todo)
  /\ UpToDate(g[Len(todo)])

States == [mem : Values, sprites : Values]
ShownInv ==
  /\ rpc = "execute" => Renders(want, command, Shown(mem, sprites))
  /\ \E h \in [0 .. Len(pending) -> States], g \in [0 .. Len(todo) -> States] : Replay(h, g)

IInv == /\ Types /\ OrderInv /\ PendingInv /\ RestInv /\ FrameInv /\ DrawInv /\ OnceInv
        /\ PictureInv /\ ShownInv

USE RenderAssumption DEF None, Lines, VBlankLine, Positions

Item == Entry \cup {Publish, Wait}

-----------------------------------------------------------------------------
(* What holds of entries, sequences and positions.                          *)

LEMMA EntryLemma ==
  /\ \A v \in Values : Write(v) \in Entry /\ Write(v).Command = "WRITE" /\ Write(v).v = v
  /\ \A l \in Lines : /\ RENDER_LINE(l) \in Entry /\ RENDER_LINE(l).Command = "RENDER_LINE"
                      /\ RENDER_LINE(l).line = l
  /\ \A s \in BOOLEAN : /\ ENTER_VBLANK(s) \in Entry
                        /\ ENTER_VBLANK(s).Command = "ENTER_VBLANK" /\ ENTER_VBLANK(s).skip = s
  /\ RESET_LINE_TARGET \in Entry /\ RESET_LINE_TARGET.Command = "RESET_LINE_TARGET"
  /\ FETCH_SPRITE_DATA \in Entry /\ FETCH_SPRITE_DATA.Command = "FETCH_SPRITE_DATA"
  /\ EXIT \in Entry /\ EXIT.Command = "EXIT"
  /\ Publish.Command = "publish" /\ Wait.Command = "wait"
BY DEF Entry, Write, RENDER_LINE, ENTER_VBLANK, RESET_LINE_TARGET, FETCH_SPRITE_DATA, EXIT,
       Publish, Wait

LEMMA CommandLemma ==
  ASSUME NEW e \in Item
  PROVE  /\ e.Command = "WRITE" => e.v \in Values
         /\ e.Command = "RENDER_LINE" => e.line \in Lines /\ e = RENDER_LINE(e.line)
         /\ e.Command = "EXIT" => e = EXIT
         /\ e.Command = "FETCH_SPRITE_DATA" => e = FETCH_SPRITE_DATA
         /\ e \notin {Publish, Wait} => e \in Entry
         /\ e \in Entry => e \notin {Publish, Wait}
BY DEF Item, Entry, Write, RENDER_LINE, ENTER_VBLANK, RESET_LINE_TARGET, FETCH_SPRITE_DATA, EXIT,
       Publish, Wait

LEMMA OneLemma ==
  ASSUME NEW S, NEW a \in S
  PROVE  <<a>> \in Seq(S) /\ Len(<<a>>) = 1 /\ <<a>>[1] = a /\ <<a>> # <<>>
OBVIOUS

LEMMA TwoLemma ==
  ASSUME NEW S, NEW a \in S, NEW b \in S
  PROVE  /\ <<a, b>> \in Seq(S) /\ Len(<<a, b>>) = 2
         /\ <<a, b>>[1] = a /\ <<a, b>>[2] = b /\ <<a, b>> # <<>>
OBVIOUS

LEMMA ThreeLemma ==
  ASSUME NEW S, NEW a \in S, NEW b \in S, NEW c \in S
  PROVE  /\ <<a, b, c>> \in Seq(S) /\ Len(<<a, b, c>>) = 3
         /\ <<a, b, c>>[1] = a /\ <<a, b, c>>[2] = b /\ <<a, b, c>>[3] = c /\ <<a, b, c>> # <<>>
OBVIOUS

LEMMA PutLemma ==
  ASSUME NEW S, NEW s \in Seq(S), NEW a \in S, NEW b \in S
  PROVE  /\ <<a, b>> \o s \in Seq(S) /\ Len(<<a, b>> \o s) = Len(s) + 2
         /\ (<<a, b>> \o s)[1] = a /\ (<<a, b>> \o s)[2] = b
         /\ \A i \in 3 .. Len(s) + 2 : (<<a, b>> \o s)[i] = s[i - 2]
<1>1. <<a, b>> \in Seq(S) /\ Len(<<a, b>>) = 2 /\ <<a, b>>[1] = a /\ <<a, b>>[2] = b
  BY TwoLemma
<1> DEFINE t == <<a, b>>
<1> HIDE DEF t
<1>2. /\ t \o s \in Seq(S) /\ Len(t \o s) = Len(t) + Len(s)
      /\ \A i \in 1 .. Len(t) + Len(s) : (t \o s)[i] = IF i <= Len(t) THEN t[i] ELSE s[i - Len(t)]
  BY <1>1 DEF t
<1>3. /\ t \in Seq(S) /\ Len(t) = 2 /\ t[1] = a /\ t[2] = b /\ Len(s) \in Nat
  BY <1>1 DEF t
<1>4. /\ t \o s \in Seq(S) /\ Len(t \o s) = Len(s) + 2
      /\ (t \o s)[1] = a /\ (t \o s)[2] = b
      /\ \A i \in 3 .. Len(s) + 2 : (t \o s)[i] = s[i - 2]
  BY <1>2, <1>3
<1> QED BY <1>4 DEF t

LEMMA TailLemma ==
  ASSUME NEW S, NEW s \in Seq(S), s # <<>>
  PROVE  /\ Head(s) = s[1] /\ s[1] \in S /\ Tail(s) \in Seq(S) /\ Len(Tail(s)) = Len(s) - 1
         /\ Len(s) \in Nat \ {0}
         /\ \A i \in 1 .. Len(s) - 1 : Tail(s)[i] = s[i + 1]
OBVIOUS

LEMMA AppendLemma ==
  ASSUME NEW S, NEW s \in Seq(S), NEW a \in S
  PROVE  /\ Append(s, a) \in Seq(S) /\ Len(Append(s, a)) = Len(s) + 1
         /\ Append(s, a)[Len(s) + 1] = a
         /\ \A i \in 1 .. Len(s) : Append(s, a)[i] = s[i]
OBVIOUS

LEMMA SameLemma ==
  ASSUME NEW S, NEW s \in Seq(S), NEW t \in Seq(S), Len(s) = Len(t),
         \A i \in 1 .. Len(s) : s[i] = t[i]
  PROVE  s = t
OBVIOUS

LEMMA NextLemma ==
  ASSUME NEW p \in Positions
  PROVE  NextPos(p) \in Positions /\ NextPos(p) = IF p = WQSize - 1 THEN 0 ELSE p + 1
BY DEF NextPos

-----------------------------------------------------------------------------
(* The ring.                                                                *)

\* The emulating thread goes on, and leaves the ring as it is.
RingAtRest == UNCHANGED <<ring, rpc, command>>

LEMMA RingAtRestLemma == ASSUME OrderInv, PendingInv, RingAtRest PROVE OrderInv' /\ PendingInv'
BY DEF RingAtRest, ring, OrderInv, PendingInv, Dist, At

LEMMA GapLemma ==
  ASSUME NEW r \in Positions
  PROVE  /\ \A x \in Positions : Gap(r, x) \in 0 .. WQSize - 1
         /\ Gap(r, r) = 0
         /\ \A x, y \in Positions : Gap(r, x) = Gap(r, y) => x = y
         /\ \A x \in Positions : Gap(r, x) < WQSize - 1 => Gap(r, NextPos(x)) = Gap(r, x) + 1
         /\ \A x \in Positions : Gap(r, x) = WQSize - 1 <=> NextPos(x) = r
         /\ \A s, x \in Positions : Gap(r, s) <= Gap(r, x) => Gap(s, x) = Gap(r, x) - Gap(r, s)
         /\ \A x \in Positions : On(r, Gap(r, x)) = x
         /\ \A i \in 0 .. WQSize - 1 : On(r, i) \in Positions /\ Gap(r, On(r, i)) = i
<1>1. \A x \in Positions : NextPos(x) \in Positions /\ NextPos(x) = IF x = WQSize - 1 THEN 0 ELSE x + 1
  BY NextLemma
<1> USE DEF Gap, On
<1>2. \A x \in Positions : Gap(r, x) \in 0 .. WQSize - 1
  OBVIOUS
<1>3. Gap(r, r) = 0 /\ \A x, y \in Positions : Gap(r, x) = Gap(r, y) => x = y
  OBVIOUS
<1>4. \A x \in Positions : Gap(r, x) < WQSize - 1 => Gap(r, NextPos(x)) = Gap(r, x) + 1
  BY <1>1
<1>5. \A x \in Positions : Gap(r, x) = WQSize - 1 <=> NextPos(x) = r
  BY <1>1
<1>6. \A s, x \in Positions : Gap(r, s) <= Gap(r, x) => Gap(s, x) = Gap(r, x) - Gap(r, s)
  OBVIOUS
<1>7. \A x \in Positions : On(r, Gap(r, x)) = x
  OBVIOUS
<1>8. \A i \in 0 .. WQSize - 1 : On(r, i) \in Positions /\ Gap(r, On(r, i)) = i
  OBVIOUS
<1> QED BY <1>2, <1>3, <1>4, <1>5, <1>6, <1>7, <1>8

\* An entry is stored behind all that is queued, and there is room for it.
LEMMA StoreRing ==
  ASSUME Types, OrderInv, PendingInv, WWQ
  PROVE  /\ OrderInv' /\ PendingInv' /\ Head(todo) \in Entry
         /\ WQ' \in [Positions -> Entry] /\ WritePos' \in Positions /\ pending' \in Seq(Entry)
<1>1. /\ UNCHANGED <<ReadPos, TMP_WritePos, TMP_ReadPos, RWritePos, RReadPos, rpc>>
      /\ todo # <<>> /\ Head(todo) \notin {Publish, Wait}
      /\ WQ' = [WQ EXCEPT ![WritePos] = Head(todo)]
      /\ \/ WritePos' = WritePos /\ pending' = pending
         \/ /\ WritePos' = NextPos(WritePos) /\ pending' = Append(pending, Head(todo))
            /\ NextPos(WritePos) # ReadPos
  BY DEF WWQ, renderer, Full
<1>2. PICK e \in Entry : e = Head(todo)
  <2>1. todo \in Seq(Item) /\ todo # <<>>
    BY <1>1 DEF Types, Item
  <2>2. Head(todo) \in Item
    BY <2>1, TailLemma
  <2> QED BY <1>1, <2>2, CommandLemma
<1>3. /\ {WritePos, ReadPos, RReadPos, TMP_WritePos, RWritePos, TMP_ReadPos} \subseteq Positions
      /\ WQ \in [Positions -> Entry] /\ pending \in Seq(Entry)
  BY DEF Types
<1>4. PICK n \in Nat : n = Len(pending) /\ n = Gap(ReadPos, WritePos) - Gap(ReadPos, RReadPos)
  BY <1>3 DEF PendingInv, Dist
<1>5. /\ Gap(ReadPos, RReadPos) \in Nat /\ Gap(ReadPos, WritePos) \in 0 .. WQSize - 1
      /\ Gap(RReadPos, WritePos) = n
  <2>1. /\ RReadPos \in Positions /\ ReadPos \in Positions /\ WritePos \in Positions
    BY <1>3
  <2>2. /\ Gap(ReadPos, RReadPos) \in 0 .. WQSize - 1 /\ Gap(ReadPos, WritePos) \in 0 .. WQSize - 1
    BY <2>1, GapLemma
  <2>3. Gap(ReadPos, RReadPos) <= Gap(ReadPos, WritePos)
    BY <1>4, <2>2
  <2> QED BY <1>4, <2>1, <2>2, <2>3, GapLemma
<1>6. WQ' \in [Positions -> Entry] /\ WQ'[WritePos] = e
      /\ \A x \in Positions : x # WritePos => WQ'[x] = WQ[x]
  BY <1>1, <1>2, <1>3
<1>7. \A i \in 1 .. n : WQ'[On(RReadPos, i - 1)] = pending[i]
  <2> SUFFICES ASSUME NEW i \in 1 .. n PROVE WQ'[On(RReadPos, i - 1)] = pending[i]
    OBVIOUS
  <2>1. i - 1 \in 0 .. WQSize - 1 /\ i - 1 # n
    BY <1>4, <1>5
  <2>2. On(RReadPos, i - 1) \in Positions /\ Gap(RReadPos, On(RReadPos, i - 1)) = i - 1
    BY <1>3, <2>1, GapLemma
  <2>3. On(RReadPos, i - 1) # WritePos
    BY <1>5, <2>1, <2>2
  <2>4. WQ[On(RReadPos, i - 1)] = pending[i]
    BY <1>4 DEF PendingInv, At
  <2> QED BY <1>6, <2>2, <2>3, <2>4
<1>8. CASE WritePos' = WritePos /\ pending' = pending
  BY <1>1, <1>2, <1>3, <1>4, <1>6, <1>7, <1>8 DEF OrderInv, PendingInv, Dist, At
<1>9. CASE WritePos' = NextPos(WritePos) /\ pending' = Append(pending, e) /\ NextPos(WritePos) # ReadPos
  <2>1. WritePos' \in Positions
    BY <1>3, <1>9, NextLemma
  <2>2. Gap(ReadPos, WritePos') = Gap(ReadPos, WritePos) + 1
    <3>1. Gap(ReadPos, WritePos) # WQSize - 1
      BY <1>3, <1>9, GapLemma
    <3>2. Gap(ReadPos, WritePos) < WQSize - 1
      BY <1>5, <3>1
    <3> QED BY <1>3, <1>9, <3>2, GapLemma
  <2>3. /\ pending' \in Seq(Entry) /\ Len(pending') = n + 1 /\ pending'[n + 1] = e
        /\ \A i \in 1 .. n : pending'[i] = pending[i]
    <3>1. pending \in Seq(Entry) /\ n = Len(pending) /\ pending' = Append(pending, e)
      BY <1>3, <1>4, <1>9
    <3> QED BY <3>1, AppendLemma
  <2>4. WQ'[On(RReadPos, n)] = e
    BY <1>3, <1>5, <1>6, GapLemma
  <2>5. \A i \in 1 .. n + 1 : WQ'[On(RReadPos, i - 1)] = pending'[i]
    BY <1>7, <2>3, <2>4
  <2>6. PendingInv'
    BY <1>1, <1>4, <1>5, <2>2, <2>3, <2>5 DEF PendingInv, Dist, At
  <2>7. Gap(ReadPos, TMP_WritePos) \in Nat
    BY <1>3, GapLemma
  <2>8. OrderInv'
    BY <1>1, <1>5, <2>2, <2>7 DEF OrderInv, Dist
  <2> QED BY <1>2, <1>6, <2>1, <2>3, <2>6, <2>8
<1> QED BY <1>1, <1>2, <1>8, <1>9

\* Positions are published, or learnt of.
LEMMA LearnRing ==
  ASSUME Types, OrderInv, PendingInv,
         ReadPos' = TMP_ReadPos, TMP_WritePos' = TMP_WritePos \/ TMP_WritePos' = WritePos,
         UNCHANGED <<WQ, WritePos, TMP_ReadPos, RWritePos, RReadPos, pending, rpc>>
  PROVE  OrderInv' /\ PendingInv'
<1>1. /\ WritePos \in Positions /\ ReadPos \in Positions /\ RReadPos \in Positions
      /\ TMP_WritePos \in Positions /\ RWritePos \in Positions /\ TMP_ReadPos \in Positions
  BY DEF Types
<1> DEFINE G(x) == Gap(ReadPos, x)
<1>2. /\ G(WritePos) \in Int /\ G(RReadPos) \in Int /\ G(TMP_WritePos) \in Int
      /\ G(RWritePos) \in Int /\ G(TMP_ReadPos) \in Int
  BY <1>1, GapLemma
<1>3. /\ G(TMP_ReadPos) <= G(RReadPos) /\ G(RReadPos) <= G(RWritePos)
      /\ G(RWritePos) <= G(TMP_WritePos) /\ G(TMP_WritePos) <= G(WritePos)
  BY DEF OrderInv, Dist
<1>4. \A x \in {WritePos, RReadPos, TMP_WritePos, RWritePos, TMP_ReadPos} :
        Gap(TMP_ReadPos, x) = G(x) - G(TMP_ReadPos)
  <2> SUFFICES ASSUME NEW x \in {WritePos, RReadPos, TMP_WritePos, RWritePos, TMP_ReadPos}
               PROVE  Gap(TMP_ReadPos, x) = G(x) - G(TMP_ReadPos)
    OBVIOUS
  <2>1. x \in Positions /\ G(TMP_ReadPos) <= G(x)
    BY <1>1, <1>2, <1>3
  <2> QED BY <1>1, <2>1, GapLemma
<1> HIDE DEF G
<1>5. OrderInv'
  BY <1>2, <1>3, <1>4 DEF OrderInv, Dist
<1>6. Len(pending') = Dist(WritePos)' - Dist(RReadPos)'
  <2>1. Len(pending) = G(WritePos) - G(RReadPos)
    BY DEF PendingInv, Dist, G
  <2> QED BY <1>2, <1>4, <2>1 DEF Dist
<1> QED BY <1>5, <1>6 DEF PendingInv, At

\* When the position that the render thread publishes has caught up, nothing is left.
LEMMA EmptyRing ==
  ASSUME Types, OrderInv, PendingInv, TMP_ReadPos = WritePos
  PROVE  pending = <<>> /\ rpc \in {"publish", "poll", "done"}
<1>1. /\ WritePos \in Positions /\ ReadPos \in Positions /\ RReadPos \in Positions
      /\ TMP_WritePos \in Positions /\ RWritePos \in Positions
  BY DEF Types
<1>2. /\ Dist(WritePos) \in Int /\ Dist(RReadPos) \in Int /\ Dist(TMP_WritePos) \in Int
      /\ Dist(RWritePos) \in Int
  BY <1>1, GapLemma DEF Dist
<1>3. Dist(RReadPos) = Dist(WritePos) /\ Dist(RWritePos) = Dist(WritePos)
  BY <1>2 DEF OrderInv
<1>4. RReadPos = WritePos /\ RWritePos = WritePos
  BY <1>1, <1>3, GapLemma DEF Dist
<1>5. pending = <<>>
  <2>1. Len(pending) = Dist(WritePos) - Dist(RReadPos)
    BY DEF PendingInv
  <2>2. pending \in Seq(Entry)
    BY DEF Types
  <2> QED BY <1>2, <1>3, <2>1, <2>2
<1>6. rpc # "take" /\ rpc # "execute"
  BY <1>4 DEF OrderInv
<1>7. rpc \in {"publish", "poll", "take", "execute", "done"}
  BY DEF Types
<1> QED BY <1>5, <1>6, <1>7

LEMMA ThreadRing ==
  ASSUME Types, OrderInv, PendingInv, PublishReads \/ Poll \/ Execute
  PROVE  OrderInv' /\ PendingInv' /\ UNCHANGED <<WQ, WritePos, pending>>
<1>1. /\ UNCHANGED <<WQ, WritePos, ReadPos, TMP_WritePos, RReadPos, pending>>
      /\ TMP_ReadPos' = TMP_ReadPos \/ TMP_ReadPos' = RReadPos
      /\ RWritePos' = RWritePos \/ RWritePos' = TMP_WritePos
      /\ rpc' \in {"publish", "poll"} => RReadPos = RWritePos'
      /\ rpc' = "take" => RReadPos # RWritePos'
      /\ rpc' # "execute"
  <2>1. CASE PublishReads
    BY <2>1 DEF PublishReads, OrderInv
  <2>2. CASE Poll
    BY <2>2 DEF Poll
  <2>3. CASE Execute
    BY <2>3 DEF Execute, ring
  <2> QED BY <2>1, <2>2, <2>3
<1>2. /\ WritePos \in Positions /\ ReadPos \in Positions /\ RReadPos \in Positions
      /\ TMP_WritePos \in Positions /\ RWritePos \in Positions /\ TMP_ReadPos \in Positions
  BY DEF Types
<1>3. /\ Dist(WritePos) \in Int /\ Dist(RReadPos) \in Int /\ Dist(TMP_WritePos) \in Int
      /\ Dist(RWritePos) \in Int /\ Dist(TMP_ReadPos) \in Int
  BY <1>2, GapLemma DEF Dist
<1>4. OrderInv'
  <2>1. /\ Dist(TMP_ReadPos) <= Dist(RReadPos) /\ Dist(RReadPos) <= Dist(RWritePos)
        /\ Dist(RWritePos) <= Dist(TMP_WritePos) /\ Dist(TMP_WritePos) <= Dist(WritePos)
    BY DEF OrderInv
  <2> QED BY <1>1, <1>3, <2>1 DEF OrderInv, Dist
<1>5. PendingInv'
  BY <1>1 DEF PendingInv, Dist, At
<1> QED BY <1>1, <1>4, <1>5

\* What is taken is what was queued first.
LEMMA TakeRing ==
  ASSUME Types, OrderInv, PendingInv, Take
  PROVE  /\ OrderInv' /\ PendingInv' /\ UNCHANGED <<WQ, WritePos>> /\ RReadPos' \in Positions
         /\ pending # <<>> /\ command' = pending[1]
<1>1. /\ UNCHANGED <<WQ, WritePos, ReadPos, TMP_WritePos, TMP_ReadPos, RWritePos>>
      /\ rpc = "take" /\ rpc' = "execute" /\ RReadPos' = NextPos(RReadPos)
      /\ command' = WQ[RReadPos] /\ pending' = Tail(pending) /\ RReadPos # RWritePos
  BY DEF Take, TakeQuietly
<1>2. /\ WritePos \in Positions /\ ReadPos \in Positions /\ RReadPos \in Positions
      /\ TMP_WritePos \in Positions /\ RWritePos \in Positions /\ TMP_ReadPos \in Positions
  BY DEF Types
<1> DEFINE G(x) == Gap(ReadPos, x)
<1>3. /\ G(WritePos) \in 0 .. WQSize - 1 /\ G(RReadPos) \in 0 .. WQSize - 1
      /\ G(TMP_WritePos) \in Int /\ G(RWritePos) \in Int /\ G(TMP_ReadPos) \in Int
  BY <1>2, GapLemma
<1>4. /\ G(TMP_ReadPos) <= G(RReadPos) /\ G(RReadPos) <= G(RWritePos)
      /\ G(RWritePos) <= G(TMP_WritePos) /\ G(TMP_WritePos) <= G(WritePos)
  BY DEF OrderInv, Dist
<1>5. G(RReadPos) # G(RWritePos)
  BY <1>1, <1>2, GapLemma
<1> HIDE DEF G
<1>6. G(RReadPos) < WQSize - 1 /\ G(RReadPos) + 1 <= G(RWritePos)
  BY <1>3, <1>4, <1>5
<1>7. RReadPos' \in Positions /\ G(RReadPos') = G(RReadPos) + 1
  BY <1>1, <1>2, <1>6, NextLemma, GapLemma DEF G
<1>8. TMP_ReadPos # RReadPos'
  BY <1>3, <1>4, <1>7
<1>9. OrderInv'
  <2>1. G(TMP_ReadPos) <= G(RReadPos') /\ G(RReadPos') <= G(RWritePos)
    BY <1>3, <1>4, <1>6, <1>7
  <2> QED BY <1>1, <1>4, <1>8, <2>1 DEF OrderInv, Dist, G
<1>10. PICK n \in Nat : /\ n = Len(pending) /\ n = G(WritePos) - G(RReadPos) /\ n > 0 /\ n < WQSize
                        /\ pending \in Seq(Entry) /\ pending # <<>>
  <2>1. pending \in Seq(Entry) /\ Len(pending) \in Nat /\ Len(pending) = G(WritePos) - G(RReadPos)
    <3>1. pending \in Seq(Entry)
      BY DEF Types
    <3> QED BY <3>1 DEF PendingInv, Dist, G
  <2>2. Len(pending) > 0 /\ Len(pending) < WQSize
    BY <1>3, <1>4, <1>6, <2>1
  <2>3. pending # <<>>
    BY <2>2
  <2> QED BY <2>1, <2>2, <2>3
<1>11. Len(pending') = n - 1 /\ \A i \in 1 .. n - 1 : pending'[i] = pending[i + 1]
  BY <1>1, <1>10, TailLemma
<1>12. \A i \in 1 .. n : WQ[On(RReadPos, i - 1)] = pending[i]
  BY <1>10 DEF PendingInv, At
<1>13. \A i \in 1 .. n - 1 : On(RReadPos', i - 1) = On(RReadPos, i)
  <2>1. RReadPos' = IF RReadPos = WQSize - 1 THEN 0 ELSE RReadPos + 1
    BY <1>1, <1>2, NextLemma
  <2> QED BY <1>2, <1>10, <2>1 DEF On
<1>14. \A i \in 1 .. n - 1 : WQ[On(RReadPos', i - 1)] = pending'[i]
  <2> SUFFICES ASSUME NEW i \in 1 .. n - 1 PROVE WQ[On(RReadPos', i - 1)] = pending'[i]
    OBVIOUS
  <2>1. i + 1 \in 1 .. n /\ (i + 1) - 1 = i
    BY <1>10
  <2>2. WQ[On(RReadPos, (i + 1) - 1)] = pending[i + 1]
    BY <1>12, <2>1
  <2> QED BY <1>11, <1>13, <2>1, <2>2
<1>15. command' = pending[1]
  <2>1. On(RReadPos, 0) = RReadPos
    BY <1>2 DEF On
  <2>2. 1 \in 1 .. n /\ 1 - 1 = 0
    BY <1>10
  <2>3. WQ[On(RReadPos, 1 - 1)] = pending[1]
    BY <1>12, <2>2
  <2> QED BY <1>1, <2>1, <2>2, <2>3
<1>16. Len(pending') = G(WritePos) - G(RReadPos')
  BY <1>3, <1>7, <1>10, <1>11
<1>17. PendingInv'
  BY <1>1, <1>11, <1>14, <1>16 DEF PendingInv, Dist, At, G
<1> QED BY <1>1, <1>7, <1>9, <1>10, <1>15, <1>17

-----------------------------------------------------------------------------
(* What follows what.                                                       *)

LEMMA EffectLemma ==
  ASSUME NEW e \in Item, NEW s \in States
  PROVE  /\ Effect(e, s) \in States /\ s = Shown(s.mem, s.sprites)
         /\ s.mem \in Values /\ s.sprites \in Values
         /\ e.Command = "WRITE" => Effect(e, s).mem = e.v /\ Effect(e, s).sprites = s.sprites
         /\ e.Command = "FETCH_SPRITE_DATA" => Effect(e, s) = Shown(s.mem, s.mem)
         /\ e.Command \notin {"WRITE", "FETCH_SPRITE_DATA"} => Effect(e, s) = s
BY CommandLemma DEF Effect, States, Shown

LEMMA NoneFollow ==
  ASSUME NEW w, NEW s \in States
  PROVE  \E g \in [0 .. Len(<<>>) -> States] :
           g[0] = s /\ Follows(w, g, <<>>) /\ g[Len(<<>>)] = s
<1>1. PICK g : g = [i \in 0 .. 0 |-> s]
  OBVIOUS
<1>2. g[0] = s /\ g \in [0 .. 0 -> States] /\ Len(<<>>) = 0
  BY <1>1
<1>3. Follows(w, g, <<>>)
  BY <1>2 DEF Follows
<1> QED BY <1>2, <1>3

LEMMA AppendFollows ==
  ASSUME NEW w, NEW q \in Seq(Item), NEW h \in [0 .. Len(q) -> States], Follows(w, h, q),
         NEW e \in Item, Renders(w, e, h[Len(q)])
  PROVE  \E k \in [0 .. Len(Append(q, e)) -> States] :
           /\ k[0] = h[0] /\ Follows(w, k, Append(q, e))
           /\ k[Len(Append(q, e))] = Effect(e, h[Len(q)])
<1>1. PICK n \in Nat : n = Len(q)
  OBVIOUS
<1>2. PICK r : /\ r = Append(q, e) /\ Len(r) = n + 1 /\ r[n + 1] = e
               /\ \A i \in 1 .. n : r[i] = q[i]
  BY <1>1, AppendLemma
<1>3. PICK k : k = [i \in 0 .. n + 1 |-> IF i <= n THEN h[i] ELSE Effect(e, h[n])]
  OBVIOUS
<1>4. h \in [0 .. n -> States] /\ h[n] \in States
  BY <1>1
<1>5. Effect(e, h[n]) \in States
  BY <1>4, EffectLemma
<1>6. /\ k \in [0 .. n + 1 -> States] /\ k[n + 1] = Effect(e, h[n])
      /\ \A i \in 0 .. n : k[i] = h[i]
  BY <1>3, <1>4, <1>5
<1>7. \A i \in 1 .. n + 1 : k[i] = Effect(r[i], k[i - 1]) /\ Renders(w, r[i], k[i - 1])
  <2> SUFFICES ASSUME NEW i \in 1 .. n + 1
               PROVE  k[i] = Effect(r[i], k[i - 1]) /\ Renders(w, r[i], k[i - 1])
    OBVIOUS
  <2>1. CASE i = n + 1
    <3>1. i - 1 = n /\ n \in 0 .. n
      BY <2>1
    <3>2. k[i - 1] = h[n] /\ r[i] = e
      BY <1>2, <1>6, <2>1, <3>1
    <3> QED BY <1>1, <1>6, <2>1, <3>2
  <2>2. CASE i \in 1 .. n
    <3>1. i - 1 \in 0 .. n /\ i \in 0 .. n
      BY <2>2
    <3>2. h[i] = Effect(q[i], h[i - 1]) /\ Renders(w, q[i], h[i - 1])
      BY <1>1, <2>2 DEF Follows
    <3> QED BY <1>2, <1>6, <2>2, <3>1, <3>2
  <2> QED BY <2>1, <2>2
<1>8. Follows(w, k, r)
  BY <1>2, <1>7 DEF Follows
<1> QED BY <1>1, <1>2, <1>6, <1>8

LEMMA TailFollows ==
  ASSUME NEW w, NEW q \in Seq(Item), NEW h \in [0 .. Len(q) -> States], Follows(w, h, q), q # <<>>
  PROVE  \E k \in [0 .. Len(Tail(q)) -> States] :
           k[0] = h[1] /\ Follows(w, k, Tail(q)) /\ k[Len(Tail(q))] = h[Len(q)]
<1>1. PICK n \in Nat : n = Len(q) /\ n > 0
  BY TailLemma
<1>2. PICK r : r = Tail(q) /\ Len(r) = n - 1 /\ \A i \in 1 .. n - 1 : r[i] = q[i + 1]
  BY <1>1, TailLemma
<1>3. PICK k : k = [i \in 0 .. n - 1 |-> h[i + 1]]
  OBVIOUS
<1>4. k \in [0 .. n - 1 -> States] /\ \A i \in 0 .. n - 1 : k[i] = h[i + 1]
  <2>1. \A i \in 0 .. n - 1 : i + 1 \in 0 .. n
    BY <1>1
  <2> QED BY <1>1, <1>3, <2>1
<1>5. k[0] = h[1] /\ k[n - 1] = h[n]
  BY <1>1, <1>4
<1>6. \A i \in 1 .. n - 1 : k[i] = Effect(r[i], k[i - 1]) /\ Renders(w, r[i], k[i - 1])
  <2> SUFFICES ASSUME NEW i \in 1 .. n - 1
               PROVE  k[i] = Effect(r[i], k[i - 1]) /\ Renders(w, r[i], k[i - 1])
    OBVIOUS
  <2>1. i \in 0 .. n - 1 /\ i - 1 \in 0 .. n - 1 /\ (i - 1) + 1 = i /\ i + 1 \in 1 .. n /\ (i + 1) - 1 = i
    BY <1>1
  <2>2. k[i] = h[i + 1] /\ k[i - 1] = h[i] /\ r[i] = q[i + 1]
    <3>1. k[i - 1] = h[(i - 1) + 1]
      BY <1>4, <2>1
    <3> QED BY <1>2, <1>4, <2>1, <3>1
  <2>3. h[i + 1] = Effect(q[i + 1], h[(i + 1) - 1]) /\ Renders(w, q[i + 1], h[(i + 1) - 1])
    BY <1>1, <2>1 DEF Follows
  <2> QED BY <2>1, <2>2, <2>3
<1>7. Follows(w, k, r)
  BY <1>2, <1>6 DEF Follows
<1> QED BY <1>1, <1>2, <1>4, <1>5, <1>7

LEMMA PutFollows ==
  ASSUME NEW w, NEW q \in Seq(Item), NEW h \in [0 .. Len(q) -> States], Follows(w, h, q)
  PROVE  \E k \in [0 .. Len(<<Publish, Wait>> \o q) -> States] :
           /\ k[0] = h[0] /\ Follows(w, k, <<Publish, Wait>> \o q)
           /\ k[Len(<<Publish, Wait>> \o q)] = h[Len(q)]
<1>1. PICK n \in Nat : n = Len(q)
  OBVIOUS
<1>2. PICK r : /\ r = <<Publish, Wait>> \o q /\ Len(r) = n + 2 /\ r[1] = Publish /\ r[2] = Wait
               /\ \A i \in 3 .. n + 2 : r[i] = q[i - 2]
  <2>1. Publish \in Item /\ Wait \in Item
    BY DEF Item
  <2>2. /\ Len(<<Publish, Wait>> \o q) = Len(q) + 2
        /\ (<<Publish, Wait>> \o q)[1] = Publish /\ (<<Publish, Wait>> \o q)[2] = Wait
        /\ \A i \in 3 .. Len(q) + 2 : (<<Publish, Wait>> \o q)[i] = q[i - 2]
    BY <2>1, PutLemma
  <2> QED BY <1>1, <2>2
<1>3. PICK k : k = [i \in 0 .. n + 2 |-> IF i < 2 THEN h[0] ELSE h[i - 2]]
  OBVIOUS
<1>4. /\ k \in [0 .. n + 2 -> States] /\ k[0] = h[0] /\ k[1] = h[0]
      /\ \A i \in 2 .. n + 2 : k[i] = h[i - 2]
  <2>1. \A i \in 2 .. n + 2 : i - 2 \in 0 .. n
    BY <1>1
  <2>2. h \in [0 .. n -> States]
    BY <1>1
  <2> QED BY <1>3, <2>1, <2>2
<1>5. k[2] = h[0] /\ k[n + 2] = h[n] /\ h[0] \in States
  BY <1>1, <1>4
<1>6. /\ \A s \in States : Effect(Publish, s) = s /\ Effect(Wait, s) = s
      /\ \A s : Renders(w, Publish, s) /\ Renders(w, Wait, s)
  <2>1. Publish \in Item /\ Wait \in Item
    BY DEF Item
  <2> QED BY <2>1, EntryLemma, EffectLemma DEF Renders
<1>7. \A i \in 1 .. n + 2 : k[i] = Effect(r[i], k[i - 1]) /\ Renders(w, r[i], k[i - 1])
  <2> SUFFICES ASSUME NEW i \in 1 .. n + 2
               PROVE  k[i] = Effect(r[i], k[i - 1]) /\ Renders(w, r[i], k[i - 1])
    OBVIOUS
  <2>1. CASE i = 1
    BY <1>2, <1>4, <1>5, <1>6, <2>1
  <2>2. CASE i = 2
    BY <1>2, <1>4, <1>5, <1>6, <2>2
  <2>3. CASE i \in 3 .. n + 2
    <3>1. i - 1 \in 2 .. n + 2 /\ i \in 2 .. n + 2 /\ i - 2 \in 1 .. n /\ (i - 1) - 2 = (i - 2) - 1
      BY <1>1, <2>3
    <3>2. k[i] = h[i - 2] /\ k[i - 1] = h[(i - 2) - 1] /\ r[i] = q[i - 2]
      <4>1. k[i - 1] = h[(i - 1) - 2]
        BY <1>4, <3>1
      <4> QED BY <1>2, <1>4, <2>3, <3>1, <4>1
    <3>3. h[i - 2] = Effect(q[i - 2], h[(i - 2) - 1]) /\ Renders(w, q[i - 2], h[(i - 2) - 1])
      BY <1>1, <3>1 DEF Follows
    <3> QED BY <3>2, <3>3
  <2> QED BY <2>1, <2>2, <2>3
<1>8. Follows(w, k, r)
  BY <1>2, <1>7 DEF Follows
<1> QED BY <1>1, <1>2, <1>4, <1>5, <1>8

LEMMA OneFollows ==
  ASSUME NEW w, NEW s \in States, NEW a \in Item, Renders(w, a, s)
  PROVE  \E g \in [0 .. Len(<<a>>) -> States] :
           g[0] = s /\ Follows(w, g, <<a>>) /\ g[Len(<<a>>)] = Effect(a, s)
<1>1. PICK h \in [0 .. Len(<<>>) -> States] :
         h[0] = s /\ Follows(w, h, <<>>) /\ h[Len(<<>>)] = s
  BY NoneFollow
<1>2. <<>> \in Seq(Item) /\ Append(<<>>, a) = <<a>>
  OBVIOUS
<1>3. \E k \in [0 .. Len(Append(<<>>, a)) -> States] :
           /\ k[0] = h[0] /\ Follows(w, k, Append(<<>>, a))
           /\ k[Len(Append(<<>>, a))] = Effect(a, h[Len(<<>>)])
  BY <1>1, <1>2, AppendFollows
<1> QED BY <1>1, <1>2, <1>3

LEMMA TwoFollow ==
  ASSUME NEW w, NEW s \in States, NEW a \in Item, NEW b \in Item,
         Renders(w, a, s), Renders(w, b, Effect(a, s))
  PROVE  \E g \in [0 .. Len(<<a, b>>) -> States] :
           g[0] = s /\ Follows(w, g, <<a, b>>) /\ g[Len(<<a, b>>)] = Effect(b, Effect(a, s))
<1>1. PICK h \in [0 .. Len(<<a>>) -> States] :
         h[0] = s /\ Follows(w, h, <<a>>) /\ h[Len(<<a>>)] = Effect(a, s)
  BY OneFollows
<1>2. <<a>> \in Seq(Item)
  BY OneLemma
<1>3. Append(<<a>>, b) = <<a, b>>
  BY <1>2, OneLemma, TwoLemma, AppendLemma, SameLemma
<1>4. \E k \in [0 .. Len(Append(<<a>>, b)) -> States] :
           /\ k[0] = h[0] /\ Follows(w, k, Append(<<a>>, b))
           /\ k[Len(Append(<<a>>, b))] = Effect(b, h[Len(<<a>>)])
  BY <1>1, <1>2, AppendFollows
<1> QED BY <1>1, <1>3, <1>4

LEMMA ThreeFollow ==
  ASSUME NEW w, NEW s \in States, NEW a \in Item, NEW b \in Item, NEW c \in Item,
         Renders(w, a, s), Renders(w, b, Effect(a, s)), Renders(w, c, Effect(b, Effect(a, s)))
  PROVE  \E g \in [0 .. Len(<<a, b, c>>) -> States] :
           /\ g[0] = s /\ Follows(w, g, <<a, b, c>>)
           /\ g[Len(<<a, b, c>>)] = Effect(c, Effect(b, Effect(a, s)))
<1>1. PICK g : g = [i \in 0 .. 3 |-> IF i = 0 THEN s ELSE IF i = 1 THEN Effect(a, s)
                                    ELSE IF i = 2 THEN Effect(b, Effect(a, s))
                                    ELSE Effect(c, Effect(b, Effect(a, s)))]
  OBVIOUS
<1>2. Effect(a, s) \in States
  BY EffectLemma
<1>3. Effect(b, Effect(a, s)) \in States
  BY <1>2, EffectLemma
<1>4. Effect(c, Effect(b, Effect(a, s))) \in States
  BY <1>3, EffectLemma
<1>5. /\ g \in [0 .. 3 -> States] /\ g[0] = s /\ g[1] = Effect(a, s)
      /\ g[2] = Effect(b, Effect(a, s)) /\ g[3] = Effect(c, Effect(b, Effect(a, s)))
  BY <1>1, <1>2, <1>3, <1>4
<1>6. PICK q : q = <<a, b, c>> /\ Len(q) = 3 /\ q[1] = a /\ q[2] = b /\ q[3] = c
  <2>1. /\ Len(<<a, b, c>>) = 3
        /\ <<a, b, c>>[1] = a /\ <<a, b, c>>[2] = b /\ <<a, b, c>>[3] = c
    OBVIOUS
  <2> QED BY <2>1
<1>7. \A i \in 1 .. 3 : i = 1 \/ i = 2 \/ i = 3
  OBVIOUS
<1>8. Follows(w, g, q)
  BY <1>5, <1>6, <1>7 DEF Follows
<1> QED BY <1>5, <1>6, <1>8

\* Lines may be asked for other things, but not those that are queued.
LEMMA StillFollows ==
  ASSUME NEW w, NEW v, NEW q, NEW h, Follows(w, h, q),
         \A i \in 1 .. Len(q) : \A s : Renders(w, q[i], s) => Renders(v, q[i], s)
  PROVE  Follows(v, h, q)
BY DEF Follows

-----------------------------------------------------------------------------
(* The emulating thread queues.                                             *)

\* Nothing is left to be queued, and the ring is as it was.
Queues(q) == todo = <<>> /\ todo' = q /\ RingAtRest /\ UNCHANGED sprites

LEMMA AskedItems == ASSUME Types PROVE Asked \subseteq Item
<1>1. pending \in Seq(Entry) /\ todo \in Seq(Item) /\ command \in Entry
  BY DEF Types, Item
<1>2. \A i \in 1 .. Len(pending) : pending[i] \in Entry
  BY <1>1
<1>3. \A i \in 1 .. Len(todo) : todo[i] \in Item
  BY <1>1
<1> QED BY <1>1, <1>2, <1>3 DEF Asked, Item

LEMMA AskedLemma ==
  ASSUME NEW q, Queues(q)
  PROVE  Asked' = Asked \cup {q[i] : i \in 1 .. Len(q)}
<1>1. {todo[i] : i \in 1 .. Len(todo)} = {}
  BY DEF Queues
<1> QED BY <1>1 DEF Queues, RingAtRest, ring, Asked

LEMMA QueueShown ==
  ASSUME Types, ShownInv, NEW q, Queues(q), UNCHANGED mem,
         \A e \in Asked : \A s : Renders(want, e, s) => Renders(want', e, s),
         \A s \in States : UpToDate(s) =>
           \E g \in [0 .. Len(q) -> States] :
             g[0] = s /\ Follows(want', g, q) /\ UpToDate(g[Len(q)])'
  PROVE  ShownInv'
<1>1. /\ todo = <<>> /\ todo' = q /\ UNCHANGED <<pending, rpc, command, sprites, mem>>
  BY DEF Queues, RingAtRest, ring
<1>2. PICK h \in [0 .. Len(pending) -> States], g \in [0 .. Len(todo) -> States] : Replay(h, g)
  BY DEF ShownInv
<1>3. UpToDate(h[Len(pending)]) /\ h[Len(pending)] \in States
  <2>1. pending \in Seq(Entry)
    BY DEF Types
  <2>2. Len(todo) = 0 /\ Len(pending) \in Nat
    BY <1>1, <2>1
  <2> QED BY <1>2, <2>2 DEF Replay
<1>4. PICK k \in [0 .. Len(q) -> States] :
         k[0] = h[Len(pending)] /\ Follows(want', k, q) /\ UpToDate(k[Len(q)])'
  BY <1>3
<1>5. Follows(want', h, pending)
  <2>1. \A i \in 1 .. Len(pending) : pending[i] \in Asked
    BY DEF Asked
  <2>2. \A i \in 1 .. Len(pending) : \A s : Renders(want, pending[i], s) => Renders(want', pending[i], s)
    BY <2>1
  <2> QED BY <1>2, <2>2, StillFollows DEF Replay
<1>6. Replay(h, k)'
  BY <1>1, <1>2, <1>4, <1>5 DEF Replay, Now
<1>7. (rpc = "execute" => Renders(want, command, Shown(mem, sprites)))'
  <2>1. rpc = "execute" => command \in Asked
    BY DEF Asked
  <2> QED BY <1>1, <2>1 DEF ShownInv
<1> QED BY <1>1, <1>2, <1>4, <1>6, <1>7 DEF ShownInv

\* No line is among what is queued, and what is shown stays as it is.
LEMMA QueueNoLine ==
  ASSUME IInv, NEW q \in Seq(Item), Queues(q), UNCHANGED <<mem, want>>,
         \A i \in 1 .. Len(q) : q[i].Command # "RENDER_LINE",
         \A s \in States : UpToDate(s) =>
           \E g \in [0 .. Len(q) -> States] :
             g[0] = s /\ Follows(want, g, q) /\ UpToDate(g[Len(q)])'
  PROVE  ShownInv' /\ OnceInv'
<1>1. ShownInv'
  BY QueueShown DEF IInv
<1>2. OnceInv'
  <2>1. todo' = q /\ UNCHANGED <<pending, rpc, command>>
    BY DEF Queues, RingAtRest, ring
  <2> QED BY <2>1 DEF OnceInv, IInv, Apart
<1> QED BY <1>1, <1>2

LEMMA InitLemma == Init => IInv
<1> SUFFICES ASSUME Init PROVE IInv
  OBVIOUS
<1>1. /\ WQ = [i \in Positions |-> EXIT] /\ 0 \in Positions /\ EXIT \in Entry /\ 0 \in Values
      /\ SpecExSS = <<0, 0>> /\ 0 \in 0 .. VBlankLine
  BY EntryLemma DEF Init
<1>2. Types
  <2>1. /\ SpecEx \in BOOLEAN /\ FrameBeginVBlank \in BOOLEAN
        /\ WQ \in [Positions -> Entry] /\ command \in Entry
        /\ WritePos \in Positions /\ ReadPos \in Positions /\ TMP_WritePos \in Positions
        /\ TMP_ReadPos \in Positions /\ RWritePos \in Positions /\ RReadPos \in Positions
    BY <1>1 DEF Init
  <2>2. /\ want \in [Lines -> SUBSET [mem : Values, sprites : Values]]
        /\ picture \in [Lines -> {NotDrawn, AsAsked, Otherwise}]
    BY DEF Init
  <2>3. todo \in Seq(Entry \cup {Publish, Wait}) /\ pending \in Seq(Entry)
    BY DEF Init
  <2>4. /\ rpc \in {"publish", "poll", "take", "execute", "done"}
        /\ mem \in Values /\ sprites \in Values
        /\ PPU \in Values /\ scanline \in 0 .. VBlankLine /\ LinePhase \in {0, 1, 3}
        /\ SkipFrame \in BOOLEAN /\ skip \in BOOLEAN /\ fetched \in Values \cup {None}
        /\ mpc \in {"idle", "ahead", "ahead over", "frame", "over", "synced", "kill", "gone"}
    BY <1>1 DEF Init
  <2>5. SpecExSS \in Values \X (0 .. VBlankLine)
    BY <1>1
  <2> QED BY <2>1, <2>2, <2>3, <2>4, <2>5 DEF Types
<1>3. OrderInv /\ PendingInv
  BY <1>1 DEF Init, OrderInv, PendingInv, Dist, Gap
<1>4. Asked = {} /\ Len(pending) = 0 /\ Len(todo) = 0 /\ pending = <<>> /\ todo = <<>> /\ rpc = "publish"
  BY DEF Init, Asked
<1>5. RestInv /\ FrameInv /\ DrawInv /\ PictureInv
  BY <1>1, <1>4 DEF Init, RestInv, Rest, Resting, FrameInv, Shows, DrawInv, PictureInv, FrameEndsAt
<1>6. OnceInv
  BY <1>4 DEF OnceInv
<1>7. ShownInv
  <2>1. PICK h : h = [i \in 0 .. 0 |-> Shown(0, 0)]
    OBVIOUS
  <2>2. Shown(0, 0) \in States
    BY <1>1 DEF Shown, States
  <2>3. h \in [0 .. 0 -> States] /\ h[0] = Shown(0, 0)
    BY <2>1, <2>2
  <2>4. Replay(h, h)
    BY <1>4, <2>3 DEF Init, Replay, Follows, UpToDate, Now, Shown
  <2> QED BY <1>4, <2>3, <2>4 DEF ShownInv
<1> QED BY <1>2, <1>3, <1>5, <1>6, <1>7 DEF IInv

LEMMA OneItem ==
  ASSUME NEW a \in Item
  PROVE  \E q \in Seq(Item) : q = <<a>> /\ Len(q) = 1 /\ q[1] = a
BY OneLemma

LEMMA TwoItems ==
  ASSUME NEW a \in Item, NEW b \in Item
  PROVE  \E q \in Seq(Item) : q = <<a, b>> /\ Len(q) = 2 /\ q[1] = a /\ q[2] = b
<1>1. /\ <<a, b>> \in Seq(Item) /\ Len(<<a, b>>) = 2
      /\ <<a, b>>[1] = a /\ <<a, b>>[2] = b
  BY TwoLemma
<1> QED BY <1>1

LEMMA ThreeItems ==
  ASSUME NEW a \in Item, NEW b \in Item, NEW c \in Item
  PROVE  \E q \in Seq(Item) :
           q = <<a, b, c>> /\ Len(q) = 3 /\ q[1] = a /\ q[2] = b /\ q[3] = c
<1>1. /\ <<a, b, c>> \in Seq(Item) /\ Len(<<a, b, c>>) = 3
      /\ <<a, b, c>>[1] = a /\ <<a, b, c>>[2] = b /\ <<a, b, c>>[3] = c
  BY ThreeLemma
<1> QED BY <1>1

\* The ring, and what is asked of the render thread, when no line is asked for.
LEMMA QueueLemma ==
  ASSUME IInv, NEW q \in Seq(Item), Queues(q), UNCHANGED <<mem, want>>,
         \A i \in 1 .. Len(q) : q[i].Command # "RENDER_LINE",
         \A s \in States : UpToDate(s) =>
           \E g \in [0 .. Len(q) -> States] :
             g[0] = s /\ Follows(want, g, q) /\ UpToDate(g[Len(q)])'
  PROVE  /\ OrderInv' /\ PendingInv' /\ OnceInv' /\ ShownInv'
         /\ Asked' = Asked \cup {q[i] : i \in 1 .. Len(q)}
         /\ \A l \in Lines : (RENDER_LINE(l) \in Asked') = (RENDER_LINE(l) \in Asked)
<1>1. OrderInv' /\ PendingInv'
  BY RingAtRestLemma DEF IInv, Queues
<1>2. OnceInv' /\ ShownInv'
  BY QueueNoLine
<1>3. Asked' = Asked \cup {q[i] : i \in 1 .. Len(q)}
  BY AskedLemma
<1>4. \A l \in Lines : RENDER_LINE(l).Command = "RENDER_LINE"
  BY EntryLemma
<1> QED BY <1>1, <1>2, <1>3, <1>4

LEMMA WriteLemma == ASSUME IInv, NEW v \in Values, PPU_Write(v) PROVE IInv'
<1>1. PICK e \in Item : e = Write(v) /\ e.Command = "WRITE" /\ e.v = v
  BY EntryLemma DEF Item
<1>2. PICK q \in Seq(Item) : q = <<e>> /\ Len(q) = 1 /\ q[1] = e
  BY OneItem
<1>3. /\ Queues(q) /\ mpc \in {"ahead", "frame"} /\ PPU' = v
      /\ UNCHANGED <<SpecEx, FrameBeginVBlank, WQ, WritePos, ReadPos, TMP_WritePos, TMP_ReadPos>>
      /\ UNCHANGED <<RWritePos, RReadPos, rpc, command, mem, sprites, pending>>
      /\ UNCHANGED <<es, scanline, LinePhase, SkipFrame, skip, SpecExSS, mpc, fetched, want, picture>>
  BY <1>1, <1>2 DEF PPU_Write, Emulating, MTIF_Write, Queues, RingAtRest, settings, ring
<1>4. \A s \in States : UpToDate(s) =>
        \E g \in [0 .. Len(q) -> States] :
          g[0] = s /\ Follows(want, g, q) /\ UpToDate(g[Len(q)])'
  <2> SUFFICES ASSUME NEW s \in States, UpToDate(s)
               PROVE  \E g \in [0 .. Len(q) -> States] :
                        g[0] = s /\ Follows(want, g, q) /\ UpToDate(g[Len(q)])'
    OBVIOUS
  <2>1. Renders(want, e, s)
    BY <1>1 DEF Renders
  <2>2. PICK g \in [0 .. Len(q) -> States] :
          g[0] = s /\ Follows(want, g, q) /\ g[Len(q)] = Effect(e, s)
    BY <1>2, <2>1, OneFollows
  <2>3. Effect(e, s).mem = v /\ Effect(e, s).sprites = s.sprites
    BY <1>1, EffectLemma
  <2>4. UpToDate(g[Len(q)])'
    BY <1>3, <2>2, <2>3 DEF UpToDate
  <2> QED BY <2>2, <2>4
<1>5. /\ OrderInv' /\ PendingInv' /\ OnceInv' /\ ShownInv' /\ Asked' = Asked \cup {e}
      /\ \A l \in Lines : (RENDER_LINE(l) \in Asked') = (RENDER_LINE(l) \in Asked)
  <2>1. \A i \in 1 .. Len(q) : q[i].Command # "RENDER_LINE"
    BY <1>1, <1>2
  <2>2. {q[i] : i \in 1 .. Len(q)} = {e}
    BY <1>2
  <2> QED BY <1>3, <1>4, <2>1, <2>2, QueueLemma
<1>6. Types'
  <2>1. todo' \in Seq(Entry \cup {Publish, Wait})
    BY <1>3 DEF Queues, Item
  <2> QED BY <1>3, <2>1 DEF IInv, Types
<1>7. e # EXIT /\ ~ Draws(e)
  BY <1>1, EntryLemma DEF Draws
<1>8. RestInv'
  BY <1>3, <1>5, <1>7 DEF IInv, RestInv, Resting, Rest
<1>9. FrameInv' /\ UNCHANGED FrameEndsAt
  BY <1>3 DEF IInv, FrameInv, Shows, FrameEndsAt
<1>10. \A l : Reached(l)' = Reached(l)
  BY <1>3 DEF Reached
<1>11. DrawInv'
  BY <1>1, <1>3, <1>5, <1>7, <1>10 DEF IInv, DrawInv
<1>12. PictureInv'
  BY <1>3, <1>5, <1>10 DEF IInv, PictureInv
<1> QED BY <1>5, <1>6, <1>8, <1>9, <1>11, <1>12 DEF IInv

LEMMA HBlankLemma == ASSUME IInv, HBlank PROVE IInv'
<1> PICK e \in Item : e = FETCH_SPRITE_DATA /\ e.Command = "FETCH_SPRITE_DATA"
  BY EntryLemma DEF Item
<1>1. PICK q \in Seq(Item) :
        /\ Queues(q) /\ mpc \in {"ahead", "frame"} /\ LinePhase = 1 /\ LinePhase' = 3
        /\ \/ q = <<>> /\ Len(q) = 0 /\ (fetched' = fetched \/ fetched' = None)
           \/ q = <<e>> /\ Len(q) = 1 /\ q[1] = e /\ fetched' = PPU
  <2>1. <<>> \in Seq(Item) /\ Len(<<>>) = 0
    OBVIOUS
  <2>2. PICK p \in Seq(Item) : p = <<e>> /\ Len(p) = 1 /\ p[1] = e
    BY OneItem
  <2>3. /\ todo = <<>> /\ RingAtRest /\ UNCHANGED sprites /\ mpc \in {"ahead", "frame"}
        /\ LinePhase = 1 /\ LinePhase' = 3
    BY DEF HBlank, Emulating, RingAtRest, ring, renderer
  <2>4. \/ todo' = <<>> /\ (fetched' = fetched \/ fetched' = None)
        \/ todo' = p /\ fetched' = PPU
    BY <2>2, <2>3 DEF HBlank
  <2> QED BY <2>1, <2>2, <2>3, <2>4 DEF Queues
<1>2. /\ UNCHANGED <<SpecEx, FrameBeginVBlank, WQ, WritePos, ReadPos, TMP_WritePos, TMP_ReadPos>>
      /\ UNCHANGED <<RWritePos, RReadPos, rpc, command, mem, sprites, pending>>
      /\ UNCHANGED <<PPU, es, scanline, SkipFrame, skip, SpecExSS, mpc, want, picture>>
  BY DEF HBlank, settings, ring, renderer
<1>3. \A s \in States : UpToDate(s) =>
        \E g \in [0 .. Len(q) -> States] :
          g[0] = s /\ Follows(want, g, q) /\ UpToDate(g[Len(q)])'
  <2> SUFFICES ASSUME NEW s \in States, UpToDate(s)
               PROVE  \E g \in [0 .. Len(q) -> States] :
                        g[0] = s /\ Follows(want, g, q) /\ UpToDate(g[Len(q)])'
    OBVIOUS
  <2>1. CASE q = <<>> /\ (fetched' = fetched \/ fetched' = None)
    <3>1. PICK g \in [0 .. Len(q) -> States] : g[0] = s /\ Follows(want, g, q) /\ g[Len(q)] = s
      BY <2>1, NoneFollow
    <3>2. UpToDate(g[Len(q)])'
      BY <1>2, <2>1, <3>1 DEF UpToDate
    <3> QED BY <3>1, <3>2
  <2>2. CASE q = <<e>> /\ fetched' = PPU
    <3>1. Renders(want, e, s)
      BY DEF Renders
    <3>2. PICK g \in [0 .. Len(q) -> States] :
            g[0] = s /\ Follows(want, g, q) /\ g[Len(q)] = Effect(e, s)
      BY <2>2, <3>1, OneFollows
    <3>3. Effect(e, s) = Shown(s.mem, s.mem)
      BY EffectLemma
    <3>4. UpToDate(g[Len(q)])'
      BY <1>2, <2>2, <3>2, <3>3 DEF UpToDate, Shown
    <3> QED BY <3>2, <3>4
  <2> QED BY <1>1, <2>1, <2>2
<1>4. /\ OrderInv' /\ PendingInv' /\ OnceInv' /\ ShownInv'
      /\ Asked' = Asked \cup {q[i] : i \in 1 .. Len(q)}
      /\ \A l \in Lines : (RENDER_LINE(l) \in Asked') = (RENDER_LINE(l) \in Asked)
  <2>1. \A i \in 1 .. Len(q) : q[i].Command # "RENDER_LINE"
    BY <1>1
  <2> QED BY <1>1, <1>2, <1>3, <2>1, QueueLemma
<1>5. Asked' = Asked \/ Asked' = Asked \cup {e}
  BY <1>1, <1>4
<1>6. Types'
  <2>1. todo' \in Seq(Entry \cup {Publish, Wait})
    BY <1>1 DEF Queues, Item
  <2>2. fetched' \in Values \cup {None} /\ LinePhase' \in {0, 1, 3}
    BY <1>1 DEF IInv, Types
  <2> QED BY <1>2, <2>1, <2>2 DEF IInv, Types
<1>7. e # EXIT /\ ~ Draws(e)
  BY EntryLemma DEF Draws
<1>8. RestInv'
  BY <1>1, <1>2, <1>5, <1>7 DEF IInv, RestInv, Resting, Rest
<1>9. FrameInv'
  BY <1>1, <1>2 DEF IInv, FrameInv, Shows, FrameEndsAt
<1>10. \A l : Reached(l)' = Reached(l)
  BY <1>1, <1>2 DEF Reached
<1>11. DrawInv'
  BY <1>1, <1>2, <1>5, <1>7, <1>10 DEF IInv, DrawInv
<1>12. PictureInv'
  BY <1>2, <1>4, <1>10 DEF IInv, PictureInv
<1> QED BY <1>4, <1>6, <1>8, <1>9, <1>11, <1>12 DEF IInv

\* A frame ends when all its lines were come to.
LEMMA BeginLineLemma == ASSUME IInv, BeginLine PROVE IInv'
<1>0. PICK t, f, p : t = ENTER_VBLANK(TRUE) /\ f = ENTER_VBLANK(FALSE) /\ p = Publish
  OBVIOUS
<1>1. /\ t.Command = "ENTER_VBLANK" /\ f.Command = "ENTER_VBLANK" /\ p.Command = "publish"
      /\ t \in Item /\ f \in Item /\ p \in Item
  BY <1>0, EntryLemma DEF Item
<1>2. /\ mpc \in {"ahead", "frame"} /\ LinePhase = 3 /\ LinePhase' = 0 /\ scanline' \in 0 .. VBlankLine
      /\ scanline' = IF scanline = VBlankLine THEN 0 ELSE scanline + 1
      /\ mpc' = IF scanline' = FrameEndsAt THEN (IF mpc = "ahead" THEN "ahead over" ELSE "over")
                ELSE mpc
      /\ UNCHANGED <<SpecEx, FrameBeginVBlank, WQ, WritePos, ReadPos, TMP_WritePos, TMP_ReadPos>>
      /\ UNCHANGED <<RWritePos, RReadPos, rpc, command, mem, sprites, pending>>
      /\ UNCHANGED <<PPU, es, SkipFrame, skip, SpecExSS, want, picture, fetched>>
  <2>1. /\ mpc \in {"ahead", "frame"} /\ LinePhase = 3 /\ LinePhase' = 0
        /\ scanline' = (scanline + 1) % (VBlankLine + 1)
        /\ mpc' = IF scanline' = FrameEndsAt THEN (IF mpc = "ahead" THEN "ahead over" ELSE "over")
                  ELSE mpc
        /\ UNCHANGED <<SpecEx, FrameBeginVBlank, WQ, WritePos, ReadPos, TMP_WritePos, TMP_ReadPos>>
        /\ UNCHANGED <<RWritePos, RReadPos, rpc, command, mem, sprites, pending>>
        /\ UNCHANGED <<PPU, es, SkipFrame, skip, SpecExSS, want, picture, fetched>>
    BY DEF BeginLine, Emulating, settings, ring, renderer
  <2>2. scanline \in 0 .. VBlankLine
    BY DEF IInv, Types
  <2>3. (scanline + 1) % (VBlankLine + 1) = IF scanline = VBlankLine THEN 0 ELSE scanline + 1
    BY <2>2
  <2>4. scanline' = IF scanline = VBlankLine THEN 0 ELSE scanline + 1
    BY <2>1, <2>3
  <2>5. scanline' \in 0 .. VBlankLine
    BY <2>2, <2>4
  <2> QED BY <2>1, <2>4, <2>5
<1>3. PICK q \in Seq(Item) :
        /\ Queues(q)
        /\ \/ q = <<>> /\ Len(q) = 0
           \/ q = <<t, p>> /\ Len(q) = 2 /\ q[1] = t /\ q[2] = p
           \/ q = <<f>> /\ Len(q) = 1 /\ q[1] = f /\ ~ SkipFrame /\ scanline' = VBlankLine
  <2>1. <<>> \in Seq(Item) /\ Len(<<>>) = 0
    OBVIOUS
  <2>2. PICK r \in Seq(Item) : r = <<f>> /\ Len(r) = 1 /\ r[1] = f
    BY <1>1, OneItem
  <2>3. PICK s \in Seq(Item) : s = <<t, p>> /\ Len(s) = 2 /\ s[1] = t /\ s[2] = p
    BY <1>1, TwoItems
  <2>4. todo = <<>> /\ RingAtRest /\ UNCHANGED sprites
    BY DEF BeginLine, Emulating, RingAtRest, ring, renderer
  <2>5. todo' = <<>> \/ todo' = s \/ (todo' = r /\ ~ SkipFrame /\ scanline' = VBlankLine)
    BY <1>0, <2>2, <2>3 DEF BeginLine
  <2> QED BY <2>1, <2>2, <2>3, <2>4, <2>5 DEF Queues
<1>4. \A s \in States : UpToDate(s) =>
        \E g \in [0 .. Len(q) -> States] :
          g[0] = s /\ Follows(want, g, q) /\ UpToDate(g[Len(q)])'
  <2> SUFFICES ASSUME NEW s \in States, UpToDate(s)
               PROVE  \E g \in [0 .. Len(q) -> States] :
                        g[0] = s /\ Follows(want, g, q) /\ UpToDate(g[Len(q)])'
    OBVIOUS
  <2>1. UpToDate(s)'
    BY <1>2 DEF UpToDate
  <2>2. Effect(t, s) = s /\ Effect(f, s) = s /\ Effect(p, s) = s
    BY <1>1, EffectLemma
  <2>3. Renders(want, t, s) /\ Renders(want, f, s) /\ Renders(want, p, s)
    BY <1>1 DEF Renders
  <2>4. \E g \in [0 .. Len(q) -> States] : g[0] = s /\ Follows(want, g, q) /\ g[Len(q)] = s
    <3>1. CASE q = <<>>
      BY <3>1, NoneFollow
    <3>2. CASE q = <<t, p>>
      <4>1. Renders(want, p, Effect(t, s)) /\ Effect(p, Effect(t, s)) = s
        BY <2>2, <2>3
      <4>2. PICK g \in [0 .. Len(<<t, p>>) -> States] :
              /\ g[0] = s /\ Follows(want, g, <<t, p>>)
              /\ g[Len(<<t, p>>)] = Effect(p, Effect(t, s))
        BY <1>1, <2>3, <4>1, TwoFollow
      <4> QED BY <3>2, <4>1, <4>2
    <3>3. CASE q = <<f>>
      <4>1. PICK g \in [0 .. Len(<<f>>) -> States] :
              g[0] = s /\ Follows(want, g, <<f>>) /\ g[Len(<<f>>)] = Effect(f, s)
        BY <1>1, <2>3, OneFollows
      <4> QED BY <2>2, <3>3, <4>1
    <3> QED BY <1>3, <3>1, <3>2, <3>3
  <2> QED BY <2>1, <2>4
<1>5. /\ OrderInv' /\ PendingInv' /\ OnceInv' /\ ShownInv'
      /\ Asked' = Asked \cup {q[i] : i \in 1 .. Len(q)}
      /\ \A l \in Lines : (RENDER_LINE(l) \in Asked') = (RENDER_LINE(l) \in Asked)
  <2>1. \A i \in 1 .. Len(q) : q[i] \in {t, p, f}
    BY <1>3
  <2>2. \A i \in 1 .. Len(q) : q[i].Command # "RENDER_LINE"
    BY <1>1, <2>1
  <2>3. Queues(q)
    BY <1>3
  <2> QED BY <1>2, <1>4, <2>2, <2>3, QueueLemma
<1>6. \/ \A e \in Asked' : e \in Asked \/ e = t \/ e = p
      \/ (\A e \in Asked' : e \in Asked \/ e = f) /\ ~ SkipFrame /\ scanline' = VBlankLine
  <2>1. CASE Len(q) = 0
    BY <1>5, <2>1
  <2>2. CASE Len(q) = 2 /\ q[1] = t /\ q[2] = p
    BY <1>5, <2>2
  <2>3. CASE Len(q) = 1 /\ q[1] = f /\ ~ SkipFrame /\ scanline' = VBlankLine
    BY <1>5, <2>3
  <2> QED BY <1>3, <2>1, <2>2, <2>3
<1>7. Types'
  <2>1. todo' \in Seq(Entry \cup {Publish, Wait})
    BY <1>3 DEF Queues, Item
  <2>2. mpc' \in {"ahead", "ahead over", "frame", "over"} /\ LinePhase' \in {0, 1, 3}
    BY <1>2
  <2> QED BY <1>2, <2>1, <2>2 DEF IInv, Types
<1>8. t # EXIT /\ f # EXIT /\ p # EXIT /\ ~ Draws(t) /\ ~ Draws(p)
  <2>1. t.skip /\ ~ f.skip
    BY <1>0, EntryLemma
  <2>2. t # EXIT /\ f # EXIT /\ p # EXIT
    BY <1>1, EntryLemma
  <2>3. ENTER_VBLANK(FALSE) = f
    BY <1>0
  <2> QED BY <1>1, <2>1, <2>2, <2>3 DEF Draws
<1>9. scanline \in 0 .. VBlankLine /\ FrameBeginVBlank \in BOOLEAN
  BY DEF IInv, Types
<1>10. RestInv'
  BY <1>2, <1>6, <1>8 DEF IInv, RestInv, Resting, Rest
<1>10a. /\ scanline \in 0 .. VBlankLine
        /\ scanline' = IF scanline = VBlankLine THEN 0 ELSE scanline + 1
  BY <1>2, <1>9
<1>10b. mpc \in {"ahead", "frame"} /\ LinePhase # 0 /\ UNCHANGED <<SkipFrame, skip>>
  <2>1. LinePhase = 3
    BY <1>2
  <2>2. LinePhase # 0
    BY <2>1
  <2>3. mpc \in {"ahead", "frame"}
    BY <1>2
  <2>4. UNCHANGED <<SkipFrame, skip>>
    BY <1>2
  <2> QED BY <2>2, <2>3, <2>4
<1>11. FrameInv' /\ UNCHANGED FrameEndsAt
  <2>1. UNCHANGED FrameEndsAt
    BY <1>2 DEF FrameEndsAt
  <2>2. SpecExSS'[2] \in {0, FrameEndsAt'}
    BY <1>2, <2>1 DEF IInv, FrameInv
  <2>3. mpc' \in {"idle", "ahead over", "over", "synced"}
          => LinePhase' = 0 /\ scanline' \in {0, FrameEndsAt'}
    BY <1>2, <2>1
  <2>4. (mpc' = "ahead" => skip') /\ (mpc' \in Shows => es' = "espec")
    BY <1>2 DEF IInv, FrameInv, Shows
  <2>5. mpc' \in {"ahead", "frame"} /\ scanline' \in Lines /\ scanline' > 1 => SkipFrame' = skip'
    <3>1. scanline' \in Lines /\ scanline' > 1 => scanline \in Lines
      BY <1>10a
    <3>2. mpc \in {"ahead", "frame"} /\ LinePhase # 0 /\ UNCHANGED <<SkipFrame, skip>>
      BY <1>10b
    <3>3. mpc \in {"ahead", "frame"} /\ scanline \in Lines /\ LinePhase # 0 => SkipFrame = skip
      BY DEF IInv, FrameInv
    <3> QED BY <3>1, <3>2, <3>3
  <2> QED BY <1>2, <2>1, <2>2, <2>3, <2>4, <2>5 DEF FrameInv
\* A frame that is run ahead is skipped, so it does not draw.
<1>12. scanline' = VBlankLine /\ ~ SkipFrame => mpc # "ahead"
  <2>1. scanline' = VBlankLine => scanline \in Lines
    BY <1>10a
  <2>2. mpc = "ahead" => skip
    BY DEF IInv, FrameInv
  <2>3. mpc \in {"ahead", "frame"} /\ scanline \in Lines /\ LinePhase # 0 => SkipFrame = skip
    BY DEF IInv, FrameInv
  <2> QED BY <1>10b, <2>1, <2>2, <2>3
<1>13. mpc' \in Shows <=> mpc \in Shows
  BY <1>2 DEF Shows
<1>14. mpc' = "frame" => mpc = "frame" /\ \A l \in Lines : Reached(l) => Reached(l)'
  BY <1>2, <1>9 DEF Reached, FrameEndsAt
<1>15. DrawInv'
  <2>1. \A e \in Asked : Draws(e) => mpc' \in Shows
    BY <1>13 DEF IInv, DrawInv
  <2>2. \A e \in Asked : e.Command = "RENDER_LINE" /\ mpc' = "frame" => Reached(e.line)'
    <3> SUFFICES ASSUME NEW e \in Asked, e.Command = "RENDER_LINE", mpc' = "frame"
                 PROVE  Reached(e.line)'
      OBVIOUS
    <3>1. e.line \in Lines
      BY AskedItems, CommandLemma DEF IInv
    <3> QED BY <1>14, <3>1 DEF IInv, DrawInv
  <2>3. ~ SkipFrame /\ scanline' = VBlankLine => mpc' \in Shows
    BY <1>2, <1>12, <1>13 DEF Shows
  <2> QED BY <1>1, <1>6, <1>8, <2>1, <2>2, <2>3 DEF DrawInv
<1>16. PictureInv'
  <2>1. mpc = "frame" /\ mpc' # "frame" => \A l \in Lines : Reached(l)
    BY <1>2, <1>9 DEF Reached, FrameEndsAt
  <2>2. \A l \in Lines : mpc = "frame" /\ mpc' = "frame" /\ ~ Reached(l) => ~ Reached(l)'
    BY <1>2, <1>9 DEF Reached, FrameEndsAt
  <2> QED BY <1>2, <1>5, <1>13, <2>1, <2>2 DEF IInv, PictureInv
<1> QED BY <1>5, <1>7, <1>10, <1>11, <1>15, <1>16 DEF IInv

LEMMA ThenTwo ==
  ASSUME NEW a \in Item, NEW b \in Item, NEW c \in Item
  PROVE  <<a>> \o <<b, c>> = <<a, b, c>>
<1>1. PICK s \in Seq(Item) : s = <<a>> /\ Len(s) = 1 /\ s[1] = a
  BY OneItem
<1>2. PICK t \in Seq(Item) : t = <<b, c>> /\ Len(t) = 2 /\ t[1] = b /\ t[2] = c
  BY TwoItems
<1>3. PICK r \in Seq(Item) : r = <<a, b, c>> /\ Len(r) = 3 /\ r[1] = a /\ r[2] = b /\ r[3] = c
  BY ThreeItems
<1>4. /\ s \o t \in Seq(Item) /\ Len(s \o t) = Len(s) + Len(t)
      /\ \A i \in 1 .. Len(s) + Len(t) : (s \o t)[i] = IF i <= Len(s) THEN s[i] ELSE t[i - Len(s)]
  OBVIOUS
<1>5. PICK u : u = s \o t
  OBVIOUS
<1>6. u \in Seq(Item) /\ Len(u) = 3 /\ u[1] = a /\ u[2] = b /\ u[3] = c
  BY <1>1, <1>2, <1>4, <1>5
<1>7. \A i \in 1 .. 3 : i = 1 \/ i = 2 \/ i = 3
  OBVIOUS
<1>8. \A i \in 1 .. Len(u) : u[i] = r[i]
  BY <1>3, <1>6, <1>7
<1>9. u = r
  BY <1>3, <1>6, <1>8, SameLemma
<1> QED BY <1>1, <1>2, <1>3, <1>5, <1>9

\* A line is asked for once in a frame, when it is come to.
LEMMA RenderLemma == ASSUME IInv, RenderPhase PROVE IInv'
<1>1. PICK d, r, p : d = RENDER_LINE(scanline) /\ r = RESET_LINE_TARGET /\ p = Publish
  OBVIOUS
<1>2. PICK drawn \in BOOLEAN : drawn = (scanline \in Lines /\ ~ SkipFrame')
  OBVIOUS
<1>3. /\ r \in Item /\ r.Command = "RESET_LINE_TARGET"
      /\ p \in Item /\ p.Command = "publish"
      /\ drawn => d \in Item /\ d.Command = "RENDER_LINE" /\ d.line = scanline
  BY <1>1, <1>2, EntryLemma DEF Item
<1>4. /\ UNCHANGED <<SpecEx, FrameBeginVBlank, WQ, WritePos, ReadPos, TMP_WritePos, TMP_ReadPos>>
      /\ UNCHANGED <<RWritePos, RReadPos, rpc, command, mem, sprites, pending>>
      /\ UNCHANGED <<PPU, es, scanline, skip, SpecExSS, mpc, picture, fetched>>
  BY DEF RenderPhase, settings, ring, renderer
<1>5. /\ mpc \in {"ahead", "frame"} /\ LinePhase = 0 /\ LinePhase' = 1
      /\ SkipFrame' = (IF scanline = 1 THEN skip ELSE SkipFrame)
  BY DEF RenderPhase, Emulating
<1>6. scanline \in 0 .. VBlankLine /\ skip \in BOOLEAN /\ SkipFrame \in BOOLEAN
  BY DEF IInv, Types
<1>7. scanline \in Lines => SkipFrame' = skip
  <2>1. scanline \in Lines /\ scanline # 1 => scanline > 1
    BY <1>6
  <2>2. mpc \in {"ahead", "frame"}
    BY <1>5
  <2>3. scanline \in Lines /\ scanline > 1 => SkipFrame = skip
    BY <2>2 DEF IInv, FrameInv
  <2> QED BY <1>5, <2>1, <2>3
<1>8. drawn => mpc = "frame" /\ ~ skip
  <2>1. mpc = "ahead" => skip
    BY DEF IInv, FrameInv
  <2> QED BY <1>2, <1>5, <1>7, <2>1
<1>9. PICK q \in Seq(Item) :
        /\ Queues(q)
        /\ \/ q = <<>> /\ Len(q) = 0 /\ ~ drawn
           \/ q = <<d, p>> /\ Len(q) = 2 /\ q[1] = d /\ q[2] = p /\ drawn
           \/ q = <<r, d, p>> /\ Len(q) = 3 /\ q[1] = r /\ q[2] = d /\ q[3] = p /\ drawn
  <2>1. todo = <<>> /\ RingAtRest /\ UNCHANGED sprites
    BY DEF RenderPhase, Emulating, RingAtRest, ring, renderer
  <2>2. todo' = (IF scanline = 1 /\ drawn THEN <<r>> ELSE <<>>)
                \o (IF drawn THEN <<d, p>> ELSE <<>>)
    BY <1>1, <1>2 DEF RenderPhase
  <2>3. CASE ~ drawn
    <3>1. <<>> \in Seq(Item) /\ Len(<<>>) = 0 /\ <<>> \o <<>> = <<>>
      OBVIOUS
    <3>2. todo' = <<>> \o <<>>
      BY <2>2, <2>3
    <3> QED BY <2>1, <2>3, <3>1, <3>2 DEF Queues
  <2>4. CASE drawn /\ scanline = 1
    <3>1. PICK s \in Seq(Item) : s = <<r, d, p>> /\ Len(s) = 3 /\ s[1] = r /\ s[2] = d /\ s[3] = p
      BY <1>3, <2>4, ThreeItems
    <3>2. todo' = <<r>> \o <<d, p>>
      BY <2>2, <2>4
    <3>3. todo' = s
      BY <1>3, <2>4, <3>1, <3>2, ThenTwo
    <3> QED BY <2>1, <2>4, <3>1, <3>3 DEF Queues
  <2>5. CASE drawn /\ scanline # 1
    <3>1. PICK s \in Seq(Item) : s = <<d, p>> /\ Len(s) = 2 /\ s[1] = d /\ s[2] = p
      BY <1>3, <2>5, TwoItems
    <3>2. todo' = <<>> \o <<d, p>>
      BY <2>2, <2>5
    <3>3. todo' = s
      BY <3>1, <3>2
    <3> QED BY <2>1, <2>5, <3>1, <3>3 DEF Queues
  <2> QED BY <2>3, <2>4, <2>5
<1>10. \A e \in Asked' : e \in Asked \/ e = p \/ (drawn /\ (e = d \/ e = r))
  <2>1. Asked' = Asked \cup {q[i] : i \in 1 .. Len(q)}
    BY <1>9, AskedLemma
  <2>2. \A i \in 1 .. Len(q) : q[i] = p \/ (drawn /\ (q[i] = d \/ q[i] = r))
    <3>1. CASE Len(q) = 0
      BY <3>1
    <3>2. CASE Len(q) = 2 /\ q[1] = d /\ q[2] = p /\ drawn
      BY <3>2
    <3>3. CASE Len(q) = 3 /\ q[1] = r /\ q[2] = d /\ q[3] = p /\ drawn
      BY <3>3
    <3> QED BY <1>9, <3>1, <3>2, <3>3
  <2> QED BY <2>1, <2>2
<1>11. Asked \subseteq Asked' /\ (drawn => d \in Asked')
  <2>1. Asked' = Asked \cup {q[i] : i \in 1 .. Len(q)}
    BY <1>9, AskedLemma
  <2>2. drawn => d \in {q[i] : i \in 1 .. Len(q)}
    BY <1>9
  <2> QED BY <2>1, <2>2
\* The lines queued are those before.
<1>12. drawn => \A e \in Asked : e.Command = "RENDER_LINE" => e.line # scanline
  <2> SUFFICES ASSUME drawn, NEW e \in Asked, e.Command = "RENDER_LINE" PROVE e.line # scanline
    OBVIOUS
  <2>1. Reached(e.line)
    BY <1>8 DEF IInv, DrawInv
  <2> QED BY <1>5, <1>6, <2>1 DEF Reached
<1>13. /\ drawn => want' = [want EXCEPT ![scanline] =
                             {Shown(PPU, s) : s \in IF fetched = None THEN Values ELSE {fetched}}]
       /\ ~ drawn => want' = want
  BY <1>2, <1>4 DEF RenderPhase
<1>14. PPU \in Values /\ fetched \in Values \cup {None}
       /\ want \in [Lines -> SUBSET [mem : Values, sprites : Values]]
  BY DEF IInv, Types
<1>15. Types'
  <2>1. todo' \in Seq(Entry \cup {Publish, Wait})
    BY <1>9 DEF Queues, Item
  <2>2. SkipFrame' \in BOOLEAN /\ LinePhase' \in {0, 1, 3}
    BY <1>5, <1>6
  <2>3. want' \in [Lines -> SUBSET [mem : Values, sprites : Values]]
    <3>1. {Shown(PPU, s) : s \in IF fetched = None THEN Values ELSE {fetched}}
            \in SUBSET [mem : Values, sprites : Values]
      BY <1>14 DEF Shown
    <3> QED BY <1>13, <1>14, <3>1
  <2> QED BY <1>4, <2>1, <2>2, <2>3 DEF IInv, Types
<1>16. OrderInv' /\ PendingInv'
  BY <1>9, RingAtRestLemma DEF IInv, Queues
<1>17. p # EXIT /\ (drawn => d # EXIT /\ r # EXIT) /\ ~ Draws(p)
  <2>1. p # EXIT /\ (drawn => d # EXIT) /\ r # EXIT
    BY <1>3, EntryLemma
  <2>2. p # ENTER_VBLANK(FALSE)
    <3>1. FALSE \in BOOLEAN
      OBVIOUS
    <3> QED BY <1>3, <3>1, EntryLemma
  <2> QED BY <1>3, <2>1, <2>2 DEF Draws
<1>18. RestInv'
  BY <1>4, <1>5, <1>10, <1>17 DEF IInv, RestInv, Resting, Rest
<1>19. FrameInv'
  BY <1>4, <1>5, <1>7 DEF IInv, FrameInv, Shows, FrameEndsAt
<1>20. \A l \in Lines : Reached(l) => Reached(l)'
  BY <1>4, <1>5 DEF Reached
<1>21. drawn => \A l \in Lines : l = scanline => Reached(l)'
  <2>1. drawn => scanline \in Lines /\ scanline # VBlankLine
    <3>1. scanline \in Lines => scanline # VBlankLine
      OBVIOUS
    <3> QED BY <1>2, <3>1
  <2>2. LinePhase' # 0 /\ scanline' = scanline
    BY <1>4, <1>5
  <2> QED BY <2>1, <2>2 DEF Reached
<1>22. DrawInv'
  <2>1. \A e \in Asked : Draws(e) => mpc' \in Shows
    BY <1>4 DEF IInv, DrawInv
  <2>2. \A e \in Asked : e.Command = "RENDER_LINE" /\ mpc' = "frame" => Reached(e.line)'
    <3> SUFFICES ASSUME NEW e \in Asked, e.Command = "RENDER_LINE", mpc' = "frame"
                 PROVE  Reached(e.line)'
      OBVIOUS
    <3>1. e.line \in Lines
      BY AskedItems, CommandLemma DEF IInv
    <3> QED BY <1>4, <1>20, <3>1 DEF IInv, DrawInv
  <2>3. drawn => mpc' \in Shows
    BY <1>4, <1>8 DEF Shows
  <2>4. drawn => Reached(d.line)'
    BY <1>2, <1>3, <1>21
  <2> QED BY <1>3, <1>10, <1>17, <2>1, <2>2, <2>3, <2>4 DEF DrawInv
<1>23. OnceInv'
  <2>1. UNCHANGED <<pending, rpc, command>> /\ todo' = q
    BY <1>4, <1>9 DEF Queues
  <2>2. \A e \in Asked : \A i \in 1 .. Len(q) : Apart(e, q[i])
    <3> SUFFICES ASSUME NEW e \in Asked, NEW i \in 1 .. Len(q) PROVE Apart(e, q[i])
      OBVIOUS
    <3>1. q[i].Command = "RENDER_LINE" => drawn /\ q[i].line = scanline
      <4>1. CASE Len(q) = 0
        BY <4>1
      <4>2. CASE Len(q) = 2 /\ q[1] = d /\ q[2] = p /\ drawn
        BY <1>3, <4>2
      <4>3. CASE Len(q) = 3 /\ q[1] = r /\ q[2] = d /\ q[3] = p /\ drawn
        BY <1>3, <4>3
      <4> QED BY <1>9, <4>1, <4>2, <4>3
    <3> QED BY <1>12, <3>1 DEF Apart
  <2>3. \A i, j \in 1 .. Len(q) : i < j => Apart(q[i], q[j])
    <3>1. CASE Len(q) = 0
      BY <3>1
    <3>2. CASE Len(q) = 2 /\ q[1] = d /\ q[2] = p /\ drawn
      BY <1>3, <3>2 DEF Apart
    <3>3. CASE Len(q) = 3 /\ q[1] = r /\ q[2] = d /\ q[3] = p /\ drawn
      BY <1>3, <3>3 DEF Apart
    <3> QED BY <1>9, <3>1, <3>2, <3>3
  <2>4. \A i \in 1 .. Len(pending) : pending[i] \in Asked
    BY DEF Asked
  <2>5. rpc = "execute" => command \in Asked
    BY DEF Asked
  <2> QED BY <2>1, <2>2, <2>3, <2>4, <2>5 DEF IInv, OnceInv
<1>24. PictureInv'
  <2> SUFFICES ASSUME NEW l \in Lines, picture'[l] # AsAsked
               PROVE  /\ picture'[l] = NotDrawn /\ mpc' \in Shows /\ ~ skip'
                      /\ (mpc' = "frame" /\ ~ Reached(l)') \/ RENDER_LINE(l) \in Asked'
    BY DEF PictureInv
  <2>1. /\ picture[l] = NotDrawn /\ mpc \in Shows /\ ~ skip
        /\ (mpc = "frame" /\ ~ Reached(l)) \/ RENDER_LINE(l) \in Asked
    BY <1>4 DEF IInv, PictureInv
  <2>2. RENDER_LINE(l) \in Asked => RENDER_LINE(l) \in Asked'
    BY <1>11
  <2>3. CASE l = scanline
    <3>1. drawn
      BY <1>2, <1>7, <2>1, <2>3
    <3> QED BY <1>1, <1>4, <1>11, <2>1, <2>3, <3>1
  <2>4. CASE l # scanline
    <3>1. ~ Reached(l) => ~ Reached(l)'
      BY <1>4, <1>5, <2>4 DEF Reached
    <3> QED BY <1>4, <2>1, <2>2, <3>1
  <2> QED BY <2>3, <2>4
<1>25. ShownInv'
  <2>1. \A e \in Asked : \A s : Renders(want, e, s) => Renders(want', e, s)
    <3> SUFFICES ASSUME NEW e \in Asked, NEW s, Renders(want, e, s) PROVE Renders(want', e, s)
      OBVIOUS
    <3>1. e.Command = "RENDER_LINE" => e.line \in Lines
      BY AskedItems, CommandLemma DEF IInv
    <3>2. e.Command = "RENDER_LINE" => want'[e.line] = want[e.line]
      BY <1>12, <1>13, <1>14, <3>1
    <3> QED BY <3>2 DEF Renders
  <2>2. \A s \in States : UpToDate(s) =>
          \E g \in [0 .. Len(q) -> States] :
            g[0] = s /\ Follows(want', g, q) /\ UpToDate(g[Len(q)])'
    <3> SUFFICES ASSUME NEW s \in States, UpToDate(s)
                 PROVE  \E g \in [0 .. Len(q) -> States] :
                          g[0] = s /\ Follows(want', g, q) /\ UpToDate(g[Len(q)])'
      OBVIOUS
    <3>1. UpToDate(s)'
      BY <1>4 DEF UpToDate
    <3>2. /\ Effect(r, s) = s /\ Effect(p, s) = s /\ (drawn => Effect(d, s) = s)
          /\ s = Shown(s.mem, s.sprites) /\ s.sprites \in Values
      BY <1>3, EffectLemma
    <3>3. drawn => Renders(want', d, s)
      <4> SUFFICES ASSUME drawn PROVE s \in want'[scanline]
        BY <1>3 DEF Renders
      <4>1. s = Shown(PPU, s.sprites) /\ s.sprites \in IF fetched = None THEN Values ELSE {fetched}
        BY <3>2 DEF UpToDate
      <4>2. want'[scanline] = {Shown(PPU, t) : t \in IF fetched = None THEN Values ELSE {fetched}}
        BY <1>2, <1>13, <1>14
      <4> QED BY <4>1, <4>2
    <3>4. Renders(want', r, s) /\ Renders(want', p, s)
      BY <1>3 DEF Renders
    <3>5. \E g \in [0 .. Len(q) -> States] : g[0] = s /\ Follows(want', g, q) /\ g[Len(q)] = s
      <4>1. CASE q = <<>>
        BY <4>1, NoneFollow
      <4>2. CASE q = <<d, p>> /\ drawn
        <5>1. Renders(want', p, Effect(d, s)) /\ Effect(p, Effect(d, s)) = s /\ d \in Item
          BY <1>3, <3>2, <3>4, <4>2
        <5>2. \E g \in [0 .. Len(<<d, p>>) -> States] :
                /\ g[0] = s /\ Follows(want', g, <<d, p>>)
                /\ g[Len(<<d, p>>)] = Effect(p, Effect(d, s))
          BY <1>3, <3>3, <4>2, <5>1, TwoFollow
        <5> QED BY <4>2, <5>1, <5>2
      <4>3. CASE q = <<r, d, p>> /\ drawn
        <5>1. /\ Renders(want', d, Effect(r, s)) /\ Renders(want', p, Effect(d, Effect(r, s)))
              /\ Effect(p, Effect(d, Effect(r, s))) = s /\ d \in Item
          BY <1>3, <3>2, <3>3, <3>4, <4>3
        <5>2. \E g \in [0 .. Len(<<r, d, p>>) -> States] :
                /\ g[0] = s /\ Follows(want', g, <<r, d, p>>)
                /\ g[Len(<<r, d, p>>)] = Effect(p, Effect(d, Effect(r, s)))
          BY <1>3, <3>4, <4>3, <5>1, ThreeFollow
        <5> QED BY <4>3, <5>1, <5>2
      <4> QED BY <1>9, <4>1, <4>2, <4>3
    <3> QED BY <3>1, <3>5
  <2> QED BY <1>4, <1>9, <2>1, <2>2, QueueShown DEF IInv
<1> QED BY <1>15, <1>16, <1>18, <1>19, <1>22, <1>23, <1>24, <1>25 DEF IInv

-----------------------------------------------------------------------------
(* Calls begin and return.                                                  *)

\* The chip and its copy are left as they are, and nothing is asked.
AllAtRest ==
  /\ todo = <<>> /\ todo' = <<>> /\ RingAtRest
  /\ UNCHANGED <<mem, sprites, PPU, fetched, want>>

LEMMA AtRestLemma ==
  ASSUME IInv, AllAtRest
  PROVE  OrderInv' /\ PendingInv' /\ OnceInv' /\ ShownInv' /\ Asked' = Asked
<1>1. UNCHANGED <<todo, pending, rpc, command, mem, sprites, PPU, fetched, want>>
  BY DEF AllAtRest, RingAtRest, ring
<1>2. OrderInv' /\ PendingInv'
  BY RingAtRestLemma DEF AllAtRest, IInv
<1>3. OnceInv' /\ Asked' = Asked
  BY <1>1 DEF IInv, OnceInv, Asked
<1>4. ShownInv'
  BY <1>1 DEF IInv, ShownInv, Replay, UpToDate, Now
<1> QED BY <1>2, <1>3, <1>4

\* No line is asked for outside of a frame, and all of the last one's are drawn.
LEMMA BetweenLemma ==
  ASSUME IInv, mpc \notin Shows
  PROVE  /\ \A e \in Asked : ~ Draws(e) /\ e.Command # "RENDER_LINE"
         /\ \A l \in Lines : picture[l] = AsAsked
BY DEF IInv, DrawInv, PictureInv, Draws

LEMMA StartLemma ==
  ASSUME IInv, (\E s \in BOOLEAN : Emulate(s)) \/ (\E s \in BOOLEAN : EmulateShown(s))
  PROVE  IInv'
<1>1. /\ mpc \in {"idle", "ahead over"} /\ AllAtRest
      /\ SpecExSS' = SpecExSS \/ SpecExSS' = <<PPU, scanline>>
      /\ \/ mpc' = "ahead" /\ es' = "tmp_espec" /\ skip' = TRUE /\ UNCHANGED picture
         \/ \E s \in BOOLEAN :
              /\ mpc' = "frame" /\ es' = "espec" /\ skip' = s
              /\ picture' = [l \in Lines |-> IF s THEN picture[l] ELSE NotDrawn]
  <2>1. ASSUME NEW s \in BOOLEAN, Emulate(s)
        PROVE  /\ mpc = "idle" /\ UNCHANGED <<SpecExSS, todo>> /\ RingAtRest
               /\ UNCHANGED <<mem, sprites, PPU, fetched, want>>
               /\ \/ mpc' = "ahead" /\ es' = "tmp_espec" /\ skip' = TRUE /\ UNCHANGED picture
                  \/ /\ mpc' = "frame" /\ es' = "espec" /\ skip' = s
                     /\ picture' = [l \in Lines |-> IF s THEN picture[l] ELSE NotDrawn]
    BY <2>1 DEF Emulate, PPU_StartFrame, SkipAhead, RingAtRest, renderer, chip
  <2>2. ASSUME NEW s \in BOOLEAN, EmulateShown(s)
        PROVE  /\ mpc = "ahead over" /\ SpecExSS' = <<PPU, scanline>> /\ todo = <<>> /\ UNCHANGED todo
               /\ RingAtRest /\ UNCHANGED <<mem, sprites, PPU, fetched, want>>
               /\ mpc' = "frame" /\ es' = "espec" /\ skip' = s
               /\ picture' = [l \in Lines |-> IF s THEN picture[l] ELSE NotDrawn]
    BY <2>2 DEF EmulateShown, PPU_StartFrame, RingAtRest, renderer, chip
  <2>3. mpc = "idle" => todo = <<>>
    BY DEF IInv, RestInv
  <2> QED BY <2>1, <2>2, <2>3 DEF AllAtRest
<1>2. /\ UNCHANGED <<SpecEx, FrameBeginVBlank, WQ, WritePos, ReadPos, TMP_WritePos, TMP_ReadPos>>
      /\ UNCHANGED <<RWritePos, RReadPos, rpc, command, mem, sprites, pending>>
      /\ UNCHANGED <<PPU, scanline, LinePhase, SkipFrame, want, fetched, todo>>
  BY DEF Emulate, EmulateShown, settings, ring, renderer, chip
<1>3. mpc \notin Shows
  BY <1>1 DEF Shows
<1>4. OrderInv' /\ PendingInv' /\ OnceInv' /\ ShownInv' /\ Asked' = Asked
  BY <1>1, AtRestLemma
<1>5. skip' \in BOOLEAN /\ picture' \in [Lines -> {NotDrawn, AsAsked, Otherwise}]
      /\ mpc' \in {"ahead", "frame"}
  BY <1>1 DEF IInv, Types
<1>6. scanline \in 0 .. VBlankLine /\ PPU \in Values
  BY DEF IInv, Types
<1>7. SpecExSS' \in Values \X (0 .. VBlankLine)
  <2>1. SpecExSS \in Values \X (0 .. VBlankLine)
    BY DEF IInv, Types
  <2>2. <<PPU, scanline>> \in Values \X (0 .. VBlankLine)
    BY <1>6
  <2>3. SpecExSS' = SpecExSS \/ SpecExSS' = <<PPU, scanline>>
    BY <1>1
  <2> QED BY <2>1, <2>2, <2>3
<1>8. Types'
  BY <1>2, <1>5, <1>7 DEF IInv, Types
<1>9. LinePhase = 0 /\ scanline \in {0, FrameEndsAt}
  BY <1>1 DEF IInv, FrameInv
<1>10. FrameInv'
  <2>1. UNCHANGED FrameEndsAt
    BY <1>2 DEF FrameEndsAt
  <2>2. SpecExSS'[2] \in {0, FrameEndsAt}
    <3>1. SpecExSS[2] \in {0, FrameEndsAt}
      BY DEF IInv, FrameInv
    <3>2. <<PPU, scanline>>[2] = scanline
      OBVIOUS
    <3>3. SpecExSS' = SpecExSS \/ SpecExSS' = <<PPU, scanline>>
      BY <1>1
    <3> QED BY <1>9, <3>1, <3>2, <3>3
  <2>3. scanline \notin Lines
    BY <1>6, <1>9 DEF FrameEndsAt
  <2>4. (mpc' = "ahead" => skip') /\ (mpc' \in Shows => es' = "espec")
    BY <1>1 DEF Shows
  <2> QED BY <1>2, <1>5, <2>1, <2>2, <2>3, <2>4 DEF FrameInv
<1>11. RestInv'
  <2>1. rpc # "done" /\ EXIT \notin Asked
    BY <1>1 DEF IInv, RestInv
  <2> QED BY <1>2, <1>4, <1>5, <2>1 DEF RestInv, Resting
<1>12. DrawInv'
  BY <1>3, <1>4, BetweenLemma DEF DrawInv
<1>13. PictureInv'
  <2>1. \A l \in Lines : picture[l] = AsAsked
    BY <1>3, BetweenLemma
  <2>2. \A l \in Lines : ~ Reached(l)'
    BY <1>2, <1>9 DEF Reached, FrameEndsAt
  <2>3. CASE UNCHANGED picture
    BY <2>1, <2>3 DEF PictureInv
  <2>4. ASSUME NEW s \in BOOLEAN, mpc' = "frame", skip' = s,
               picture' = [l \in Lines |-> IF s THEN picture[l] ELSE NotDrawn]
        PROVE  PictureInv'
    BY <2>1, <2>2, <2>4 DEF PictureInv, Shows
  <2> QED BY <1>1, <2>3, <2>4
<1> QED BY <1>4, <1>8, <1>10, <1>11, <1>12, <1>13 DEF IInv

\* The call returns when the render thread is done with the frame, and so is all that
\* was asked of it.
LEMMA RestLemma ==
  ASSUME IInv, Resting
  PROVE  /\ Rest /\ todo = <<>> /\ Asked = {}
         /\ mem = PPU /\ (fetched # None => sprites = fetched)
         /\ \A l \in Lines : picture[l] = AsAsked
<1>1. Rest /\ todo = <<>>
  BY DEF IInv, RestInv, Resting
<1>2. Asked = {}
  BY <1>1 DEF Rest, Asked
<1>3. \A l \in Lines : picture[l] = AsAsked
  <2>1. mpc # "frame"
    BY DEF Resting
  <2> QED BY <1>2, <2>1 DEF IInv, PictureInv
<1>4. PICK h \in [0 .. Len(pending) -> States], g \in [0 .. Len(todo) -> States] : Replay(h, g)
  BY DEF IInv, ShownInv
<1>5. Len(pending) = 0 /\ Len(todo) = 0 /\ rpc # "execute"
  BY <1>1 DEF Rest
<1>6. h[0] = Shown(mem, sprites) /\ h[0].mem = PPU /\ (fetched # None => h[0].sprites = fetched)
  BY <1>4, <1>5 DEF Replay, Now, UpToDate
<1> QED BY <1>1, <1>2, <1>3, <1>6 DEF Shown

LEMMA LoadLemma ==
  ASSUME IInv, EmulateReturns \/ (\E v \in Values : PPU_StateAction(v))
  PROVE  IInv'
<1>1. Resting
  BY DEF EmulateReturns, PPU_StateAction, Resting
<1>2. /\ mpc' = "idle" /\ UNCHANGED todo /\ RingAtRest
      /\ UNCHANGED <<SpecEx, FrameBeginVBlank, WQ, WritePos, ReadPos, TMP_WritePos, TMP_ReadPos>>
      /\ UNCHANGED <<RWritePos, RReadPos, rpc, command, pending>>
      /\ UNCHANGED <<sprites, SkipFrame, skip, SpecExSS, want, fetched, picture>>
  BY DEF EmulateReturns, PPU_StateAction, settings, ring, RingAtRest
<1>3. /\ Rest /\ todo = <<>> /\ Asked = {} /\ mem = PPU /\ (fetched # None => sprites = fetched)
      /\ \A l \in Lines : picture[l] = AsAsked
  BY <1>1, RestLemma
<1>4. /\ mem \in Values /\ PPU \in Values /\ sprites \in Values /\ scanline \in 0 .. VBlankLine
      /\ SpecExSS \in Values \X (0 .. VBlankLine) /\ pending \in Seq(Entry)
  BY DEF IInv, Types
<1>5. SpecExSS[1] \in Values /\ SpecExSS[2] \in 0 .. VBlankLine
  BY <1>4
<1>6. scanline \in {0, FrameEndsAt} /\ SpecExSS[2] \in {0, FrameEndsAt} /\ LinePhase = 0
  BY <1>1 DEF Resting, IInv, FrameInv
<1>7. /\ mem' = PPU' /\ mem' \in Values /\ LinePhase' = 0
      /\ scanline' \in 0 .. VBlankLine /\ scanline' \in {0, FrameEndsAt}
  <2>1. CASE EmulateReturns /\ SpecEx
    BY <1>5, <1>6, <2>1 DEF EmulateReturns, LoadSM
  <2>2. CASE EmulateReturns /\ ~ SpecEx
    BY <1>3, <1>4, <1>6, <2>2 DEF EmulateReturns
  <2>3. CASE \E v \in Values : PPU_StateAction(v)
    BY <1>4, <1>6, <2>3 DEF PPU_StateAction, LoadSM
  <2> QED BY <2>1, <2>2, <2>3
<1>8. Types'
  <2>1. LinePhase' \in {0, 1, 3}
    BY <1>7
  <2> QED BY <1>2, <1>7, <2>1 DEF IInv, Types
<1>9. OrderInv' /\ PendingInv'
  BY <1>2, RingAtRestLemma DEF IInv
<1>10. Asked' = Asked
  BY <1>2 DEF Asked
<1>11. RestInv' /\ DrawInv' /\ PictureInv'
  BY <1>2, <1>3, <1>10 DEF RestInv, DrawInv, PictureInv, Rest
<1>12. OnceInv'
  BY <1>2 DEF IInv, OnceInv
<1>13. FrameInv'
  <2>1. UNCHANGED FrameEndsAt
    BY <1>2 DEF FrameEndsAt
  <2> QED BY <1>2, <1>6, <1>7, <2>1 DEF FrameInv, Shows
<1>14. ShownInv'
  <2>1. PICK h : h = [i \in 0 .. 0 |-> Shown(mem', sprites)]
    OBVIOUS
  <2>2. Shown(mem', sprites) \in States
    BY <1>4, <1>7 DEF Shown, States
  <2>3. h \in [0 .. 0 -> States] /\ h[0] = Shown(mem', sprites)
    BY <2>1, <2>2
  <2>4. Len(pending') = 0 /\ Len(todo') = 0 /\ rpc' # "execute"
    BY <1>2, <1>3 DEF Rest
  <2>5. Now' = h[0]
    BY <1>2, <2>3, <2>4 DEF Now
  <2>6. UpToDate(h[0])'
    BY <1>2, <1>3, <1>7, <2>3 DEF UpToDate, Shown
  <2>7. Follows(want', h, pending') /\ Follows(want', h, todo')
    BY <2>4 DEF Follows
  <2>8. Replay(h, h)'
    BY <2>4, <2>5, <2>6, <2>7 DEF Replay
  <2> QED BY <2>3, <2>4, <2>8 DEF ShownInv
<1> QED BY <1>8, <1>9, <1>11, <1>12, <1>13, <1>14 DEF IInv

\* The render thread is waited for, or told to end.
LEMMA EndLemma == ASSUME IInv, PPU_SyncMT \/ MTIF_Kill PROVE IInv'
<1>1. PICK a, b, c : a = Publish /\ b = Wait /\ c = EXIT
  OBVIOUS
<1>2. /\ a \in Item /\ b \in Item /\ c \in Item
      /\ a.Command = "publish" /\ b.Command = "wait" /\ c.Command = "EXIT"
  BY <1>1, EntryLemma DEF Item
<1>3. PICK m \in Seq(Item) : m = <<a, b>> /\ Len(m) = 2 /\ m[1] = a /\ m[2] = b
  BY <1>2, TwoItems
<1>4. PICK k \in Seq(Item) : k = <<c, a>> /\ Len(k) = 2 /\ k[1] = c /\ k[2] = a
  BY <1>2, TwoItems
<1>5. /\ UNCHANGED <<SpecEx, FrameBeginVBlank, WQ, WritePos, ReadPos, TMP_WritePos, TMP_ReadPos>>
      /\ UNCHANGED <<RWritePos, RReadPos, rpc, command, mem, sprites, pending>>
      /\ UNCHANGED <<PPU, es, scanline, LinePhase, SkipFrame, skip, SpecExSS, fetched, want, picture>>
  BY DEF PPU_SyncMT, MTIF_Kill, settings, ring, renderer, chip
<1>6. todo = <<>>
  BY DEF PPU_SyncMT, MTIF_Kill, IInv, RestInv
<1>7. PICK q \in Seq(Item) :
        /\ Queues(q)
        /\ \/ q = <<a, b>> /\ Len(q) = 2 /\ q[1] = a /\ q[2] = b /\ mpc = "over" /\ mpc' = "synced"
           \/ q = <<c, a>> /\ Len(q) = 2 /\ q[1] = c /\ q[2] = a /\ mpc = "idle" /\ mpc' = "kill"
  <2>1. RingAtRest
    BY DEF PPU_SyncMT, MTIF_Kill, RingAtRest, renderer
  <2>2. CASE PPU_SyncMT
    BY <1>1, <1>3, <1>5, <1>6, <2>1, <2>2 DEF PPU_SyncMT, MTIF_Sync, Queues
  <2>3. CASE MTIF_Kill
    BY <1>1, <1>4, <1>5, <1>6, <2>1, <2>3 DEF MTIF_Kill, SendExit, Queues
  <2> QED BY <2>2, <2>3
<1>8. \A i \in 1 .. Len(q) : q[i] = a \/ q[i] = b \/ (q[i] = c /\ mpc' = "kill")
  <2>1. \A i \in 1 .. 2 : i = 1 \/ i = 2
    OBVIOUS
  <2> QED BY <1>7, <2>1
<1>9. \A s \in States : UpToDate(s) =>
        \E g \in [0 .. Len(q) -> States] :
          g[0] = s /\ Follows(want, g, q) /\ UpToDate(g[Len(q)])'
  <2> SUFFICES ASSUME NEW s \in States, UpToDate(s)
               PROVE  \E g \in [0 .. Len(q) -> States] :
                        g[0] = s /\ Follows(want, g, q) /\ UpToDate(g[Len(q)])'
    OBVIOUS
  <2>1. UpToDate(s)'
    BY <1>5 DEF UpToDate
  <2>2. Effect(a, s) = s /\ Effect(b, s) = s /\ Effect(c, s) = s
    BY <1>2, EffectLemma
  <2>3. \A e \in {a, b, c} : Renders(want, e, s)
    BY <1>2 DEF Renders
  <2>4. \A e, f \in {a, b, c} : \E g \in [0 .. Len(<<e, f>>) -> States] :
           g[0] = s /\ Follows(want, g, <<e, f>>) /\ g[Len(<<e, f>>)] = s
    <3> SUFFICES ASSUME NEW e \in {a, b, c}, NEW f \in {a, b, c}
                 PROVE  \E g \in [0 .. Len(<<e, f>>) -> States] :
                          g[0] = s /\ Follows(want, g, <<e, f>>) /\ g[Len(<<e, f>>)] = s
      OBVIOUS
    <3>1. e \in Item /\ f \in Item /\ Effect(e, s) = s /\ Effect(f, s) = s
      BY <1>2, <2>2
    <3>2. Renders(want, e, s) /\ Renders(want, f, Effect(e, s)) /\ Effect(f, Effect(e, s)) = s
      BY <2>3, <3>1
    <3>3. \E g \in [0 .. Len(<<e, f>>) -> States] :
             /\ g[0] = s /\ Follows(want, g, <<e, f>>)
             /\ g[Len(<<e, f>>)] = Effect(f, Effect(e, s))
      BY <3>1, <3>2, TwoFollow
    <3> QED BY <3>2, <3>3
  <2>5. \E g \in [0 .. Len(q) -> States] : g[0] = s /\ Follows(want, g, q) /\ g[Len(q)] = s
    <3>1. q = <<a, b>> \/ q = <<c, a>>
      BY <1>7
    <3> QED BY <2>4, <3>1
  <2> QED BY <2>1, <2>5
<1>10. /\ OrderInv' /\ PendingInv' /\ OnceInv' /\ ShownInv'
       /\ Asked' = Asked \cup {q[i] : i \in 1 .. Len(q)}
       /\ \A l \in Lines : (RENDER_LINE(l) \in Asked') = (RENDER_LINE(l) \in Asked)
  <2>1. \A i \in 1 .. Len(q) : q[i].Command # "RENDER_LINE"
    BY <1>2, <1>8
  <2>2. Queues(q)
    BY <1>7
  <2> QED BY <1>5, <1>9, <2>1, <2>2, QueueLemma
<1>11. \A e \in Asked' : e \in Asked \/ e = a \/ e = b \/ (e = c /\ mpc' = "kill")
  BY <1>8, <1>10
<1>12. Types'
  <2>1. todo' \in Seq(Entry \cup {Publish, Wait})
    BY <1>7 DEF Queues, Item
  <2>2. mpc' \in {"synced", "kill"}
    BY <1>7
  <2> QED BY <1>5, <2>1, <2>2 DEF IInv, Types
<1>13. a # EXIT /\ b # EXIT /\ ~ Draws(a) /\ ~ Draws(b) /\ ~ Draws(c)
  <2>1. \A e \in {a, b, c} : e # ENTER_VBLANK(FALSE)
    <3>1. ENTER_VBLANK(FALSE).Command = "ENTER_VBLANK"
      BY EntryLemma
    <3> QED BY <1>2, <3>1
  <2> QED BY <1>2, <2>1, EntryLemma DEF Draws
<1>14. RestInv'
  <2>1. mpc' = "synced" => todo' = <<Publish, Wait>>
    BY <1>1, <1>7 DEF Queues
  <2>2. todo' # <<>>
    <3>1. todo' = <<a, b>> \/ todo' = <<c, a>>
      BY <1>7 DEF Queues
    <3>2. <<a, b>> # <<>> /\ <<c, a>> # <<>>
      OBVIOUS
    <3> QED BY <3>1, <3>2
  <2>3. rpc' = "done" => mpc' \in {"kill", "gone"}
    BY <1>5, <1>7 DEF IInv, RestInv
  <2>4. EXIT \in Asked' => mpc' \in {"kill", "gone"}
    BY <1>7, <1>11, <1>13 DEF IInv, RestInv
  <2> QED BY <1>7, <2>1, <2>2, <2>3, <2>4 DEF RestInv, Resting
<1>15. FrameInv'
  BY <1>5, <1>7 DEF IInv, FrameInv, Shows, FrameEndsAt
<1>16. DrawInv'
  <2>1. \A e \in Asked : Draws(e) => mpc' \in Shows
    BY <1>7 DEF IInv, DrawInv, Shows
  <2> QED BY <1>7, <1>11, <1>13, <2>1 DEF DrawInv
<1>17. PictureInv'
  BY <1>5, <1>7, <1>10 DEF IInv, PictureInv, Shows
<1> QED BY <1>10, <1>12, <1>14, <1>15, <1>16, <1>17 DEF IInv

LEMMA JoinLemma == ASSUME IInv, Join PROVE IInv'
<1>1. /\ UNCHANGED <<SpecEx, FrameBeginVBlank, WQ, WritePos, ReadPos, TMP_WritePos, TMP_ReadPos>>
      /\ UNCHANGED <<RWritePos, RReadPos, rpc, command, mem, sprites, pending, todo>>
      /\ UNCHANGED <<PPU, es, scanline, LinePhase, SkipFrame, skip, SpecExSS, fetched, want, picture>>
      /\ mpc = "kill" /\ mpc' = "gone" /\ todo = <<>>
  BY DEF Join, settings, ring, renderer, chip
<1>2. AllAtRest
  BY <1>1 DEF AllAtRest, RingAtRest, ring
<1>3. OrderInv' /\ PendingInv' /\ OnceInv' /\ ShownInv' /\ Asked' = Asked
  BY <1>2, AtRestLemma
<1>4. Types'
  BY <1>1 DEF IInv, Types
<1>5. RestInv' /\ FrameInv' /\ DrawInv' /\ PictureInv'
  BY <1>1, <1>3 DEF IInv, RestInv, Resting, FrameInv, FrameEndsAt, Shows, DrawInv, PictureInv
<1> QED BY <1>3, <1>4, <1>5 DEF IInv

-----------------------------------------------------------------------------
(* What was to be queued goes into the ring.                                *)

LEMMA EntriesLemma == ASSUME NEW s \in Seq(Entry) PROVE s \in Seq(Item)
BY DEF Item

\* The first of what is to be queued moves behind what is queued already.
LEMMA StoreShown ==
  ASSUME Types, ShownInv, todo # <<>>,
         pending' = Append(pending, Head(todo)), Head(todo) \in Entry, todo' = Tail(todo),
         UNCHANGED <<rpc, command, mem, sprites, PPU, fetched, want>>
  PROVE  ShownInv'
<1>1. PICK h \in [0 .. Len(pending) -> States], g \in [0 .. Len(todo) -> States] : Replay(h, g)
  BY DEF ShownInv
<1>2. pending \in Seq(Item) /\ todo \in Seq(Item)
  <2>1. pending \in Seq(Entry) /\ todo \in Seq(Item)
    BY DEF Types, Item
  <2> QED BY <2>1, EntriesLemma
<1>3. PICK e \in Item : e = Head(todo) /\ e = todo[1] /\ 1 \in 1 .. Len(todo)
  BY <1>2, TailLemma
<1>4. g[1] = Effect(e, g[1 - 1]) /\ Renders(want, e, g[1 - 1])
  BY <1>1, <1>3 DEF Replay, Follows
<1>5. 1 - 1 = 0 /\ g[0] = h[Len(pending)]
  BY <1>1 DEF Replay
<1>6. g[1] = Effect(e, h[Len(pending)]) /\ Renders(want, e, h[Len(pending)])
  BY <1>4, <1>5
<1>7. PICK k \in [0 .. Len(Append(pending, e)) -> States] :
           /\ k[0] = h[0] /\ Follows(want, k, Append(pending, e))
           /\ k[Len(Append(pending, e))] = Effect(e, h[Len(pending)])
  <2>1. Follows(want, h, pending)
    BY <1>1 DEF Replay
  <2>2. Renders(want, e, h[Len(pending)])
    BY <1>6
  <2>3. pending \in Seq(Item) /\ e \in Item /\ h \in [0 .. Len(pending) -> States]
    BY <1>2
  <2> QED BY ONLY <2>1, <2>2, <2>3, AppendFollows
<1>8. PICK f \in [0 .. Len(Tail(todo)) -> States] :
           f[0] = g[1] /\ Follows(want, f, Tail(todo)) /\ f[Len(Tail(todo))] = g[Len(todo)]
  BY <1>1, <1>2, TailFollows DEF Replay
<1>9. pending' = Append(pending, e) /\ todo' = Tail(todo)
  BY <1>3
<1>10. Replay(k, f)'
  BY <1>1, <1>6, <1>7, <1>8, <1>9 DEF Replay, Now, UpToDate
<1> QED BY <1>7, <1>8, <1>9, <1>10 DEF ShownInv

\* Publishing and waiting change nothing of what is shown.
LEMMA WaitShown ==
  ASSUME Types, ShownInv, todo # <<>>, Head(todo) \in {Publish, Wait}, todo' = Tail(todo),
         UNCHANGED <<pending, rpc, command, mem, sprites, PPU, fetched, want>>
  PROVE  ShownInv'
<1>1. PICK h \in [0 .. Len(pending) -> States], g \in [0 .. Len(todo) -> States] : Replay(h, g)
  BY DEF ShownInv
<1>2. todo \in Seq(Item)
  BY DEF Types, Item
<1>3. PICK e \in Item : e = todo[1] /\ 1 \in 1 .. Len(todo) /\ e \in {Publish, Wait}
  BY <1>2, TailLemma
<1>4. g[1] = Effect(e, g[1 - 1]) /\ 1 - 1 = 0 /\ g[0] \in States
  BY <1>1, <1>3 DEF Replay, Follows
<1>5. g[1] = g[0]
  <2>1. e.Command \notin {"WRITE", "FETCH_SPRITE_DATA"}
    BY <1>3, EntryLemma
  <2>2. Effect(e, g[0]) = g[0]
    BY <1>4, <2>1, EffectLemma
  <2> QED BY <1>4, <2>2
<1>6. PICK f \in [0 .. Len(Tail(todo)) -> States] :
           f[0] = g[1] /\ Follows(want, f, Tail(todo)) /\ f[Len(Tail(todo))] = g[Len(todo)]
  BY <1>1, <1>2, TailFollows DEF Replay
<1>7. Replay(h, f)'
  BY <1>1, <1>5, <1>6 DEF Replay, Now, UpToDate
<1> QED BY <1>6, <1>7 DEF ShownInv

\* Nothing is asked that was not to be queued or queued already.
LEMMA StoreAsked ==
  ASSUME Types, todo # <<>>, todo' = Tail(todo), UNCHANGED <<rpc, command>>,
         \/ pending' = Append(pending, Head(todo)) /\ Head(todo) \in Entry
         \/ UNCHANGED pending /\ Head(todo) \in {Publish, Wait}
  PROVE  Asked' \subseteq Asked /\ \A e \in Asked : e \in Asked' \/ e \in {Publish, Wait}
<1>1. todo \in Seq(Item) /\ pending \in Seq(Entry)
  BY DEF Types, Item
<1>2. PICK n \in Nat : /\ n = Len(todo) /\ n > 0 /\ Head(todo) = todo[1] /\ Len(todo') = n - 1
                       /\ \A i \in 1 .. n - 1 : todo'[i] = todo[i + 1]
  BY <1>1, TailLemma
<1>3. {todo[i] : i \in 1 .. Len(todo)} = {todo[1]} \cup {todo'[i] : i \in 1 .. Len(todo')}
  <2>1. \A i \in 1 .. n : i = 1 \/ (i - 1 \in 1 .. n - 1 /\ todo[i] = todo'[i - 1])
    BY <1>2
  <2>2. \A i \in 1 .. n - 1 : i + 1 \in 1 .. n
    BY <1>2
  <2>3. 1 \in 1 .. n
    BY <1>2
  <2>4. {todo[i] : i \in 1 .. n} \subseteq {todo[1]} \cup {todo'[i] : i \in 1 .. n - 1}
    <3> SUFFICES ASSUME NEW i \in 1 .. n
                 PROVE  todo[i] = todo[1] \/ todo[i] \in {todo'[j] : j \in 1 .. n - 1}
      OBVIOUS
    <3>1. CASE i = 1
      BY <3>1
    <3>2. CASE i - 1 \in 1 .. n - 1 /\ todo[i] = todo'[i - 1]
      BY <3>2
    <3> QED BY <2>1, <3>1, <3>2
  <2>5. {todo'[i] : i \in 1 .. n - 1} \subseteq {todo[i] : i \in 1 .. n}
    BY <1>2, <2>2
  <2>6. {todo[1]} \subseteq {todo[i] : i \in 1 .. n}
    BY <2>3
  <2> QED BY <1>2, <2>4, <2>5, <2>6
<1>4. CASE pending' = Append(pending, Head(todo)) /\ Head(todo) \in Entry
  <2>1. PICK m \in Nat : m = Len(pending)
    BY <1>1
  <2>2. /\ Len(pending') = m + 1 /\ pending'[m + 1] = todo[1]
        /\ \A i \in 1 .. m : pending'[i] = pending[i]
    BY <1>1, <1>2, <1>4, <2>1, AppendLemma
  <2>3. \A i \in 1 .. m + 1 : i = m + 1 \/ i \in 1 .. m
    BY <2>1
  <2>4. m + 1 \in 1 .. m + 1 /\ 1 .. m \subseteq 1 .. m + 1
    BY <2>1
  <2>5. {pending'[i] : i \in 1 .. Len(pending')} = {todo[1]} \cup {pending[i] : i \in 1 .. Len(pending)}
    BY <2>1, <2>2, <2>3, <2>4
  <2> QED BY <1>3, <2>5 DEF Asked
<1>5. CASE UNCHANGED pending /\ Head(todo) \in {Publish, Wait}
  BY <1>2, <1>3, <1>5 DEF Asked
<1> QED BY <1>4, <1>5

LEMMA KeepLemma ==
  ASSUME IInv,
         UNCHANGED <<mpc, scanline, LinePhase, SkipFrame, skip, es, SpecExSS, FrameBeginVBlank, picture>>,
         \A e \in Asked' : e \in Asked \/ e \in {Publish, Wait},
         \A e \in Asked : e \in Asked' \/ e \in {Publish, Wait}
  PROVE  FrameInv' /\ DrawInv' /\ PictureInv' /\ (EXIT \in Asked' => mpc' \in {"kill", "gone"})
<1>1. UNCHANGED <<mpc, scanline, LinePhase, SkipFrame, skip, es, SpecExSS, FrameBeginVBlank, picture>>
  OBVIOUS
<1>2. FrameInv'
  <2>1. UNCHANGED FrameEndsAt
    BY <1>1 DEF FrameEndsAt
  <2>2. SpecExSS'[2] \in {0, FrameEndsAt'}
    BY <1>1, <2>1 DEF IInv, FrameInv
  <2>3. mpc' = mpc /\ scanline' = scanline /\ LinePhase' = LinePhase
    BY <1>1
  <2>4. SkipFrame' = SkipFrame /\ skip' = skip /\ es' = es
    BY <1>1
  <2>5. mpc' \in {"idle", "ahead over", "over", "synced"}
          => LinePhase' = 0 /\ scanline' \in {0, FrameEndsAt'}
    BY <2>1, <2>3 DEF IInv, FrameInv
  <2>6. (mpc' = "ahead" => skip') /\ (mpc' \in Shows => es' = "espec")
    <3>1. (mpc = "ahead" => skip) /\ (mpc \in Shows => es = "espec")
      BY DEF IInv, FrameInv
    <3>2. mpc' = "ahead" => skip'
      BY <2>3, <2>4, <3>1
    <3>3. mpc' \in Shows => es' = "espec"
      BY <2>3, <2>4, <3>1
    <3> QED BY <3>2, <3>3
  <2>7. mpc' \in {"ahead", "frame"} /\ scanline' \in Lines /\ (scanline' > 1 \/ LinePhase' # 0)
          => SkipFrame' = skip'
    BY <2>3, <2>4 DEF IInv, FrameInv
  <2> QED BY <2>2, <2>5, <2>6, <2>7 DEF FrameInv, Shows
<1>3. \A e \in {Publish, Wait} : e.Command # "RENDER_LINE" /\ ~ Draws(e) /\ e # EXIT
  <2>1. ENTER_VBLANK(FALSE).Command = "ENTER_VBLANK"
    BY EntryLemma
  <2> QED BY <2>1, EntryLemma DEF Draws
<1>4. \A l : Reached(l)' = Reached(l)
  BY <1>1 DEF Reached
<1>5. DrawInv'
  BY <1>1, <1>3, <1>4 DEF IInv, DrawInv
<1>6. \A l \in Lines : RENDER_LINE(l) \in Asked => RENDER_LINE(l) \in Asked'
  <2>1. \A l \in Lines : RENDER_LINE(l).Command = "RENDER_LINE"
    BY EntryLemma
  <2> QED BY <1>3, <2>1
<1>7. PictureInv'
  BY <1>1, <1>4, <1>6 DEF IInv, PictureInv
<1>8. EXIT \in Asked' => mpc' \in {"kill", "gone"}
  BY <1>1, <1>3 DEF IInv, RestInv
<1> QED BY <1>2, <1>5, <1>7, <1>8

\* Waiting for a full ring asks nothing of the render thread.
LEMMA FullLemma == ASSUME IInv, WWQ, Full PROVE IInv'
<1>1. /\ UNCHANGED <<SpecEx, FrameBeginVBlank, WritePos, ReadPos, TMP_WritePos, TMP_ReadPos>>
      /\ UNCHANGED <<RWritePos, RReadPos, rpc, command, mem, sprites, pending>>
      /\ UNCHANGED <<PPU, es, scanline, LinePhase, SkipFrame, skip, SpecExSS, fetched, want, picture>>
      /\ UNCHANGED mpc /\ todo # <<>> /\ Head(todo) \notin {Publish, Wait}
  BY DEF WWQ, settings, renderer, chip
<1>2. todo' = <<Publish, Wait>> \o todo
  BY DEF WWQ
<1>3. OrderInv' /\ PendingInv' /\ WQ' \in [Positions -> Entry]
  BY StoreRing DEF IInv
<1>4. todo \in Seq(Item) /\ Publish \in Item /\ Wait \in Item
  BY DEF IInv, Types, Item
<1>5. PICK n \in Nat : n = Len(todo)
  BY <1>4
<1>6. /\ todo' \in Seq(Item) /\ Len(todo') = n + 2 /\ todo'[1] = Publish /\ todo'[2] = Wait
      /\ \A i \in 3 .. n + 2 : todo'[i] = todo[i - 2]
  <2>1. /\ <<Publish, Wait>> \o todo \in Seq(Item) /\ Len(<<Publish, Wait>> \o todo) = Len(todo) + 2
        /\ (<<Publish, Wait>> \o todo)[1] = Publish /\ (<<Publish, Wait>> \o todo)[2] = Wait
        /\ \A i \in 3 .. Len(todo) + 2 : (<<Publish, Wait>> \o todo)[i] = todo[i - 2]
    BY <1>4, PutLemma
  <2> QED BY <1>2, <1>5, <2>1
<1>7. Types'
  <2>1. todo' \in Seq(Entry \cup {Publish, Wait})
    BY <1>6 DEF Item
  <2> QED BY <1>1, <1>3, <2>1 DEF IInv, Types
<1>8. \A i \in 1 .. n + 2 : i = 1 \/ i = 2 \/ (i \in 3 .. n + 2 /\ i - 2 \in 1 .. n)
  OBVIOUS
<1>9. \A i \in 1 .. n : i + 2 \in 3 .. n + 2 /\ (i + 2) - 2 = i /\ i + 2 \in 1 .. n + 2
  OBVIOUS
<1>10. \A e \in Asked' : e \in Asked \/ e \in {Publish, Wait}
  <2>1. \A i \in 1 .. n + 2 : todo'[i] \in Asked \/ todo'[i] \in {Publish, Wait}
    <3> SUFFICES ASSUME NEW i \in 1 .. n + 2 PROVE todo'[i] \in Asked \/ todo'[i] \in {Publish, Wait}
      OBVIOUS
    <3>1. CASE i \in 3 .. n + 2 /\ i - 2 \in 1 .. n
      <4>1. todo'[i] = todo[i - 2]
        BY <1>6, <3>1
      <4> QED BY <1>5, <3>1, <4>1 DEF Asked
    <3> QED BY <1>6, <1>8, <3>1
  <2> QED BY <1>1, <1>6, <2>1 DEF Asked
<1>11. \A e \in Asked : e \in Asked'
  <2>1. \A i \in 1 .. n : todo[i] \in Asked'
    <3> SUFFICES ASSUME NEW i \in 1 .. n PROVE todo[i] \in Asked'
      OBVIOUS
    <3>1. todo'[i + 2] = todo[i] /\ i + 2 \in 1 .. n + 2
      BY <1>6, <1>9
    <3> QED BY <1>6, <3>1 DEF Asked
  <2> QED BY <1>1, <1>5, <2>1 DEF Asked
<1>12. FrameInv' /\ DrawInv' /\ PictureInv' /\ (EXIT \in Asked' => mpc' \in {"kill", "gone"})
  BY <1>1, <1>10, <1>11, KeepLemma
<1>13. mpc \notin {"idle", "gone", "synced"}
  <2>1. mpc \notin {"idle", "gone"}
    BY <1>1 DEF IInv, RestInv
  <2>2. mpc = "synced" => todo = <<Wait>> \/ todo = <<Publish, Wait>>
    BY <1>1 DEF IInv, RestInv
  <2>3. Head(<<Wait>>) = Wait /\ Head(<<Publish, Wait>>) = Publish
    OBVIOUS
  <2> QED BY <1>1, <2>1, <2>2, <2>3
<1>14. RestInv'
  BY <1>1, <1>12, <1>13 DEF IInv, RestInv, Resting
<1>15. OnceInv'
  <2>1. \A e : Apart(e, Publish) /\ Apart(e, Wait) /\ Apart(Publish, e) /\ Apart(Wait, e)
    BY EntryLemma DEF Apart
  <2>2. \A i \in 1 .. n + 2 :
          todo'[i] \in {Publish, Wait} \/ (i - 2 \in 1 .. n /\ todo'[i] = todo[i - 2])
    BY <1>6, <1>8
  <2>3. \A i, j \in 1 .. n + 2 : i < j => Apart(todo'[i], todo'[j])
    <3> SUFFICES ASSUME NEW i \in 1 .. n + 2, NEW j \in 1 .. n + 2, i < j
                 PROVE  Apart(todo'[i], todo'[j])
      OBVIOUS
    <3>1. CASE todo'[i] \in {Publish, Wait} \/ todo'[j] \in {Publish, Wait}
      BY <2>1, <3>1
    <3>2. CASE /\ i - 2 \in 1 .. n /\ todo'[i] = todo[i - 2]
               /\ j - 2 \in 1 .. n /\ todo'[j] = todo[j - 2]
      <4>1. i - 2 < j - 2
        OBVIOUS
      <4> QED BY <1>5, <3>2, <4>1 DEF IInv, OnceInv
    <3> QED BY <2>2, <3>1, <3>2
  <2>4. \A e : (\A i \in 1 .. n : Apart(e, todo[i])) => \A i \in 1 .. n + 2 : Apart(e, todo'[i])
    BY <2>1, <2>2
  <2>5. \A i \in 1 .. Len(pending), j \in 1 .. n + 2 : Apart(pending[i], todo'[j])
    BY <1>5, <2>4 DEF IInv, OnceInv
  <2>6. rpc = "execute" => \A i \in 1 .. n + 2 : Apart(command, todo'[i])
    BY <1>5, <2>4 DEF IInv, OnceInv
  <2> QED BY <1>1, <1>6, <2>3, <2>5, <2>6 DEF IInv, OnceInv
<1>16. ShownInv'
  <2>1. PICK h \in [0 .. Len(pending) -> States], g \in [0 .. Len(todo) -> States] : Replay(h, g)
    BY DEF IInv, ShownInv
  <2>2. Follows(want, g, todo)
    BY <2>1 DEF Replay
  <2>3. PICK f \in [0 .. Len(<<Publish, Wait>> \o todo) -> States] :
           /\ f[0] = g[0] /\ Follows(want, f, <<Publish, Wait>> \o todo)
           /\ f[Len(<<Publish, Wait>> \o todo)] = g[Len(todo)]
    BY ONLY <1>4, <2>2, PutFollows
  <2>4. Replay(h, f)'
    BY <1>1, <1>2, <2>1, <2>3 DEF Replay, Now, UpToDate
  <2> QED BY <1>1, <1>2, <2>1, <2>3, <2>4 DEF IInv, ShownInv
<1> QED BY <1>3, <1>7, <1>12, <1>14, <1>15, <1>16 DEF IInv

LEMMA StoreLemma == ASSUME IInv, WWQ, ~ Full PROVE IInv'
<1>1. /\ UNCHANGED <<SpecEx, FrameBeginVBlank, ReadPos, TMP_WritePos, TMP_ReadPos>>
      /\ UNCHANGED <<RWritePos, RReadPos, rpc, command, mem, sprites>>
      /\ UNCHANGED <<PPU, es, scanline, LinePhase, SkipFrame, skip, SpecExSS, fetched, want, picture>>
      /\ UNCHANGED mpc /\ todo # <<>> /\ Head(todo) \notin {Publish, Wait}
      /\ todo' = Tail(todo) /\ pending' = Append(pending, Head(todo))
  BY DEF WWQ, settings, renderer, chip
<1>2. /\ OrderInv' /\ PendingInv' /\ WQ' \in [Positions -> Entry] /\ Head(todo) \in Entry
      /\ WritePos' \in Positions /\ pending' \in Seq(Entry)
  BY StoreRing DEF IInv
<1>3. todo \in Seq(Item) /\ pending \in Seq(Entry)
  BY DEF IInv, Types, Item
<1>4. PICK n \in Nat : /\ n = Len(todo) /\ n > 0 /\ Head(todo) = todo[1] /\ Len(todo') = n - 1
                       /\ todo' \in Seq(Item)
                       /\ \A i \in 1 .. n - 1 : todo'[i] = todo[i + 1]
  BY <1>1, <1>3, TailLemma
<1>5. Types'
  <2>1. todo' \in Seq(Entry \cup {Publish, Wait})
    BY <1>4 DEF Item
  <2> QED BY <1>1, <1>2, <2>1 DEF IInv, Types
<1>6. Asked' \subseteq Asked /\ \A e \in Asked : e \in Asked' \/ e \in {Publish, Wait}
  BY <1>1, <1>2, StoreAsked DEF IInv
<1>7. FrameInv' /\ DrawInv' /\ PictureInv' /\ (EXIT \in Asked' => mpc' \in {"kill", "gone"})
  BY <1>1, <1>6, KeepLemma
<1>8. mpc \notin {"idle", "gone", "synced"}
  <2>1. mpc \notin {"idle", "gone"}
    BY <1>1 DEF IInv, RestInv
  <2>2. mpc = "synced" => todo = <<Wait>> \/ todo = <<Publish, Wait>>
    BY <1>1 DEF IInv, RestInv
  <2>3. Head(<<Wait>>) = Wait /\ Head(<<Publish, Wait>>) = Publish
    OBVIOUS
  <2> QED BY <1>1, <2>1, <2>2, <2>3
<1>9. RestInv'
  BY <1>1, <1>7, <1>8 DEF IInv, RestInv, Resting
<1>10. OnceInv'
  <2>1. PICK m \in Nat : m = Len(pending)
    BY <1>3
  <2>2. /\ Len(pending') = m + 1 /\ pending'[m + 1] = todo[1]
        /\ \A i \in 1 .. m : pending'[i] = pending[i]
    BY <1>1, <1>2, <1>3, <1>4, <2>1, AppendLemma
  <2>3. \A i \in 1 .. m + 1 : i = m + 1 \/ i \in 1 .. m
    OBVIOUS
  <2>4. \A i \in 1 .. n - 1 : i + 1 \in 1 .. n /\ 1 < i + 1
    OBVIOUS
  <2>5. 1 \in 1 .. n
    BY <1>4
  <2>6. /\ \A i, j \in 1 .. m : i < j => Apart(pending[i], pending[j])
        /\ \A i, j \in 1 .. n : i < j => Apart(todo[i], todo[j])
        /\ \A i \in 1 .. m, j \in 1 .. n : Apart(pending[i], todo[j])
        /\ rpc = "execute" => /\ \A i \in 1 .. m : Apart(command, pending[i])
                              /\ \A i \in 1 .. n : Apart(command, todo[i])
    BY <1>4, <2>1 DEF IInv, OnceInv
  <2>7. \A i, j \in 1 .. m + 1 : i < j => Apart(pending'[i], pending'[j])
    <3> SUFFICES ASSUME NEW i \in 1 .. m + 1, NEW j \in 1 .. m + 1, i < j
                 PROVE  Apart(pending'[i], pending'[j])
      OBVIOUS
    <3>1. i \in 1 .. m
      OBVIOUS
    <3> QED BY <2>2, <2>3, <2>5, <2>6, <3>1
  <2>8. \A i, j \in 1 .. n - 1 : i < j => Apart(todo'[i], todo'[j])
    <3> SUFFICES ASSUME NEW i \in 1 .. n - 1, NEW j \in 1 .. n - 1, i < j
                 PROVE  Apart(todo'[i], todo'[j])
      OBVIOUS
    <3>1. i + 1 < j + 1
      OBVIOUS
    <3> QED BY <1>4, <2>4, <2>6, <3>1
  <2>9. \A i \in 1 .. m + 1, j \in 1 .. n - 1 : Apart(pending'[i], todo'[j])
    <3> SUFFICES ASSUME NEW i \in 1 .. m + 1, NEW j \in 1 .. n - 1 PROVE Apart(pending'[i], todo'[j])
      OBVIOUS
    <3>1. todo'[j] = todo[j + 1] /\ j + 1 \in 1 .. n /\ 1 < j + 1
      BY <1>4, <2>4
    <3>2. CASE i = m + 1
      BY <2>2, <2>5, <2>6, <3>1, <3>2
    <3>3. CASE i \in 1 .. m
      BY <2>2, <2>6, <3>1, <3>3
    <3> QED BY <2>3, <3>2, <3>3
  <2>10. rpc = "execute" => /\ \A i \in 1 .. m + 1 : Apart(command, pending'[i])
                            /\ \A i \in 1 .. n - 1 : Apart(command, todo'[i])
    BY <1>4, <2>2, <2>3, <2>4, <2>5, <2>6
  <2> QED BY <1>1, <1>4, <2>2, <2>7, <2>8, <2>9, <2>10 DEF OnceInv
<1>11. ShownInv'
  BY <1>1, <1>2, StoreShown DEF IInv
<1> QED BY <1>2, <1>5, <1>7, <1>9, <1>10, <1>11 DEF IInv

LEMMA WaitLemma == ASSUME IInv, PublishWrites \/ WaitUntilEmpty PROVE IInv'
<1>1. /\ UNCHANGED <<SpecEx, FrameBeginVBlank, WQ, WritePos, TMP_ReadPos>>
      /\ UNCHANGED <<RWritePos, RReadPos, rpc, command, mem, sprites, pending>>
      /\ UNCHANGED <<PPU, es, scanline, LinePhase, SkipFrame, skip, SpecExSS, fetched, want, picture>>
      /\ UNCHANGED mpc /\ todo # <<>> /\ Head(todo) \in {Publish, Wait}
      /\ todo' = Tail(todo) /\ ReadPos' = TMP_ReadPos
      /\ TMP_WritePos' = TMP_WritePos \/ TMP_WritePos' = WritePos
      /\ Head(todo) = Publish \/ TMP_ReadPos = WritePos
  BY DEF PublishWrites, WaitUntilEmpty, settings, renderer, chip
<1>2. OrderInv' /\ PendingInv'
  BY <1>1, LearnRing DEF IInv
<1>3. todo \in Seq(Item) /\ pending \in Seq(Entry)
  BY DEF IInv, Types, Item
<1>4. PICK n \in Nat : /\ n = Len(todo) /\ n > 0 /\ Head(todo) = todo[1] /\ Len(todo') = n - 1
                       /\ todo' \in Seq(Item)
                       /\ \A i \in 1 .. n - 1 : todo'[i] = todo[i + 1]
  BY <1>1, <1>3, TailLemma
<1>5. Types'
  <2>1. todo' \in Seq(Entry \cup {Publish, Wait})
    BY <1>4 DEF Item
  <2>2. TMP_ReadPos \in Positions /\ WritePos \in Positions /\ TMP_WritePos \in Positions
    BY DEF IInv, Types
  <2>3. ReadPos' \in Positions /\ TMP_WritePos' \in Positions
    BY <1>1, <2>2
  <2> QED BY <1>1, <2>1, <2>3 DEF IInv, Types
<1>6. Asked' \subseteq Asked /\ \A e \in Asked : e \in Asked' \/ e \in {Publish, Wait}
  BY <1>1, StoreAsked DEF IInv
<1>7. FrameInv' /\ DrawInv' /\ PictureInv' /\ (EXIT \in Asked' => mpc' \in {"kill", "gone"})
  BY <1>1, <1>6, KeepLemma
<1>8. RestInv'
  <2>1. mpc \notin {"idle", "gone"}
    BY <1>1 DEF IInv, RestInv
  <2>2. mpc = "synced" => todo = <<Wait>> \/ todo = <<Publish, Wait>>
    BY <1>1 DEF IInv, RestInv
  <2>3. /\ Head(<<Wait>>) = Wait /\ Head(<<Publish, Wait>>) = Publish
        /\ Tail(<<Wait>>) = <<>> /\ Tail(<<Publish, Wait>>) = <<Wait>>
    OBVIOUS
  <2>4. Publish # Wait
    BY EntryLemma
  <2>5. mpc = "synced" =>
          (todo' = <<Wait>> \/ (todo' = <<>> /\ TMP_ReadPos = WritePos))
    BY <1>1, <2>2, <2>3, <2>4
  <2>6. TMP_ReadPos = WritePos /\ mpc = "synced" => Rest
    <3>1. mpc = "synced" => rpc # "done"
      BY DEF IInv, RestInv
    <3> QED BY <3>1, EmptyRing DEF IInv, Rest
  <2>7. Resting' => Rest'
    <3>1. <<Wait>> # <<>>
      OBVIOUS
    <3> QED BY <1>1, <2>1, <2>5, <2>6, <3>1 DEF Resting, Rest
  <2>8. rpc' = "done" => mpc' \in {"kill", "gone"}
    BY <1>1 DEF IInv, RestInv
  <2> QED BY <1>1, <1>7, <2>1, <2>5, <2>7, <2>8 DEF RestInv
<1>9. OnceInv'
  <2>1. \A i \in 1 .. n - 1 : i + 1 \in 1 .. n /\ todo'[i] = todo[i + 1]
    BY <1>4
  <2>2. \A i, j \in 1 .. n - 1 : i < j => Apart(todo'[i], todo'[j])
    <3> SUFFICES ASSUME NEW i \in 1 .. n - 1, NEW j \in 1 .. n - 1, i < j
                 PROVE  Apart(todo'[i], todo'[j])
      OBVIOUS
    <3>1. i + 1 < j + 1
      OBVIOUS
    <3> QED BY <1>4, <2>1, <3>1 DEF IInv, OnceInv
  <2>3. \A i \in 1 .. Len(pending), j \in 1 .. n - 1 : Apart(pending[i], todo'[j])
    BY <1>4, <2>1 DEF IInv, OnceInv
  <2>4. rpc = "execute" => \A i \in 1 .. n - 1 : Apart(command, todo'[i])
    BY <1>4, <2>1 DEF IInv, OnceInv
  <2> QED BY <1>1, <1>4, <2>2, <2>3, <2>4 DEF IInv, OnceInv
<1>10. ShownInv'
  BY <1>1, WaitShown DEF IInv
<1> QED BY <1>2, <1>5, <1>7, <1>8, <1>9, <1>10 DEF IInv

-----------------------------------------------------------------------------
(* The render thread.                                                       *)

\* While nothing is queued, it finds nothing.
LEMMA PollRest == ASSUME IInv, Rest, Poll PROVE rpc' = "poll"
<1>1. RWritePos' = TMP_WritePos /\ rpc' = IF RWritePos' = RReadPos THEN "poll" ELSE "take"
  BY DEF Poll
<1>2. /\ WritePos \in Positions /\ ReadPos \in Positions /\ RReadPos \in Positions
      /\ TMP_WritePos \in Positions /\ RWritePos \in Positions
  BY DEF IInv, Types
<1>3. /\ Dist(WritePos) \in Int /\ Dist(RReadPos) \in Int /\ Dist(TMP_WritePos) \in Int
      /\ Dist(RWritePos) \in Int
  BY <1>2, GapLemma DEF Dist
<1>4. Len(pending) = 0
  BY DEF Rest
<1>5. Dist(RReadPos) = Dist(TMP_WritePos)
  <2>1. Len(pending) = Dist(WritePos) - Dist(RReadPos)
    BY DEF IInv, PendingInv
  <2>2. /\ Dist(RReadPos) <= Dist(RWritePos) /\ Dist(RWritePos) <= Dist(TMP_WritePos)
        /\ Dist(TMP_WritePos) <= Dist(WritePos)
    BY DEF IInv, OrderInv
  <2> QED BY <1>3, <1>4, <2>1, <2>2
<1>6. RReadPos = TMP_WritePos
  BY <1>2, <1>5, GapLemma DEF Dist
<1> QED BY <1>1, <1>6

LEMMA LookLemma == ASSUME IInv, PublishReads \/ Poll PROVE IInv'
<1>1. /\ UNCHANGED <<SpecEx, FrameBeginVBlank, WQ, WritePos, ReadPos, TMP_WritePos, RReadPos>>
      /\ UNCHANGED <<command, mem, sprites, pending, todo, mpc>>
      /\ UNCHANGED <<PPU, es, scanline, LinePhase, SkipFrame, skip, SpecExSS, fetched, want, picture>>
      /\ TMP_ReadPos' = TMP_ReadPos \/ TMP_ReadPos' = RReadPos
      /\ RWritePos' = RWritePos \/ RWritePos' = TMP_WritePos
      /\ rpc \in {"publish", "poll"} /\ rpc' \in {"poll", "take"}
  BY DEF PublishReads, Poll, settings, chip
<1>2. OrderInv' /\ PendingInv'
  BY ThreadRing DEF IInv
<1>3. Types'
  <2>1. /\ TMP_ReadPos \in Positions /\ RReadPos \in Positions /\ RWritePos \in Positions
        /\ TMP_WritePos \in Positions
    BY DEF IInv, Types
  <2>2. TMP_ReadPos' \in Positions /\ RWritePos' \in Positions
    BY <1>1, <2>1
  <2> QED BY <1>1, <2>2 DEF IInv, Types
<1>4. rpc # "execute" /\ rpc' # "execute" /\ rpc' # "done"
  BY <1>1
<1>5. Asked' = Asked
  BY <1>1, <1>4 DEF Asked
<1>6. FrameInv' /\ DrawInv' /\ PictureInv' /\ (EXIT \in Asked' => mpc' \in {"kill", "gone"})
  BY <1>1, <1>5, KeepLemma
<1>7. RestInv'
  <2>1. Resting' => Rest
    BY <1>1 DEF IInv, RestInv, Resting
  <2>2. Rest => rpc' = "poll"
    BY PollRest DEF PublishReads
  <2>3. Resting' => Rest'
    BY <1>1, <2>1, <2>2 DEF Rest
  <2> QED BY <1>1, <1>4, <1>6, <2>3 DEF IInv, RestInv
<1>8. OnceInv' /\ ShownInv'
  BY <1>1, <1>4 DEF IInv, OnceInv, ShownInv, Replay, Now, UpToDate
<1> QED BY <1>2, <1>3, <1>6, <1>7, <1>8 DEF IInv

LEMMA TakeLemma == ASSUME IInv, Take PROVE IInv'
<1>1. /\ UNCHANGED <<SpecEx, FrameBeginVBlank, ReadPos, TMP_WritePos, TMP_ReadPos, RWritePos>>
      /\ UNCHANGED <<mem, sprites, todo, mpc>>
      /\ UNCHANGED <<PPU, es, scanline, LinePhase, SkipFrame, skip, SpecExSS, fetched, want, picture>>
      /\ rpc = "take" /\ rpc' = "execute" /\ pending' = Tail(pending)
  BY DEF Take, TakeQuietly, settings, chip
<1>2. /\ OrderInv' /\ PendingInv' /\ UNCHANGED <<WQ, WritePos>> /\ RReadPos' \in Positions
      /\ pending # <<>> /\ command' = pending[1]
  BY TakeRing DEF IInv
<1>3. pending \in Seq(Entry)
  BY DEF IInv, Types
<1>4. PICK n \in Nat : /\ n = Len(pending) /\ n > 0 /\ Len(pending') = n - 1
                       /\ pending' \in Seq(Entry) /\ pending[1] \in Entry
                       /\ \A i \in 1 .. n - 1 : pending'[i] = pending[i + 1]
  BY <1>1, <1>2, <1>3, TailLemma
<1>5. Types'
  BY <1>1, <1>2, <1>4 DEF IInv, Types
<1>6. \A i \in 1 .. n - 1 : i + 1 \in 1 .. n /\ pending'[i] = pending[i + 1]
  BY <1>4
<1>7. Asked' = Asked
  <2>1. 1 \in 1 .. n
    BY <1>4
  <2>2. \A i \in 1 .. n : i = 1 \/ (i - 1 \in 1 .. n - 1 /\ pending[i] = pending'[i - 1])
    BY <1>4
  <2>3. \A i \in 1 .. n : pending[i] \in Asked'
    <3> SUFFICES ASSUME NEW i \in 1 .. n PROVE pending[i] \in Asked'
      OBVIOUS
    <3>1. CASE i = 1
      BY <1>1, <1>2, <3>1 DEF Asked
    <3>2. CASE i - 1 \in 1 .. n - 1 /\ pending[i] = pending'[i - 1]
      BY <1>4, <3>2 DEF Asked
    <3> QED BY <2>2, <3>1, <3>2
  <2>4. \A i \in 1 .. n - 1 : pending'[i] \in Asked
    BY <1>4, <1>6 DEF Asked
  <2>5. command' \in Asked
    BY <1>2, <1>4, <2>1 DEF Asked
  <2>6. {c \in {command'} : rpc' = "execute"} \subseteq Asked
    BY <2>5
  <2>7. Asked \subseteq Asked'
    BY <1>1, <1>4, <2>3 DEF Asked
  <2>8. Asked' \subseteq Asked
    BY <1>1, <1>4, <2>4, <2>6 DEF Asked
  <2> QED BY <2>7, <2>8
<1>8. FrameInv' /\ DrawInv' /\ PictureInv' /\ (EXIT \in Asked' => mpc' \in {"kill", "gone"})
  BY <1>1, <1>7, KeepLemma
<1>9. RestInv'
  <2>1. ~ Resting
    BY <1>1 DEF IInv, RestInv, Rest
  <2>2. ~ Resting'
    BY <1>1, <2>1 DEF Resting
  <2> QED BY <1>1, <1>8, <2>2 DEF IInv, RestInv
<1>10. OnceInv'
  <2>1. /\ \A i, j \in 1 .. n : i < j => Apart(pending[i], pending[j])
        /\ \A i \in 1 .. n, j \in 1 .. Len(todo) : Apart(pending[i], todo[j])
        /\ \A i, j \in 1 .. Len(todo) : i < j => Apart(todo[i], todo[j])
    BY <1>4 DEF IInv, OnceInv
  <2>2. 1 \in 1 .. n
    BY <1>4
  <2>3. \A i, j \in 1 .. n - 1 : i < j => Apart(pending'[i], pending'[j])
    <3> SUFFICES ASSUME NEW i \in 1 .. n - 1, NEW j \in 1 .. n - 1, i < j
                 PROVE  Apart(pending'[i], pending'[j])
      OBVIOUS
    <3>1. i + 1 < j + 1
      OBVIOUS
    <3> QED BY <1>6, <2>1, <3>1
  <2>4. \A i \in 1 .. n - 1, j \in 1 .. Len(todo) : Apart(pending'[i], todo[j])
    BY <1>6, <2>1
  <2>5. \A i \in 1 .. n - 1 : Apart(command', pending'[i])
    <3> SUFFICES ASSUME NEW i \in 1 .. n - 1 PROVE Apart(command', pending'[i])
      OBVIOUS
    <3>1. 1 < i + 1
      OBVIOUS
    <3> QED BY <1>2, <1>6, <2>1, <2>2, <3>1
  <2>6. \A i \in 1 .. Len(todo) : Apart(command', todo[i])
    BY <1>2, <2>1, <2>2
  <2> QED BY <1>1, <1>4, <2>1, <2>3, <2>4, <2>5, <2>6 DEF OnceInv
<1>11. ShownInv'
  <2>1. PICK h \in [0 .. Len(pending) -> States], g \in [0 .. Len(todo) -> States] : Replay(h, g)
    BY DEF IInv, ShownInv
  <2>2. Follows(want, h, pending)
    BY <2>1 DEF Replay
  <2>3. pending \in Seq(Item) /\ 1 \in 1 .. Len(pending)
    BY <1>3, <1>4, EntriesLemma
  <2>4. PICK k \in [0 .. Len(Tail(pending)) -> States] :
           k[0] = h[1] /\ Follows(want, k, Tail(pending)) /\ k[Len(Tail(pending))] = h[Len(pending)]
    BY ONLY <1>2, <2>2, <2>3, TailFollows
  <2>5. h[1] = Effect(command', h[1 - 1]) /\ Renders(want, command', h[1 - 1])
    BY <1>2, <2>2, <2>3 DEF Follows
  <2>6. h[1 - 1] = Shown(mem, sprites)
    <3>1. 1 - 1 = 0
      OBVIOUS
    <3> QED BY <1>1, <2>1, <3>1 DEF Replay, Now
  <2>7. Now' = k[0]
    BY <1>1, <2>4, <2>5, <2>6 DEF Now
  <2>8. Replay(k, g)'
    BY <1>1, <2>1, <2>4, <2>7 DEF Replay, UpToDate
  <2>9. (rpc = "execute" => Renders(want, command, Shown(mem, sprites)))'
    BY <1>1, <2>5, <2>6
  <2> QED BY <1>1, <2>4, <2>8, <2>9 DEF ShownInv
<1> QED BY <1>2, <1>5, <1>8, <1>9, <1>10, <1>11 DEF IInv

LEMMA ExecuteLemma == ASSUME IInv, Execute PROVE IInv'
<1>1. /\ UNCHANGED <<SpecEx, FrameBeginVBlank, WQ, WritePos, ReadPos, TMP_WritePos, TMP_ReadPos>>
      /\ UNCHANGED <<RWritePos, RReadPos, pending, command, todo, mpc>>
      /\ UNCHANGED <<PPU, es, scanline, LinePhase, SkipFrame, skip, SpecExSS, fetched>>
      /\ rpc = "execute" /\ rpc' \in {"done", "publish", "take"} /\ (rpc' = "done" => command = EXIT)
      /\ mem' = (IF command.Command = "WRITE" THEN command.v ELSE mem)
      /\ sprites' = (IF command = FETCH_SPRITE_DATA THEN mem ELSE sprites)
  BY DEF Execute, Store, settings, ring, chip
<1>2. /\ command.Command = "RENDER_LINE" =>
           /\ picture' = [picture EXCEPT ![command.line] =
                            IF Shown(mem, sprites) \in want[command.line] THEN AsAsked ELSE Otherwise]
           /\ want' = [want EXCEPT ![command.line] = {}]
      /\ command.Command # "RENDER_LINE" => UNCHANGED <<picture, want>>
  BY DEF Execute
<1>3. /\ command \in Entry /\ command \in Item /\ mem \in Values /\ sprites \in Values
      /\ picture \in [Lines -> {NotDrawn, AsAsked, Otherwise}]
      /\ want \in [Lines -> SUBSET [mem : Values, sprites : Values]]
  BY DEF IInv, Types, Item
<1>4. /\ command.Command = "WRITE" => command.v \in Values
      /\ command.Command = "RENDER_LINE" => command.line \in Lines /\ command = RENDER_LINE(command.line)
      /\ command.Command = "FETCH_SPRITE_DATA" <=> command = FETCH_SPRITE_DATA
  BY <1>3, CommandLemma, EntryLemma
<1>5. OrderInv' /\ PendingInv'
  BY ThreadRing DEF IInv
<1>6. Types'
  <2>1. mem' \in Values /\ sprites' \in Values
    BY <1>1, <1>3, <1>4
  <2>2. /\ picture' \in [Lines -> {NotDrawn, AsAsked, Otherwise}]
        /\ want' \in [Lines -> SUBSET [mem : Values, sprites : Values]]
    BY <1>2, <1>3, <1>4
  <2> QED BY <1>1, <2>1, <2>2 DEF IInv, Types
<1>7. Asked' \subseteq Asked /\ command \in Asked /\ \A e \in Asked : e \in Asked' \/ e = command
  BY <1>1 DEF Asked
\* The line is the one that was asked for, and it shows what it should.
<1>8. /\ command.Command = "RENDER_LINE" =>
           \A l \in Lines : picture'[l] = IF l = command.line THEN AsAsked ELSE picture[l]
      /\ command.Command # "RENDER_LINE" => picture' = picture
  <2>1. command.Command = "RENDER_LINE" => Shown(mem, sprites) \in want[command.line]
    BY <1>1 DEF IInv, ShownInv, Renders
  <2> QED BY <1>2, <1>3, <1>4, <2>1
<1>9. FrameInv'
  <2>1. UNCHANGED FrameEndsAt
    BY <1>1 DEF FrameEndsAt
  <2>2. SpecExSS'[2] \in {0, FrameEndsAt'}
    BY <1>1, <2>1 DEF IInv, FrameInv
  <2> QED BY <1>1, <2>1, <2>2 DEF IInv, FrameInv, Shows
<1>10. \A l : Reached(l)' = Reached(l)
  BY <1>1 DEF Reached
<1>11. DrawInv'
  BY <1>1, <1>7, <1>10 DEF IInv, DrawInv
<1>12. PictureInv'
  <2> SUFFICES ASSUME NEW l \in Lines, picture'[l] # AsAsked
               PROVE  /\ picture'[l] = NotDrawn /\ mpc' \in Shows /\ ~ skip'
                      /\ (mpc' = "frame" /\ ~ Reached(l)') \/ RENDER_LINE(l) \in Asked'
    BY DEF PictureInv
  <2>1. picture'[l] = picture[l] /\ (command.Command = "RENDER_LINE" => l # command.line)
    BY <1>8
  <2>2. /\ picture[l] = NotDrawn /\ mpc \in Shows /\ ~ skip
        /\ (mpc = "frame" /\ ~ Reached(l)) \/ RENDER_LINE(l) \in Asked
    BY <2>1 DEF IInv, PictureInv
  <2>3. RENDER_LINE(l) # command
    BY <2>1, EntryLemma
  <2> QED BY <1>1, <1>7, <1>10, <2>1, <2>2, <2>3
<1>13. RestInv'
  <2>1. ~ Resting
    BY <1>1 DEF IInv, RestInv, Rest
  <2>2. ~ Resting'
    BY <1>1, <2>1 DEF Resting
  <2>3. (rpc' = "done" => mpc' \in {"kill", "gone"}) /\ (EXIT \in Asked' => mpc' \in {"kill", "gone"})
    BY <1>1, <1>7 DEF IInv, RestInv
  <2> QED BY <1>1, <2>2, <2>3 DEF IInv, RestInv
<1>14. rpc' # "execute"
  BY <1>1
<1>15. OnceInv'
  BY <1>1, <1>14 DEF IInv, OnceInv
<1>16. ShownInv'
  <2>1. PICK h \in [0 .. Len(pending) -> States], g \in [0 .. Len(todo) -> States] : Replay(h, g)
    BY DEF IInv, ShownInv
  <2>2. Now' = Now
    BY <1>1, <1>4, <1>14 DEF Now, Effect, Shown
  \* The lines queued are others.
  <2>3. \A e \in Item : Apart(command, e) => \A s : Renders(want, e, s) => Renders(want', e, s)
    <3> SUFFICES ASSUME NEW e \in Item, Apart(command, e), NEW s, Renders(want, e, s)
                 PROVE  Renders(want', e, s)
      OBVIOUS
    <3>1. e.Command = "RENDER_LINE" => e.line \in Lines
      BY CommandLemma
    <3>2. e.Command = "RENDER_LINE" => want'[e.line] = want[e.line]
      BY <1>2, <1>3, <1>4, <3>1 DEF Apart
    <3> QED BY <3>2 DEF Renders
  <2>4. \A i \in 1 .. Len(pending) : pending[i] \in Item /\ Apart(command, pending[i])
    <3>1. pending \in Seq(Entry)
      BY DEF IInv, Types
    <3>2. \A i \in 1 .. Len(pending) : pending[i] \in Item
      BY <3>1 DEF Item
    <3> QED BY <1>1, <3>2 DEF IInv, OnceInv
  <2>5. \A i \in 1 .. Len(todo) : todo[i] \in Item /\ Apart(command, todo[i])
    <3>1. todo \in Seq(Item)
      BY DEF IInv, Types, Item
    <3>2. \A i \in 1 .. Len(todo) : todo[i] \in Item
      BY <3>1
    <3> QED BY <1>1, <3>2 DEF IInv, OnceInv
  <2>6. Follows(want', h, pending)
    BY <2>1, <2>3, <2>4, StillFollows DEF Replay
  <2>7. Follows(want', g, todo)
    BY <2>1, <2>3, <2>5, StillFollows DEF Replay
  <2>8. Replay(h, g)'
    BY <1>1, <2>1, <2>2, <2>6, <2>7 DEF Replay, UpToDate
  <2> QED BY <1>1, <1>14, <2>1, <2>8 DEF ShownInv
<1> QED BY <1>5, <1>6, <1>9, <1>11, <1>12, <1>13, <1>15, <1>16 DEF IInv

-----------------------------------------------------------------------------
(* The theorems                                                             *)

LEMMA StepLemma == IInv /\ [Next]_vars => IInv'
<1> SUFFICES ASSUME IInv, [Next]_vars PROVE IInv'
  OBVIOUS
<1>1. CASE Calls
  BY <1>1, StartLemma, LoadLemma, EndLemma DEF Calls
<1>2. CASE Frame
  BY <1>2, WriteLemma, StartLemma, BeginLineLemma, RenderLemma, HBlankLemma DEF Frame
<1>3. CASE Committed
  BY <1>3, FullLemma, StoreLemma, WaitLemma, EndLemma, LoadLemma, JoinLemma DEF Committed
<1>4. CASE RThreadEntry
  BY <1>4, LookLemma, TakeLemma, ExecuteLemma DEF RThreadEntry
<1>5. CASE UNCHANGED vars
  <2>1. /\ UNCHANGED <<SpecEx, FrameBeginVBlank, WQ, WritePos, ReadPos, TMP_WritePos, TMP_ReadPos>>
        /\ UNCHANGED <<RWritePos, RReadPos, rpc, command, mem, sprites, pending, todo>>
        /\ UNCHANGED <<PPU, es, scanline, LinePhase, SkipFrame, skip, SpecExSS, fetched, want, picture>>
        /\ UNCHANGED mpc
    BY <1>5 DEF vars, settings, ring, renderer, chip
  <2>2. Types' /\ OrderInv' /\ PendingInv'
    <3>1. Types'
      BY <2>1 DEF IInv, Types
    <3>2. OrderInv' /\ PendingInv'
      BY <2>1, RingAtRestLemma DEF IInv, RingAtRest, ring
    <3> QED BY <3>1, <3>2
  <2>3. Asked' = Asked
    BY <2>1 DEF Asked
  <2>4. FrameInv' /\ DrawInv' /\ PictureInv' /\ (EXIT \in Asked' => mpc' \in {"kill", "gone"})
    BY <2>1, <2>3, KeepLemma
  <2>5. RestInv'
    BY <2>1, <2>4 DEF IInv, RestInv, Resting, Rest
  <2>6. OnceInv' /\ ShownInv'
    BY <2>1 DEF IInv, OnceInv, ShownInv, Replay, Now, UpToDate
  <2> QED BY <2>2, <2>4, <2>5, <2>6 DEF IInv
<1> QED BY <1>1, <1>2, <1>3, <1>4, <1>5 DEF Next

LEMMA InvLemma == Spec => []IInv
BY InitLemma, StepLemma, PTL DEF Spec

\* RingHolds (the ring of MTIF_Write and WWQ): what lies between the two positions is
\* what was queued and is not yet taken, whatever the size of the ring.
THEOREM Ring == Spec => []RingHolds
<1>1. IInv => RingHolds
  <2> SUFFICES ASSUME IInv PROVE RingHolds
    OBVIOUS
  <2>1. WritePos \in Positions /\ ReadPos \in Positions /\ RReadPos \in Positions
    BY DEF IInv, Types
  <2>2. PICK n : n = Len(pending) /\ n = Gap(ReadPos, WritePos) - Gap(ReadPos, RReadPos)
    BY DEF IInv, PendingInv, Dist
  <2>3. /\ Gap(ReadPos, WritePos) \in 0 .. WQSize - 1 /\ Gap(ReadPos, RReadPos) \in 0 .. WQSize - 1
    BY <2>1, GapLemma
  <2>4. n \in Nat /\ n < WQSize
    <3>1. pending \in Seq(Entry)
      BY DEF IInv, Types
    <3>2. Len(pending) \in Nat
      BY <3>1
    <3> QED BY <2>2, <2>3, <3>2
  <2>5. Gap(RReadPos, WritePos) = n
    <3>1. Gap(ReadPos, RReadPos) <= Gap(ReadPos, WritePos)
      BY <2>2, <2>3, <2>4
    <3> QED BY <2>1, <2>2, <3>1, GapLemma
  <2>6. (WritePos - RReadPos) % WQSize = Gap(RReadPos, WritePos)
    BY <2>1 DEF Gap
  <2>7. \A i \in 1 .. n : WQ[(RReadPos + i - 1) % WQSize] = pending[i]
    <3> SUFFICES ASSUME NEW i \in 1 .. n PROVE WQ[(RReadPos + i - 1) % WQSize] = pending[i]
      OBVIOUS
    <3>1. i - 1 \in 0 .. WQSize - 1
      BY <2>4
    <3>2. (RReadPos + i - 1) % WQSize = On(RReadPos, i - 1)
      BY <2>1, <3>1 DEF On
    <3>3. WQ[On(RReadPos, i - 1)] = pending[i]
      BY <2>2 DEF IInv, PendingInv, At
    <3> QED BY <3>2, <3>3
  <2> QED BY <2>2, <2>5, <2>6, <2>7 DEF RingHolds
<1> QED BY <1>1, InvLemma, PTL

\* DrawsIntoItsFrame (PPU_StartFrame, MTIF_Sync): whatever is drawn goes into the frame
\* that the call in progress asked for.
THEOREM InFrame == Spec => []DrawsIntoItsFrame
<1>1. IInv => DrawsIntoItsFrame
  <2> SUFFICES ASSUME IInv, rpc = "execute", Draws(command)
               PROVE  es = "espec" /\ mpc \in {"frame", "over", "synced"}
    BY DEF DrawsIntoItsFrame
  <2>1. command \in Asked
    BY DEF Asked
  <2> QED BY <2>1 DEF IInv, DrawInv, FrameInv, Shows
<1> QED BY <1>1, InvLemma, PTL

\* LinesAsAsked (RENDER_LINE, FETCH_SPRITE_DATA): each line shows the registers as they
\* were when it was reached, for any ring, any number of lines, any values.
THEOREM AsItWasAsked == Spec => []LinesAsAsked
<1>1. IInv => LinesAsAsked
  <2> SUFFICES ASSUME IInv, NEW l \in Lines, picture[l] # AsAsked
               PROVE  picture[l] = NotDrawn /\ mpc # "idle"
    BY DEF LinesAsAsked
  <2> QED BY DEF IInv, PictureInv, Shows
<1> QED BY <1>1, InvLemma, PTL

\* RestsBetweenFrames (PPU_StateAction, CopyStateToRenderer): when the emulating thread
\* writes the renderer's copy itself, the render thread has nothing left to do with it.
THEOREM AtRest == Spec => []RestsBetweenFrames
<1>1. IInv => RestsBetweenFrames
  BY RestLemma DEF RestsBetweenFrames, Resting, Rest
<1> QED BY <1>1, InvLemma, PTL
=============================================================================
