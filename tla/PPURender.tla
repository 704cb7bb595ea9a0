------------------------------ MODULE PPURender ------------------------------
(***************************************************************************)
(* The SNES picture is drawn by a second thread too, snes_faust's          *)
(* ppu_mtrender.  Unlike the Saturn's, its queue has two positions that    *)
(* each thread moves for itself and publishes now and then (TMP_WritePos,  *)
(* TMP_ReadPos), so that each thread sees the other's late.  An Emulate    *)
(* may run a frame ahead of time (SpecEx): a frame is emulated unseen, a   *)
(* state is saved, the next frame is emulated and shown, and the state     *)
(* loaded back.                                                            *)
(*                                                                         *)
(* Memory and registers are one value, as is what a line has fetched of    *)
(* the sprites for the next.  The semaphores only shorten the waits, all   *)
(* of which give up after a millisecond and look again; they are left out. *)
(***************************************************************************)
EXTENDS Integers, Sequences

CONSTANTS VisibleLines, WQSize, Values

ASSUME RenderAssumption ==
  VisibleLines \in Nat \ {0} /\ WQSize \in Nat \ {0, 1} /\ 0 \in Values

VARIABLES
  SpecEx, FrameBeginVBlank,              \* settings
  WQ, WritePos, ReadPos,                 \* the emulating thread's positions,
  TMP_WritePos, TMP_ReadPos,             \* those published,
  RWritePos, RReadPos,                   \* and the render thread's
  rpc, command,                          \* where the render thread is, with what
  mem, sprites, es,                      \* its copy of the chip; the frame it draws into
  PPU, scanline, LinePhase, SkipFrame,   \* the chip, emulated
  skip, SpecExSS,
  mpc, todo,                             \* where the emulating thread is, what it is
                                         \* still to queue or to wait for
  pending,                               \* history: what is queued and not yet taken
  fetched, want,                         \* history: what lines should show,
  picture                                \* and whether they do

settings == <<SpecEx, FrameBeginVBlank>>
ring == <<WQ, WritePos, ReadPos, TMP_WritePos, TMP_ReadPos, RWritePos, RReadPos, pending>>
renderer == <<rpc, command, mem, sprites>>
chip == <<PPU, scanline, LinePhase, SkipFrame>>
vars == <<settings, ring, renderer, es, chip, skip, SpecExSS, mpc, todo, fetched, want, picture>>

None == -1
Lines == 1 .. VisibleLines
VBlankLine == VisibleLines + 1
NotDrawn == "not drawn"
AsAsked == "as asked"
Otherwise == "otherwise"

Write(v) == [Command |-> "WRITE", v |-> v]
RENDER_LINE(l) == [Command |-> "RENDER_LINE", line |-> l]
RESET_LINE_TARGET == [Command |-> "RESET_LINE_TARGET"]
ENTER_VBLANK(s) == [Command |-> "ENTER_VBLANK", skip |-> s]
FETCH_SPRITE_DATA == [Command |-> "FETCH_SPRITE_DATA"]
EXIT == [Command |-> "EXIT"]
Publish == [Command |-> "publish"]    \* not commands: the two halves of Wakeup
Wait == [Command |-> "wait"]

Init ==
  /\ SpecEx \in BOOLEAN /\ FrameBeginVBlank \in BOOLEAN
  /\ WQ = [i \in 0 .. WQSize - 1 |-> EXIT]
  /\ WritePos = 0 /\ ReadPos = 0 /\ TMP_WritePos = 0 /\ TMP_ReadPos = 0
  /\ RWritePos = 0 /\ RReadPos = 0 /\ rpc = "publish" /\ command = EXIT
  /\ mem = 0 /\ sprites = 0 /\ es = "none"
  /\ PPU = 0 /\ scanline = 0 /\ LinePhase = 0 /\ SkipFrame = FALSE
  /\ skip = FALSE /\ SpecExSS = <<0, 0>>
  /\ mpc = "idle" /\ todo = <<>> /\ pending = <<>>
  /\ fetched = None /\ want = [l \in Lines |-> {}] /\ picture = [l \in Lines |-> AsAsked]

-----------------------------------------------------------------------------
(* The queue, from the emulating thread's side.                             *)

NextPos(pos) == (pos + 1) % WQSize

NeverFull == FALSE    \* mutant
Full == NextPos(WritePos) = ReadPos

\* The entry is stored in any case; if the ring seems full it waits until all before it
\* is done, and only then moves on.
WWQ ==
  /\ todo # <<>> /\ Head(todo) \notin {Publish, Wait}
  /\ WQ' = [WQ EXCEPT ![WritePos] = Head(todo)]
  /\ IF Full
       THEN todo' = <<Publish, Wait>> \o todo /\ UNCHANGED <<WritePos, pending>>
       ELSE /\ WritePos' = NextPos(WritePos) /\ todo' = Tail(todo)
            /\ pending' = Append(pending, Head(todo))
  /\ UNCHANGED <<settings, ReadPos, TMP_WritePos, TMP_ReadPos, RWritePos, RReadPos, renderer,
                 es, chip, skip, SpecExSS, mpc, fetched, want, picture>>

PublishWrites ==
  /\ todo # <<>> /\ Head(todo) = Publish
  /\ TMP_WritePos' = WritePos /\ ReadPos' = TMP_ReadPos /\ todo' = Tail(todo)
  /\ UNCHANGED <<settings, WQ, WritePos, TMP_ReadPos, RWritePos, RReadPos, pending, renderer,
                 es, chip, skip, SpecExSS, mpc, fetched, want, picture>>

WaitUntilEmpty ==
  /\ todo # <<>> /\ Head(todo) = Wait
  /\ TMP_ReadPos = WritePos
  /\ ReadPos' = TMP_ReadPos /\ todo' = Tail(todo)
  /\ UNCHANGED <<settings, WQ, WritePos, TMP_WritePos, TMP_ReadPos, RWritePos, RReadPos, pending,
                 renderer, es, chip, skip, SpecExSS, mpc, fetched, want, picture>>

SyncUnpublished == <<Wait>>    \* mutant
MTIF_Sync == <<Publish, Wait>>

-----------------------------------------------------------------------------
(* Emulation.                                                               *)

Emulating == mpc \in {"ahead", "frame"} /\ todo = <<>>

\* Mutant: a write is carried out at once when all before it is published.
WriteIfPublished(v) ==
  IF WritePos = TMP_WritePos THEN mem' = v /\ UNCHANGED todo
  ELSE todo' = <<Write(v)>> /\ UNCHANGED mem
MTIF_Write(v) == todo' = <<Write(v)>> /\ UNCHANGED mem

PPU_Write(v) ==
  /\ Emulating
  /\ PPU' = v /\ MTIF_Write(v)
  /\ UNCHANGED <<settings, ring, rpc, command, sprites, es, scanline, LinePhase, SkipFrame, skip,
                 SpecExSS, mpc, fetched, want, picture>>

\* A line begins; at one of two lines the frame is over.
FrameEndsAt == IF FrameBeginVBlank THEN VBlankLine ELSE 0
BeginLine ==
  /\ Emulating /\ LinePhase = 3
  /\ LinePhase' = 0 /\ scanline' = (scanline + 1) % (VBlankLine + 1)
  /\ todo' = IF scanline' # VBlankLine THEN <<>>
             ELSE IF SkipFrame THEN <<ENTER_VBLANK(TRUE), Publish>>
             ELSE <<ENTER_VBLANK(FALSE)>>
  /\ mpc' = IF scanline' = FrameEndsAt THEN (IF mpc = "ahead" THEN "ahead over" ELSE "over")
            ELSE mpc
  /\ UNCHANGED <<settings, ring, renderer, es, PPU, SkipFrame, skip, SpecExSS, fetched, want, picture>>

Shown(m, s) == [mem |-> m, sprites |-> s]

\* The line is drawn.  Whether the frame is skipped is looked at in its first line.
RenderPhase ==
  /\ Emulating /\ LinePhase = 0
  /\ LinePhase' = 1
  /\ SkipFrame' = IF scanline = 1 THEN skip ELSE SkipFrame
  /\ LET drawn == scanline \in Lines /\ ~ SkipFrame'
     IN  /\ todo' = (IF scanline = 1 /\ drawn THEN <<RESET_LINE_TARGET>> ELSE <<>>)
                    \o (IF drawn THEN <<RENDER_LINE(scanline), Publish>> ELSE <<>>)
         /\ want' = IF ~ drawn THEN want
                    ELSE [want EXCEPT ![scanline] =
                            {Shown(PPU, s) : s \in IF fetched = None THEN Values ELSE {fetched}}]
  /\ UNCHANGED <<settings, ring, renderer, es, PPU, scanline, skip, SpecExSS, mpc, fetched, picture>>

\* The sprites are fetched for the next line; not when the frame is skipped, which in
\* line 0 means the frame before.
HBlank ==
  /\ Emulating /\ LinePhase = 1
  /\ LinePhase' = 3
  /\ IF scanline = VBlankLine THEN UNCHANGED <<todo, fetched>>
     ELSE /\ todo' = IF SkipFrame THEN <<>> ELSE <<FETCH_SPRITE_DATA>>
          /\ fetched' = IF SkipFrame THEN None ELSE PPU
  /\ UNCHANGED <<settings, ring, renderer, es, PPU, scanline, SkipFrame, skip, SpecExSS, mpc, want,
                 picture>>

-----------------------------------------------------------------------------
(* Frames.  The renderer's frame is set by this thread, not through the queue. *)

PPU_StartFrame(frame, s) ==
  /\ es' = frame /\ skip' = s
  /\ picture' = [l \in Lines |-> IF s THEN picture[l] ELSE NotDrawn]

AheadAsAsked(s) == s    \* mutant
SkipAhead(s) == TRUE

\* The skip that counts: an interlaced frame is not skipped.
Emulate(s) ==
  /\ mpc = "idle"
  /\ IF SpecEx
       THEN mpc' = "ahead" /\ es' = "tmp_espec" /\ skip' = SkipAhead(s) /\ UNCHANGED picture
       ELSE mpc' = "frame" /\ PPU_StartFrame("espec", s)
  /\ UNCHANGED <<settings, ring, renderer, chip, SpecExSS, todo, fetched, want>>

EmulateShown(s) ==
  /\ mpc = "ahead over" /\ todo = <<>>
  /\ SpecExSS' = <<PPU, scanline>>
  /\ mpc' = "frame" /\ PPU_StartFrame("espec", s)
  /\ UNCHANGED <<settings, ring, renderer, chip, todo, fetched, want>>

PPU_SyncMT ==
  /\ mpc = "over" /\ todo = <<>>
  /\ mpc' = "synced" /\ todo' = MTIF_Sync
  /\ UNCHANGED <<settings, ring, renderer, es, chip, skip, SpecExSS, fetched, want, picture>>

\* A state is loaded into both copies of the chip (CopyStateToRenderer).
LoadSM(v, line) ==
  /\ PPU' = v /\ mem' = v /\ scanline' = line /\ LinePhase' = 0

EmulateReturns ==
  /\ mpc = "synced" /\ todo = <<>> /\ mpc' = "idle"
  /\ IF SpecEx THEN LoadSM(SpecExSS[1], SpecExSS[2])
     ELSE UNCHANGED <<PPU, mem, scanline, LinePhase>>
  /\ UNCHANGED <<settings, ring, rpc, command, sprites, es, SkipFrame, skip, SpecExSS, todo,
                 fetched, want, picture>>

\* Between frames: a state is loaded, or the chip reset.
PPU_StateAction(v) ==
  /\ mpc = "idle"
  /\ LoadSM(v, scanline)
  /\ UNCHANGED <<settings, ring, rpc, command, sprites, es, SkipFrame, skip, SpecExSS, mpc, todo,
                 fetched, want, picture>>

SendExit == todo' = <<EXIT, Publish>>
MTIF_Kill ==
  /\ mpc = "idle" /\ mpc' = "kill" /\ SendExit
  /\ UNCHANGED <<settings, ring, renderer, es, chip, skip, SpecExSS, fetched, want, picture>>

Join ==
  /\ mpc = "kill" /\ todo = <<>> /\ rpc = "done" /\ mpc' = "gone"
  /\ UNCHANGED <<settings, ring, renderer, es, chip, skip, SpecExSS, todo, fetched, want, picture>>

Calls == \/ \E s \in BOOLEAN : Emulate(s)
         \/ \E v \in Values : PPU_StateAction(v)
         \/ MTIF_Kill
Frame == \/ \E v \in Values : PPU_Write(v)
         \/ \E s \in BOOLEAN : EmulateShown(s)
         \/ BeginLine \/ RenderPhase \/ HBlank
Committed == WWQ \/ PublishWrites \/ WaitUntilEmpty \/ PPU_SyncMT \/ EmulateReturns \/ Join

-----------------------------------------------------------------------------
(* The render thread.                                                       *)

PublishReads ==
  /\ rpc = "publish" /\ rpc' = "poll"
  /\ TMP_ReadPos' = RReadPos
  /\ UNCHANGED <<settings, WQ, WritePos, ReadPos, TMP_WritePos, RWritePos, RReadPos, pending, command,
                 mem, sprites, es, chip, skip, SpecExSS, mpc, todo, fetched, want, picture>>

Poll ==
  /\ rpc = "poll" /\ RWritePos' = TMP_WritePos
  /\ rpc' = IF RWritePos' = RReadPos THEN "poll" ELSE "take"
  /\ UNCHANGED <<settings, WQ, WritePos, ReadPos, TMP_WritePos, TMP_ReadPos, RReadPos, pending,
                 command, mem, sprites, es, chip, skip, SpecExSS, mpc, todo, fetched, want, picture>>

\* The position is published again when all that was seen is done.
PublishedTaking == TMP_ReadPos' = RReadPos'    \* mutant
TakeQuietly == UNCHANGED TMP_ReadPos

Take ==
  /\ rpc = "take" /\ RReadPos # RWritePos
  /\ command' = WQ[RReadPos] /\ RReadPos' = NextPos(RReadPos) /\ rpc' = "execute"
  /\ pending' = Tail(pending)
  /\ TakeQuietly
  /\ UNCHANGED <<settings, WQ, WritePos, ReadPos, TMP_WritePos, RWritePos, mem,
                 sprites, es, chip, skip, SpecExSS, mpc, todo, fetched, want, picture>>

\* The register is written in the renderer's copy of the chip.
Store(v) == mem' = v

\* Nothing is queued after EXIT.
Execute ==
  /\ rpc = "execute"
  /\ rpc' = IF command = EXIT THEN "done" ELSE IF RReadPos = RWritePos THEN "publish" ELSE "take"
  /\ IF command.Command = "WRITE" THEN Store(command.v) ELSE UNCHANGED mem
  /\ sprites' = IF command = FETCH_SPRITE_DATA THEN mem ELSE sprites
  /\ IF command.Command = "RENDER_LINE"
       THEN /\ picture' = [picture EXCEPT ![command.line] =
                             IF Shown(mem, sprites) \in want[command.line]
                               THEN AsAsked ELSE Otherwise]
            /\ want' = [want EXCEPT ![command.line] = {}]
       ELSE UNCHANGED <<picture, want>>
  /\ UNCHANGED <<settings, ring, command, es, chip, skip, SpecExSS, mpc, todo, fetched>>

RThreadEntry == PublishReads \/ Poll \/ Take \/ Execute

Next == Calls \/ Frame \/ Committed \/ RThreadEntry

Spec == Init /\ [][Next]_vars /\ WF_vars(RThreadEntry) /\ WF_vars(Committed)

-----------------------------------------------------------------------------
Entry == {Write(v) : v \in Values} \cup {RENDER_LINE(l) : l \in Lines}
         \cup {ENTER_VBLANK(s) : s \in BOOLEAN} \cup {RESET_LINE_TARGET, FETCH_SPRITE_DATA, EXIT}
Positions == 0 .. WQSize - 1

TypeOK ==
  /\ SpecEx \in BOOLEAN /\ FrameBeginVBlank \in BOOLEAN
  /\ WQ \in [Positions -> Entry]
  /\ {WritePos, ReadPos, TMP_WritePos, TMP_ReadPos, RWritePos, RReadPos} \subseteq Positions
  /\ rpc \in {"publish", "poll", "take", "execute", "done"} /\ command \in Entry
  /\ mem \in Values /\ sprites \in Values /\ es \in {"none", "tmp_espec", "espec"}
  /\ PPU \in Values /\ scanline \in 0 .. VBlankLine /\ LinePhase \in {0, 1, 3}
  /\ SkipFrame \in BOOLEAN /\ skip \in BOOLEAN /\ SpecExSS \in Values \X (0 .. VBlankLine)
  /\ mpc \in {"idle", "ahead", "ahead over", "frame", "over", "synced", "kill", "gone"}
  /\ todo \in Seq(Entry \cup {Publish, Wait}) /\ pending \in Seq(Entry)
  /\ fetched \in Values \cup {None}
  /\ want \in [Lines -> SUBSET [mem : Values, sprites : Values]]
  /\ picture \in [Lines -> {NotDrawn, AsAsked, Otherwise}]

\* What lies in the ring between the render thread's position and the emulating
\* thread's is exactly what was queued and is not yet taken: nothing is overwritten or
\* taken twice, although each side knows the other's position only as it was.
RingHolds ==
  /\ (WritePos - RReadPos) % WQSize = Len(pending)
  /\ \A i \in 1 .. Len(pending) : WQ[(RReadPos + i - 1) % WQSize] = pending[i]

\* The render thread draws only into the frame that is shown, and only as long as the
\* call that asked for it has not returned.
Draws(c) == c.Command \in {"RENDER_LINE", "RESET_LINE_TARGET"} \/ c = ENTER_VBLANK(FALSE)
DrawsIntoItsFrame ==
  rpc = "execute" /\ Draws(command) => es = "espec" /\ mpc \in {"frame", "over", "synced"}

\* Each line shows the chip as it was when the line was reached, and its sprites as
\* they were a line before; a frame that is not skipped has them all.  (What a line
\* shows of sprites that were not asked for, after a skipped frame, is left open.)
LinesAsAsked ==
  \A l \in Lines : \/ picture[l] = AsAsked
                   \/ picture[l] = NotDrawn /\ mpc # "idle"

\* When the emulating thread writes into the renderer's copy of the chip, the render
\* thread has nothing to do, and the two copies agree.
RestsBetweenFrames ==
  (mpc = "idle" \/ (mpc = "synced" /\ todo = <<>>))
    => pending = <<>> /\ rpc \in {"publish", "poll"} /\ mem = PPU

\* A full ring is waited for and emptied; the render thread catches up and ends.
WaitsEnd == todo # <<>> ~> todo = <<>>
=============================================================================
