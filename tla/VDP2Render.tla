------------------------------ MODULE VDP2Render ------------------------------
(***************************************************************************)
(* The Saturn's picture is drawn by a second thread, ss/vdp2_render.cpp:   *)
(* the emulating thread queues every write to the video chip and every     *)
(* line in WQ, and the render thread carries them out on a copy of the     *)
(* chip's memory.  What a line needs besides (LIB) is not queued but       *)
(* handed over in place.                                                   *)
(*                                                                         *)
(* The ring WQ is the sequence of its entries, the one being carried out   *)
(* included; WQ_InCount is its length.  Memory, registers and the mask of  *)
(* layers are one value.                                                   *)
(***************************************************************************)
EXTENDS Integers, Sequences

CONSTANTS VisibleLines, bwthresh,
          WakeupLag,   \* lines that may wait before the render thread is woken
          WQSize, Values

ASSUME RenderAssumption ==
  /\ VisibleLines \in Nat \ {0} /\ bwthresh \in 0 .. VisibleLines
  /\ WakeupLag \in Nat /\ WQSize \in Nat \ {0} /\ 0 \in Values

VARIABLES
  WQ, DrawCounter,
  WakeupSem,            \* counts above 1 are not told apart
  DoBusyWait, mem,      \* the render thread's
  LIB,
  espec,                \* the frame drawn into: None, or its field
  DoWakeupIfNecessary, NextOutLine, VCounter,
  tpc, mpc,             \* where the render thread and the emulating one are
  todo,                 \* what the emulating thread is still to queue
  picture,              \* what each line of the frame shows
  asked, want,          \* history: what the memory should come to, and each line
                        \* not yet drawn should show
  restarted             \* history: the chip was reset in this frame

thread == <<DoBusyWait, mem, tpc>>
lines == <<LIB, espec, DoWakeupIfNecessary, NextOutLine, VCounter>>
history == <<asked, want, restarted>>
vars == <<WQ, DrawCounter, WakeupSem, thread, lines, mpc, todo, picture, history>>

None == -1
Border == -1
NotDrawn == "not drawn"
AsAsked == "as asked"
Otherwise == "otherwise"
Lines == 0 .. (VisibleLines - 1)

Write(v) == [Command |-> "WRITE", v |-> v]
DRAW_LINE(l, v, f) == [Command |-> "DRAW_LINE", line |-> l, vdp2_line |-> v, field |-> f]
SET_BUSYWAIT(b) == [Command |-> "SET_BUSYWAIT", on |-> b]
RESET == [Command |-> "RESET"]
EXIT == [Command |-> "EXIT"]
Wakeup == [Command |-> "post"]    \* not a command: Sem_Post(WakeupSem)

Init ==
  /\ WQ = <<>> /\ DrawCounter = 0 /\ WakeupSem = 0
  /\ DoBusyWait = FALSE /\ mem = 0 /\ tpc = "look"
  /\ LIB = [l \in Lines |-> 0] /\ espec = None
  /\ DoWakeupIfNecessary = FALSE /\ NextOutLine = 0 /\ VCounter = 0
  /\ mpc = "run" /\ todo = <<>>
  /\ picture = [l \in Lines |-> AsAsked] /\ want = [l \in Lines |-> {}]
  /\ asked = 0 /\ restarted = FALSE

-----------------------------------------------------------------------------
(* The emulating thread.                                                    *)

HasRoom == Len(WQ) # WQSize

\* WWQ sleeps for a while, and looks again, as long as the ring is full.
WWQ ==
  /\ todo # <<>> /\ Head(todo) # Wakeup /\ HasRoom
  /\ WQ' = Append(WQ, Head(todo)) /\ todo' = Tail(todo)
  /\ UNCHANGED <<DrawCounter, WakeupSem, thread, lines, mpc, picture, history>>

Post ==
  /\ todo # <<>> /\ Head(todo) = Wakeup
  /\ WakeupSem' = 1 /\ todo' = Tail(todo)
  /\ UNCHANGED <<WQ, DrawCounter, thread, lines, mpc, picture, history>>

Running == mpc = "run" /\ todo = <<>>

QueueWrite(v) == todo' = <<Write(v)>> /\ UNCHANGED mem

VDP2REND_Write(v) ==
  /\ Running
  /\ asked' = v /\ QueueWrite(v)
  /\ UNCHANGED <<WQ, DrawCounter, WakeupSem, DoBusyWait, tpc, lines, mpc, picture,
                 want, restarted>>

\* The clock is changed, or the machine reset: the chip starts at line 0 again, even
\* in the middle of a frame, and shows nothing more in it.
VDP2REND_Reset ==
  /\ Running
  /\ asked' = 0
  /\ VCounter' = 0 /\ restarted' = (restarted \/ espec # None)
  /\ todo' = <<RESET>>
  /\ UNCHANGED <<WQ, DrawCounter, WakeupSem, thread, LIB, espec, DoWakeupIfNecessary,
                 NextOutLine, mpc, picture, want>>

VDP2REND_StartFrame(field) ==
  /\ Running /\ espec = None
  /\ espec' = field /\ NextOutLine' = 0 /\ VCounter' = 0
  /\ picture' = [l \in Lines |-> NotDrawn] /\ restarted' = FALSE
  /\ UNCHANGED <<WQ, DrawCounter, WakeupSem, thread, LIB, DoWakeupIfNecessary, mpc,
                 todo, asked, want>>

\* The render thread is woken once when many lines wait, and once near the end of the
\* frame, where it is told not to sleep again.
WakeupDue(waiting) == waiting # 0 /\ waiting + 1 >= WakeupLag /\ DoWakeupIfNecessary
DrawLine(l, v) ==
  /\ DrawCounter' = DrawCounter + 1
  /\ todo' = <<DRAW_LINE(l, v, espec)>>
             \o (CASE l = bwthresh -> <<SET_BUSYWAIT(TRUE), Wakeup>>
                   [] l < bwthresh /\ WakeupDue(DrawCounter) -> <<Wakeup>>
                   [] OTHER -> <<>>)
  /\ DoWakeupIfNecessary' = IF l >= bwthresh THEN DoWakeupIfNecessary
                            ELSE DrawCounter = 0 \/ (DoWakeupIfNecessary /\ ~ WakeupDue(DrawCounter))
  /\ NextOutLine' = l + 1

TwoSlots(line) == line % 2    \* mutant
GetLIB(line) == line

Shown(v, m, lib) == [mem |-> m, lib |-> IF v = Border THEN 0 ELSE lib[GetLIB(v)]]

\* A line of the active display; its LIB is filled in first.
FillLIB(x) ==
  /\ Running /\ espec # None /\ VCounter < VisibleLines
  /\ LIB' = [LIB EXCEPT ![GetLIB(VCounter)] = x]
  /\ VCounter' = VCounter + 1
  /\ UNCHANGED <<WQ, WakeupSem, thread, espec, mpc, picture, asked, restarted>>

VDP2REND_DrawLine(x) ==
  /\ NextOutLine < VisibleLines
  /\ FillLIB(x)
  /\ \E v \in IF restarted THEN {Border} ELSE {Border, VCounter} :
       /\ DrawLine(NextOutLine, v)
       /\ want' = [want EXCEPT ![NextOutLine] = {Shown(v, asked, LIB')}]

\* After a reset the active display may reach past the last line of the frame.
LineOutside(x) ==
  /\ NextOutLine = VisibleLines
  /\ FillLIB(x)
  /\ UNCHANGED <<DrawCounter, DoWakeupIfNecessary, NextOutLine, todo, want>>

\* The top and bottom borders.
DrawBorder ==
  /\ Running /\ espec # None /\ NextOutLine < VisibleLines
  /\ DrawLine(NextOutLine, Border)
  /\ want' = [want EXCEPT ![NextOutLine] = {Shown(Border, asked, LIB)}]
  /\ UNCHANGED <<WQ, WakeupSem, thread, LIB, espec, VCounter, mpc, picture, asked, restarted>>

CallEndFrame ==
  /\ Running /\ espec # None /\ mpc' = "ending"
  /\ UNCHANGED <<WQ, DrawCounter, WakeupSem, thread, lines, todo, picture, history>>

\* It spins until no line waits, and blackens the lines it was not asked to draw; the
\* wait for room in the ring (WWQ) then holds nobody else up.
AllDrawn == DrawCounter = 0
VDP2REND_EndFrame ==
  /\ mpc = "ending" /\ AllDrawn
  /\ todo' = <<SET_BUSYWAIT(FALSE)>> /\ mpc' = "run"
  /\ picture' = [l \in Lines |-> IF l < NextOutLine THEN picture[l] ELSE AsAsked]
  /\ NextOutLine' = VisibleLines /\ espec' = None
  /\ UNCHANGED <<WQ, DrawCounter, WakeupSem, thread, LIB, DoWakeupIfNecessary,
                 VCounter, history>>

CallStateAction ==
  /\ Running /\ espec = None /\ mpc' = "state"
  /\ UNCHANGED <<WQ, DrawCounter, WakeupSem, thread, lines, todo, picture, history>>

\* A state is saved, or loaded over both copies of the memory by this thread.
SaveAtOnce == TRUE    \* mutant
AllDone == WQ = <<>>

VDP2REND_StateAction ==
  /\ mpc = "state" /\ AllDone
  /\ mpc' = "run"
  /\ \/ UNCHANGED <<mem, asked>>
     \/ \E v \in Values : mem' = v /\ asked' = v
  /\ UNCHANGED <<WQ, DrawCounter, WakeupSem, DoBusyWait, tpc, lines, todo, picture,
                 want, restarted>>

KillUnasked == todo' = <<>>    \* mutant
SendExit == todo' = <<EXIT>>
VDP2REND_Kill ==
  /\ Running /\ espec = None
  /\ SendExit /\ mpc' = "kill"
  /\ UNCHANGED <<WQ, DrawCounter, WakeupSem, thread, lines, picture, history>>

Join ==
  /\ mpc = "kill" /\ todo = <<>> /\ tpc = "done" /\ mpc' = "gone"
  /\ UNCHANGED <<WQ, DrawCounter, WakeupSem, thread, lines, todo, picture, history>>

\* What the emulating thread does of itself, and what it then cannot put off.
Emulation == \/ \E v \in Values : VDP2REND_Write(v)
             \/ \E field \in {0, 1} : VDP2REND_StartFrame(field)
             \/ \E x \in Values : VDP2REND_DrawLine(x) \/ LineOutside(x)
             \/ VDP2REND_Reset \/ DrawBorder \/ CallEndFrame \/ CallStateAction
             \/ VDP2REND_Kill
Committed == WWQ \/ Post \/ VDP2REND_EndFrame \/ VDP2REND_StateAction \/ Join

-----------------------------------------------------------------------------
(* The render thread.                                                       *)

Look ==
  /\ tpc = "look" /\ WQ = <<>> /\ ~ DoBusyWait
  /\ tpc' = "sleep"
  /\ UNCHANGED <<WQ, DrawCounter, WakeupSem, DoBusyWait, mem, lines, mpc, todo,
                 picture, history>>

\* Sem_TimedWait: taken, or given up after a millisecond.
UntimedWait == WakeupSem = 1 /\ WakeupSem' = 0    \* mutant
TimedWait == WakeupSem' = 0

Sleep ==
  /\ tpc = "sleep" /\ TimedWait /\ tpc' = "look"
  /\ UNCHANGED <<WQ, DrawCounter, DoBusyWait, mem, lines, mpc, todo, picture, history>>

\* The line is counted off when it has been drawn.
CountedEarly == tpc = "look" /\ Head(WQ).Command = "DRAW_LINE"    \* mutant
Counted == tpc = "draw"
CountOff == DrawCounter' = IF Counted THEN DrawCounter - 1 ELSE DrawCounter

\* A write leaves the chip as the writer's own copy was left; which cell or register
\* it was is not told apart.
MemW(v) == mem' = v

\* The registers after a reset; that VRAM outlives one without powering up, in the
\* writer's copy and in this one alike, is part of the abstraction to one value.
Reset == mem' = 0

Execute ==
  /\ tpc = "look" /\ WQ # <<>>
  /\ LET wqe == Head(WQ) IN
       /\ CASE wqe.Command = "WRITE" -> MemW(wqe.v)
            [] wqe.Command = "RESET" -> Reset
            [] OTHER -> UNCHANGED mem
       /\ DoBusyWait' = IF wqe.Command = "SET_BUSYWAIT" THEN wqe.on ELSE DoBusyWait
       /\ tpc' = IF wqe.Command = "DRAW_LINE" THEN "draw" ELSE "next"
  /\ CountOff
  /\ UNCHANGED <<WQ, WakeupSem, lines, mpc, todo, picture, history>>

FinishLine ==
  /\ tpc = "draw" /\ tpc' = "next"
  /\ LET wqe == Head(WQ)
         shown == Shown(wqe.vdp2_line, mem, LIB)
     IN  /\ picture' = [picture EXCEPT ![wqe.line] =
                          IF want[wqe.line] = {shown} THEN AsAsked ELSE Otherwise]
         /\ want' = [want EXCEPT ![wqe.line] = {}]
  /\ CountOff
  /\ UNCHANGED <<WQ, WakeupSem, DoBusyWait, mem, lines, mpc, todo, asked, restarted>>

NextEntry ==
  /\ tpc = "next"
  /\ tpc' = IF Head(WQ) = EXIT THEN "done" ELSE "look"
  /\ WQ' = Tail(WQ)
  /\ UNCHANGED <<DrawCounter, WakeupSem, DoBusyWait, mem, lines, mpc,
                 todo, picture, history>>

RThreadEntry == Look \/ Sleep \/ Execute \/ FinishLine \/ NextEntry

Next == Emulation \/ Committed \/ RThreadEntry

Spec == Init /\ [][Next]_vars /\ WF_vars(Committed) /\ WF_vars(RThreadEntry)

-----------------------------------------------------------------------------
Entry == {Write(v) : v \in Values} \cup {SET_BUSYWAIT(b) : b \in BOOLEAN} \cup {RESET, EXIT}
         \cup [Command : {"DRAW_LINE"}, line : Lines, vdp2_line : Lines \cup {Border},
               field : {0, 1}]

TypeOK ==
  /\ WQ \in Seq(Entry) /\ Len(WQ) <= WQSize
  /\ DrawCounter \in 0 .. VisibleLines /\ WakeupSem \in {0, 1}
  /\ DoBusyWait \in BOOLEAN /\ mem \in Values
  /\ LIB \in [Lines -> Values] /\ espec \in {None, 0, 1}
  /\ DoWakeupIfNecessary \in BOOLEAN
  /\ NextOutLine \in 0 .. VisibleLines /\ VCounter \in 0 .. VisibleLines
  /\ tpc \in {"look", "sleep", "draw", "next", "done"}
  /\ mpc \in {"run", "ending", "state", "kill", "gone"}
  /\ todo \in Seq(Entry \cup {Wakeup})
  /\ picture \in [Lines -> {NotDrawn, AsAsked, Otherwise}]
  /\ want \in [Lines -> SUBSET [mem : Values, lib : Values]]
  /\ asked \in Values /\ restarted \in BOOLEAN

\* Every line of the picture is drawn with the memory, and the line's own data, as
\* they were when it was asked for, however far behind the render thread is; and when
\* a frame has ended none is missing.  (Not: a frame in which the chip was reset,
\* whose first lines' LIB may be written again before they are drawn.)
FramesAsAsked ==
  ~ restarted => \A l \in Lines : \/ picture[l] = AsAsked
                                  \/ picture[l] = NotDrawn /\ espec # None

\* A line is drawn only into the frame it was asked for, while that is still there.
DrawsIntoItsFrame == tpc = "draw" => Head(WQ).field = espec

\* A state is saved or loaded when both copies of the memory agree and the render
\* thread is touching nothing.
StateInStep == mpc = "state" /\ AllDone => mem = asked /\ tpc \in {"look", "sleep"}

\* Whatever the emulating thread waits for comes: room in the ring, the end of a
\* frame, an empty ring, the end of the render thread.
CallsReturn == (mpc # "run" \/ todo # <<>>) ~> (mpc \in {"run", "gone"} /\ todo = <<>>)

\* Every line asked for is drawn, even if nothing more is ever queued.
LinesGetDrawn == \A l \in Lines : want[l] # {} ~> want[l] = {}
=============================================================================
