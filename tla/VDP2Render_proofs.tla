-------------------------- MODULE VDP2Render_proofs --------------------------
(***************************************************************************)
(* Proofs about VDP2Render for any number of lines, any queue and any set  *)
(* of values of the chip's memory.                                         *)
(***************************************************************************)
EXTENDS VDP2Render, TLAPS

-----------------------------------------------------------------------------
(* The inductive invariant *)

Types ==
  /\ WQ \in Seq(Entry) /\ todo \in Seq(Entry \cup {Wakeup})
  /\ DrawCounter \in Nat /\ NextOutLine \in 0 .. VisibleLines
  /\ VCounter \in 0 .. VisibleLines
  /\ LIB \in [Lines -> Values] /\ espec \in {None, 0, 1}
  /\ mem \in Values /\ asked \in Values /\ restarted \in BOOLEAN
  /\ picture \in [Lines -> {NotDrawn, AsAsked, Otherwise}]
  /\ want \in [Lines -> SUBSET [mem : Values, lib : Values]]
  /\ tpc \in {"look", "sleep", "draw", "next", "done"}

\* What is still to be queued, and for whom: only its first entry may be a line, or
\* change the memory.
TodoInv ==
  /\ todo # <<>> => mpc \in {"run", "kill"}
  /\ \A i \in 2 .. Len(todo) : todo[i] \in {SET_BUSYWAIT(TRUE), Wakeup}

\* Where the render thread is.
ThreadInv ==
  /\ tpc \in {"draw", "next"} => WQ # <<>>
  /\ tpc = "draw" => WQ[1].Command = "DRAW_LINE"

\* The render thread ends only when it is told to.
ExitInv ==
  /\ tpc = "done" => mpc \in {"kill", "gone"}
  /\ \A i \in 1 .. Len(WQ) : WQ[i] = EXIT => mpc \in {"kill", "gone"}
  /\ todo # <<>> /\ todo[1] = EXIT => mpc \in {"kill", "gone"}

\* The lines queued and not yet drawn, and the one about to be queued.
Queued(i) == WQ[i].Command = "DRAW_LINE" /\ ~ (i = 1 /\ tpc = "next")
ToQueue == todo # <<>> /\ todo[1].Command = "DRAW_LINE"
FirstLine == NextOutLine - DrawCounter
InRing == IF ToQueue THEN NextOutLine - 1 ELSE NextOutLine

\* They are the last DrawCounter lines of the frame so far, in their order.
LinesInv ==
  /\ 0 <= FirstLine /\ FirstLine <= InRing
  /\ espec = None => DrawCounter = 0
  /\ \A i \in 1 .. Len(WQ) :
       Queued(i) => WQ[i].line \in FirstLine .. (InRing - 1) /\ WQ[i].field = espec
  /\ \A i, j \in 1 .. Len(WQ) : i < j /\ Queued(i) /\ Queued(j) => WQ[i].line < WQ[j].line
  /\ \A l \in FirstLine .. (InRing - 1) : \E i \in 1 .. Len(WQ) : Queued(i) /\ WQ[i].line = l
  /\ ToQueue => todo[1].line = NextOutLine - 1 /\ todo[1].field = espec

\* The memory after an entry is carried out.
Effect(e, m) == CASE e.Command = "WRITE" -> e.v [] e.Command = "RESET" -> 0 [] OTHER -> m

\* h[i] is the memory as it will be after the entries up to i: from what it is now to
\* what was asked.
Replay(h) ==
  /\ h \in [0 .. Len(WQ) -> Values]
  /\ h[IF tpc = "next" THEN 1 ELSE 0] = mem
  /\ \A i \in 1 .. Len(WQ) : h[i] = Effect(WQ[i], h[i - 1])
  /\ asked = IF todo = <<>> THEN h[Len(WQ)] ELSE Effect(todo[1], h[Len(WQ)])

\* What a line of the active display shows is filled in, and not yet written again.
Expected(e, m) ==
  /\ want[e.line] = {Shown(e.vdp2_line, m, LIB)}
  /\ e.vdp2_line = Border \/ e.vdp2_line < VCounter

WantInv(h) ==
  ~ restarted =>
    /\ \A i \in 1 .. Len(WQ) : Queued(i) => Expected(WQ[i], h[i - 1])
    /\ ToQueue => Expected(todo[1], asked)

MemInv == \E h \in [0 .. Len(WQ) -> Values] : Replay(h) /\ WantInv(h)

PictureInv ==
  ~ restarted => \A l \in Lines :
     picture[l] = IF espec # None /\ l >= FirstLine THEN NotDrawn ELSE AsAsked

IInv == Types /\ TodoInv /\ ThreadInv /\ ExitInv /\ LinesInv /\ MemInv /\ PictureInv

USE RenderAssumption DEF None, Border

\* The drawn lines alone, for the steps that neither queue nor draw.
lineState == <<WQ, todo, tpc, DrawCounter, NextOutLine, espec>>

LEMMA EntryLemma ==
  /\ \A v \in Values : Write(v) \in Entry /\ Write(v).Command = "WRITE" /\ Write(v).v = v
  /\ \A b \in BOOLEAN : SET_BUSYWAIT(b) \in Entry /\ SET_BUSYWAIT(b).Command = "SET_BUSYWAIT"
  /\ SET_BUSYWAIT(FALSE) \in Entry /\ SET_BUSYWAIT(TRUE) \in Entry
  /\ RESET \in Entry /\ RESET.Command = "RESET"
  /\ EXIT \in Entry /\ EXIT.Command = "EXIT"
  /\ Wakeup.Command = "post"
  /\ \A l \in Lines, v \in Lines \cup {Border}, f \in {0, 1} :
       /\ DRAW_LINE(l, v, f) \in Entry /\ DRAW_LINE(l, v, f).Command = "DRAW_LINE"
       /\ DRAW_LINE(l, v, f).line = l /\ DRAW_LINE(l, v, f).vdp2_line = v
       /\ DRAW_LINE(l, v, f).field = f
BY DEF Entry, Write, SET_BUSYWAIT, RESET, EXIT, Wakeup, DRAW_LINE

LEMMA OneLemma ==
  ASSUME NEW S, NEW e \in S
  PROVE  <<e>> \in Seq(S) /\ Len(<<e>>) = 1 /\ <<e>>[1] = e /\ <<e>> # <<>>
OBVIOUS

LEMMA TwoLemma ==
  ASSUME NEW S, NEW a \in S, NEW b \in S
  PROVE  /\ <<a, b>> \in Seq(S) /\ Len(<<a, b>>) = 2
         /\ <<a, b>>[1] = a /\ <<a, b>>[2] = b
OBVIOUS

LEMMA DrawLemma ==
  ASSUME NEW e \in Entry \cup {Wakeup}, e.Command = "DRAW_LINE"
  PROVE  e.line \in Lines /\ e.vdp2_line \in Lines \cup {Border} /\ e.field \in {0, 1}
BY DEF Entry, Write, SET_BUSYWAIT, RESET, EXIT, Wakeup

LEMMA EffectLemma ==
  ASSUME NEW e \in Entry \cup {Wakeup}, NEW m \in Values
  PROVE  Effect(e, m) \in Values
BY DEF Entry, Write, SET_BUSYWAIT, RESET, EXIT, Wakeup, DRAW_LINE, Effect

-----------------------------------------------------------------------------
(* Steps that touch neither the ring nor the lines.                         *)

LEMMA InitLemma == Init => IInv
<1> SUFFICES ASSUME Init PROVE IInv
  OBVIOUS
<1>1. Types /\ TodoInv /\ ThreadInv /\ ExitInv /\ PictureInv
  BY DEF Init, Types, TodoInv, ThreadInv, ExitInv, PictureInv, Lines
<1>2. LinesInv
  BY DEF Init, LinesInv, FirstLine, InRing, ToQueue
<1>3. MemInv
  <2> DEFINE h == [i \in 0 .. 0 |-> 0]
  <2>1. Replay(h) /\ WantInv(h) /\ h \in [0 .. Len(WQ) -> Values]
    BY DEF Init, Replay, WantInv, ToQueue
  <2> QED BY <2>1 DEF MemInv
<1> QED BY <1>1, <1>2, <1>3 DEF IInv

LEMMA QuietLemma ==
  ASSUME IInv, CallEndFrame \/ CallStateAction \/ Join \/ Look \/ Sleep \/ UNCHANGED vars
  PROVE  IInv'
<1>1. /\ UNCHANGED <<WQ, todo, DrawCounter, NextOutLine, VCounter, LIB, espec, mem, asked,
                     restarted, picture, want>>
      /\ tpc' \in {"look", "sleep", "draw", "next", "done"}
      /\ tpc = tpc' \/ {tpc, tpc'} \subseteq {"look", "sleep"}
      /\ mpc' = mpc \/ todo = <<>>
      /\ mpc \in {"kill", "gone"} => mpc' \in {"kill", "gone"}
  BY DEF IInv, Types, CallEndFrame, CallStateAction, Join, Look, Sleep, vars, thread, lines,
         history, Running
<1>2. /\ (tpc' = "next") = (tpc = "next") /\ (tpc' = "draw") = (tpc = "draw")
      /\ (tpc' = "done") = (tpc = "done")
  BY <1>1
<1>3. Types' /\ TodoInv' /\ ThreadInv' /\ ExitInv' /\ PictureInv'
  BY <1>1, <1>2 DEF IInv, Types, TodoInv, ThreadInv, ExitInv, PictureInv, FirstLine
<1>4. LinesInv'
  BY <1>1, <1>2 DEF IInv, LinesInv, FirstLine, InRing, ToQueue, Queued
<1>5. MemInv'
  BY <1>1, <1>2 DEF IInv, MemInv, Replay, WantInv, Expected, ToQueue, Queued
<1> QED BY <1>3, <1>4, <1>5 DEF IInv

LEMMA StartLemma ==
  ASSUME IInv, NEW field \in {0, 1}, VDP2REND_StartFrame(field)
  PROVE  IInv'
<1>1. /\ UNCHANGED <<WQ, DrawCounter, LIB, mem, tpc, mpc, todo, asked, want>>
      /\ todo = <<>> /\ espec = None /\ espec' = field /\ NextOutLine' = 0 /\ VCounter' = 0
      /\ picture' = [l \in Lines |-> NotDrawn] /\ restarted' = FALSE
  BY DEF VDP2REND_StartFrame, thread, Running
<1>2. DrawCounter = 0
  BY <1>1 DEF IInv, LinesInv
<1>3. \A i \in 1 .. Len(WQ) : ~ Queued(i) /\ ~ Queued(i)'
  BY <1>1, <1>2 DEF IInv, LinesInv, FirstLine, InRing, ToQueue, Types, Queued
<1>4. /\ Types' /\ TodoInv' /\ ThreadInv' /\ ExitInv' /\ PictureInv'
  <2>1. Types'
    <3>1. picture' \in [Lines -> {NotDrawn, AsAsked, Otherwise}]
      BY <1>1
    <3>2. 0 \in 0 .. VisibleLines
      BY RenderAssumption
    <3> QED BY <1>1, <3>1, <3>2 DEF IInv, Types
  <2>2. TodoInv' /\ ThreadInv' /\ ExitInv'
    BY <1>1 DEF IInv, TodoInv, ThreadInv, ExitInv
  <2>3. PictureInv'
    BY <1>1, <1>2 DEF IInv, Types, PictureInv, FirstLine, Lines
  <2> QED BY <2>1, <2>2, <2>3
<1>5. LinesInv'
  BY <1>1, <1>2, <1>3 DEF LinesInv, FirstLine, InRing, ToQueue
<1>6. MemInv'
  BY <1>1, <1>3 DEF IInv, MemInv, Replay, WantInv, ToQueue
<1> QED BY <1>4, <1>5, <1>6 DEF IInv

LEMMA EndLemma == ASSUME IInv, VDP2REND_EndFrame PROVE IInv'
<1>1. /\ UNCHANGED <<WQ, DrawCounter, LIB, mem, tpc, VCounter, asked, want, restarted>>
      /\ mpc = "ending" /\ mpc' = "run" /\ DrawCounter = 0
      /\ todo' = <<SET_BUSYWAIT(FALSE)>> /\ espec' = None /\ NextOutLine' = VisibleLines
      /\ picture' = [l \in Lines |-> IF l < NextOutLine THEN picture[l] ELSE AsAsked]
  BY DEF VDP2REND_EndFrame, thread, history, AllDrawn
<1>2. todo = <<>>
  BY <1>1 DEF IInv, TodoInv
<1>3. \A i \in 1 .. Len(WQ) : ~ Queued(i) /\ ~ Queued(i)'
  BY <1>1, <1>2 DEF IInv, LinesInv, FirstLine, InRing, ToQueue, Types, Queued
<1>4. todo'[1] = SET_BUSYWAIT(FALSE) /\ Len(todo') = 1 /\ todo' # <<>> /\ ~ ToQueue'
  BY <1>1, EntryLemma DEF ToQueue
<1>5. Types' /\ TodoInv' /\ ThreadInv'
  <2>1. picture' \in [Lines -> {NotDrawn, AsAsked, Otherwise}]
    BY <1>1 DEF IInv, Types
  <2>2. todo' \in Seq(Entry \cup {Wakeup})
    <3> DEFINE e == SET_BUSYWAIT(FALSE)
    <3>1. e \in Entry \cup {Wakeup} /\ todo' = <<e>>
      BY <1>1, EntryLemma
    <3> HIDE DEF e
    <3> QED BY <3>1, OneLemma
  <2>3. Types'
    <3>1. VisibleLines \in 0 .. VisibleLines
      OBVIOUS
    <3>2. espec' \in {None, 0, 1}
      BY <1>1
    <3> QED BY <1>1, <2>1, <2>2, <3>1, <3>2 DEF IInv, Types
  <2> QED BY <1>1, <1>4, <2>3 DEF IInv, TodoInv, ThreadInv
<1>6. ExitInv'
  BY <1>1, <1>4 DEF IInv, ExitInv, SET_BUSYWAIT, EXIT
<1>7. PictureInv'
  BY <1>1, <1>2 DEF IInv, Types, PictureInv, FirstLine, Lines
<1>8. LinesInv'
  <2>1. InRing' = VisibleLines /\ FirstLine' = VisibleLines
    BY <1>1, <1>4 DEF InRing, FirstLine
  <2>2. \A i \in 1 .. Len(WQ') : ~ Queued(i)'
    BY <1>1, <1>3
  <2>3. VisibleLines \in Nat /\ DrawCounter' = 0
    BY <1>1
  <2>4. \A l \in VisibleLines .. (VisibleLines - 1) : FALSE
    BY <2>3
  <2>5. (0 <= FirstLine /\ FirstLine <= InRing)' /\ (espec = None => DrawCounter = 0)'
    BY <2>1, <2>3
  <2>6. \A l \in FirstLine' .. (InRing' - 1) : FALSE
    BY <2>1, <2>4
  <2> QED BY <1>4, <2>2, <2>5, <2>6 DEF LinesInv
<1>9. MemInv'
  <2>1. PICK h \in [0 .. Len(WQ) -> Values] : Replay(h) /\ WantInv(h)
    BY DEF IInv, MemInv
  <2>2. todo'[1].Command = "SET_BUSYWAIT"
    BY <1>4, EntryLemma
  <2>3. Replay(h)'
    BY <1>1, <1>2, <1>4, <2>1, <2>2 DEF Replay, Effect
  <2>4. WantInv(h)'
    BY <1>1, <1>3, <1>4 DEF WantInv
  <2> QED BY <1>1, <2>1, <2>3, <2>4 DEF MemInv
<1> QED BY <1>5, <1>6, <1>7, <1>8, <1>9 DEF IInv

\* With the ring empty, both copies of the memory are what was asked.
LEMMA EmptyLemma == ASSUME IInv, WQ = <<>>, todo = <<>> PROVE mem = asked
BY DEF IInv, ThreadInv, MemInv, Replay

LEMMA StateLemma == ASSUME IInv, VDP2REND_StateAction PROVE IInv'
<1>1. /\ UNCHANGED <<WQ, DrawCounter, LIB, espec, NextOutLine, tpc, todo, picture, VCounter, want,
                     restarted>>
      /\ mpc = "state" /\ mpc' = "run" /\ WQ = <<>>
      /\ \/ UNCHANGED <<mem, asked>>
         \/ \E v \in Values : mem' = v /\ asked' = v
  BY DEF VDP2REND_StateAction, lines, AllDone
<1>2. todo = <<>> /\ tpc # "next"
  BY <1>1 DEF IInv, TodoInv, ThreadInv
<1>3. mem' = asked' /\ mem' \in Values
  BY <1>1, <1>2, EmptyLemma DEF IInv, Types
<1>4. Types' /\ TodoInv' /\ ThreadInv' /\ ExitInv' /\ PictureInv'
  BY <1>1, <1>3 DEF IInv, Types, TodoInv, ThreadInv, ExitInv, PictureInv, FirstLine
<1>5. LinesInv'
  BY <1>1 DEF IInv, LinesInv, FirstLine, InRing, ToQueue, Queued
<1>6. MemInv'
  <2> PICK h : h = [i \in 0 .. 0 |-> asked']
    OBVIOUS
  <2>1. Len(WQ') = 0 /\ todo' = <<>> /\ tpc' # "next"
    BY <1>1, <1>2
  <2>2. h \in [0 .. Len(WQ') -> Values] /\ h[0] = mem' /\ h[0] = asked'
    BY <1>3, <2>1
  <2>3. Replay(h)' /\ WantInv(h)'
    BY <2>1, <2>2 DEF Replay, WantInv, ToQueue
  <2> QED BY <2>2, <2>3 DEF MemInv
<1> QED BY <1>4, <1>5, <1>6 DEF IInv

-----------------------------------------------------------------------------
(* Queueing *)

\* An entry that is no line is about to be queued.
LEMMA QueueLemma ==
  ASSUME IInv, todo = <<>>, mpc = "run",
         NEW e \in Entry, e.Command # "DRAW_LINE", todo' = <<e>>,
         UNCHANGED <<WQ, DrawCounter, NextOutLine, espec, LIB, mem, tpc, picture, want>>,
         asked' = Effect(e, asked), asked' \in Values,
         mpc' \in {"run", "kill"}, e = EXIT => mpc' = "kill",
         restarted' \in BOOLEAN, VCounter' \in 0 .. VisibleLines,
         ~ restarted' => ~ restarted /\ (espec = None \/ VCounter' = VCounter)
  PROVE  IInv'
<1>1. todo' \in Seq(Entry \cup {Wakeup}) /\ Len(todo') = 1 /\ todo'[1] = e /\ todo' # <<>>
  BY OneLemma
<1>2. ~ ToQueue /\ ~ ToQueue'
  BY <1>1 DEF ToQueue
<1>3. Types'
  BY <1>1 DEF IInv, Types
<1>4. TodoInv' /\ ThreadInv' /\ ExitInv'
  BY <1>1 DEF IInv, TodoInv, ThreadInv, ExitInv
<1>5. \A i \in 1 .. Len(WQ) : Queued(i)' = Queued(i)
  BY DEF Queued
<1>6. UNCHANGED <<FirstLine, InRing>>
  BY <1>2 DEF FirstLine, InRing
<1>7. LinesInv'
  BY <1>2, <1>5, <1>6 DEF IInv, LinesInv
<1>8. espec = None => \A i \in 1 .. Len(WQ) : ~ Queued(i)
  BY <1>2 DEF IInv, LinesInv, FirstLine, InRing, Types
<1>9. MemInv'
  <2>1. PICK h \in [0 .. Len(WQ) -> Values] : Replay(h) /\ WantInv(h)
    BY DEF IInv, MemInv
  <2>2. Replay(h)'
    BY <1>1, <2>1 DEF Replay
  <2>3. WantInv(h)'
    BY <1>2, <1>5, <1>8, <2>1 DEF WantInv, Expected
  <2> QED BY <2>1, <2>2, <2>3 DEF MemInv
<1>10. PictureInv'
  BY <1>6 DEF IInv, PictureInv
<1> QED BY <1>3, <1>4, <1>7, <1>9, <1>10 DEF IInv

LEMMA WriteLemma ==
  ASSUME IInv, (\E v \in Values : VDP2REND_Write(v)) \/ VDP2REND_Reset \/ VDP2REND_Kill
  PROVE  IInv'
<1>1. CASE \E v \in Values : VDP2REND_Write(v)
  <2>1. PICK v \in Values : VDP2REND_Write(v)
    BY <1>1
  <2> DEFINE e == Write(v)
  <2>2. /\ todo' = <<e>> /\ todo = <<>> /\ mpc = "run" /\ mpc' = mpc /\ asked' = v
        /\ UNCHANGED <<WQ, DrawCounter, LIB, espec, NextOutLine, VCounter, mem, tpc, picture, want,
                       restarted>>
    BY <2>1 DEF VDP2REND_Write, QueueWrite, Running, lines
  <2>3. e \in Entry /\ e.Command = "WRITE" /\ e.v = v /\ e # EXIT
    BY EntryLemma
  <2> HIDE DEF e
  <2>4. asked' = Effect(e, asked) /\ asked' \in Values
    BY <2>2, <2>3 DEF Effect
  <2>5. restarted' \in BOOLEAN /\ VCounter' \in 0 .. VisibleLines
    BY <2>2 DEF IInv, Types
  <2> QED BY <2>2, <2>3, <2>4, <2>5, QueueLemma
<1>2. CASE VDP2REND_Reset
  <2> DEFINE e == RESET
  <2>2. /\ todo' = <<e>> /\ todo = <<>> /\ mpc = "run" /\ mpc' = mpc /\ asked' = 0
        /\ UNCHANGED <<WQ, DrawCounter, LIB, espec, NextOutLine, mem, tpc, picture, want>>
        /\ VCounter' = 0 /\ restarted' = (restarted \/ espec # None)
    BY <1>2 DEF VDP2REND_Reset, Running, thread
  <2>3. e \in Entry /\ e.Command = "RESET" /\ e # EXIT
    BY EntryLemma
  <2> HIDE DEF e
  <2>4. asked' = Effect(e, asked) /\ asked' \in Values
    BY <2>2, <2>3 DEF Effect
  <2>5. restarted' \in BOOLEAN /\ VCounter' \in 0 .. VisibleLines
    BY <2>2 DEF IInv, Types
  <2> QED BY <2>2, <2>3, <2>4, <2>5, QueueLemma
<1>3. CASE VDP2REND_Kill
  <2> DEFINE e == EXIT
  <2>2. /\ todo' = <<e>> /\ todo = <<>> /\ mpc = "run" /\ mpc' = "kill" /\ asked' = asked
        /\ UNCHANGED <<WQ, DrawCounter, LIB, espec, NextOutLine, VCounter, mem, tpc, picture, want,
                       restarted>>
    BY <1>3 DEF VDP2REND_Kill, SendExit, Running, thread, lines, history
  <2>3. e \in Entry /\ e.Command = "EXIT"
    BY EntryLemma
  <2> HIDE DEF e
  <2>4. asked' = Effect(e, asked) /\ asked' \in Values
    BY <2>2, <2>3 DEF Effect, IInv, Types
  <2>5. restarted' \in BOOLEAN /\ VCounter' \in 0 .. VisibleLines
    BY <2>2 DEF IInv, Types
  <2> QED BY <2>2, <2>3, <2>4, <2>5, QueueLemma
<1> QED BY <1>1, <1>2, <1>3

\* A line is about to be queued.
LEMMA LineLemma ==
  ASSUME IInv, todo = <<>>, mpc = "run", espec # None, NextOutLine < VisibleLines,
         NEW v \in Lines \cup {Border}, DrawLine(NextOutLine, v),
         UNCHANGED <<WQ, espec, mem, tpc, mpc, picture, asked, restarted>>,
         LIB' \in [Lines -> Values], VCounter' \in 0 .. VisibleLines, VCounter <= VCounter',
         \A l \in Lines : l < VCounter => LIB'[l] = LIB[l],
         ~ restarted => v = Border \/ v < VCounter',
         want' = [want EXCEPT ![NextOutLine] = {Shown(v, asked, LIB')}]
  PROVE  IInv'
<1> DEFINE d == DRAW_LINE(NextOutLine, v, espec)
<1>1. NextOutLine \in Lines /\ espec \in {0, 1} /\ NextOutLine \in Nat /\ DrawCounter \in Nat
  BY DEF IInv, Types, Lines
<1>2. /\ d \in Entry /\ d.Command = "DRAW_LINE" /\ d.line = NextOutLine /\ d.vdp2_line = v
      /\ d.field = espec
  BY <1>1, EntryLemma
<1>3. /\ todo' \in Seq(Entry \cup {Wakeup}) /\ todo' # <<>> /\ todo'[1] = d
      /\ \A i \in 2 .. Len(todo') : todo'[i] \in {SET_BUSYWAIT(TRUE), Wakeup}
  <2>1. PICK r \in {<<>>, <<Wakeup>>, <<SET_BUSYWAIT(TRUE), Wakeup>>} : todo' = <<d>> \o r
    <3> DEFINE r == CASE NextOutLine = bwthresh -> <<SET_BUSYWAIT(TRUE), Wakeup>>
                       [] NextOutLine < bwthresh /\ WakeupDue(DrawCounter) -> <<Wakeup>>
                       [] OTHER -> <<>>
    <3>1. todo' = <<d>> \o r
      BY DEF DrawLine
    <3>2. r \in {<<>>, <<Wakeup>>, <<SET_BUSYWAIT(TRUE), Wakeup>>}
      <4>1. CASE NextOutLine = bwthresh
        BY <4>1
      <4>2. CASE NextOutLine # bwthresh
        BY <4>2
      <4> QED BY <4>1, <4>2
    <3> QED BY <3>1, <3>2
  <2> DEFINE b == SET_BUSYWAIT(TRUE)
  <2>2. b \in Entry \cup {Wakeup} /\ Wakeup \in Entry \cup {Wakeup} /\ d \in Entry \cup {Wakeup}
    BY <1>2, EntryLemma
  <2> HIDE DEF d, b
  <2>3. r \in Seq(Entry \cup {Wakeup}) /\ \A i \in 1 .. Len(r) : r[i] \in {b, Wakeup}
    <3>1. r = <<>> \/ r = <<Wakeup>> \/ r = <<b, Wakeup>>
      BY DEF b
    <3>2. CASE r = <<>>
      BY <3>2
    <3>3. CASE r = <<Wakeup>>
      BY <2>2, <3>3
    <3>4. CASE r = <<b, Wakeup>>
      <4>1. r \in Seq(Entry \cup {Wakeup}) /\ Len(r) = 2 /\ r[1] = b /\ r[2] = Wakeup
        BY <2>2, <3>4, TwoLemma
      <4> QED BY <4>1
    <3> QED BY <3>1, <3>2, <3>3, <3>4
  <2>4. <<d>> \in Seq(Entry \cup {Wakeup})
    BY <2>2
  <2>5. /\ todo' \in Seq(Entry \cup {Wakeup}) /\ Len(todo') = 1 + Len(r) /\ todo'[1] = d
        /\ \A i \in 2 .. Len(todo') : todo'[i] = r[i - 1]
    BY <2>1, <2>3, <2>4
  <2>6. todo' # <<>> /\ \A i \in 2 .. Len(todo') : todo'[i] \in {b, Wakeup}
    BY <2>3, <2>5
  <2> QED BY <2>5, <2>6 DEF b
<1> HIDE DEF d
<1>4. ~ ToQueue /\ ToQueue'
  BY <1>2, <1>3 DEF ToQueue
<1>5. DrawCounter' = DrawCounter + 1 /\ NextOutLine' = NextOutLine + 1
  BY DEF DrawLine
<1>6. UNCHANGED <<FirstLine, InRing>> /\ InRing = NextOutLine
  BY <1>1, <1>4, <1>5 DEF FirstLine, InRing
<1>7. Types'
  <2>1. want' \in [Lines -> SUBSET [mem : Values, lib : Values]]
    <3>1. Shown(v, asked, LIB') \in [mem : Values, lib : Values]
      BY DEF IInv, Types, Shown, GetLIB
    <3> QED BY <3>1 DEF IInv, Types
  <2>2. NextOutLine' \in 0 .. VisibleLines /\ DrawCounter' \in Nat
    BY <1>1, <1>5
  <2> QED BY <1>3, <2>1, <2>2 DEF IInv, Types
<1>8. TodoInv' /\ ThreadInv'
  BY <1>3 DEF IInv, TodoInv, ThreadInv
<1>9. ExitInv'
  BY <1>2, <1>3, EntryLemma DEF IInv, ExitInv
<1>10. \A i \in 1 .. Len(WQ) : Queued(i)' = Queued(i)
  BY DEF Queued
<1>11. LinesInv'
  BY <1>1, <1>2, <1>3, <1>4, <1>5, <1>6, <1>10 DEF IInv, LinesInv
<1>12. MemInv'
  <2>1. PICK h \in [0 .. Len(WQ) -> Values] : Replay(h) /\ WantInv(h)
    BY DEF IInv, MemInv
  <2>2. Replay(h)'
    BY <1>2, <1>3, <2>1 DEF Replay, Effect
  <2>3. WantInv(h)'
    <3> SUFFICES ASSUME ~ restarted PROVE WantInv(h)'
      BY DEF WantInv
    <3>1. ASSUME NEW i \in 1 .. Len(WQ), Queued(i)
          PROVE  Expected(WQ[i], h[i - 1])'
      <4>1. WQ[i].line \in Lines /\ WQ[i].vdp2_line \in Lines \cup {Border}
        BY <3>1, DrawLemma DEF IInv, Types, Queued
      <4>2. WQ[i].line # NextOutLine
        BY <1>1, <1>6, <3>1 DEF IInv, LinesInv, FirstLine
      <4>3. Expected(WQ[i], h[i - 1])
        BY <2>1, <3>1 DEF WantInv
      <4>4. Shown(WQ[i].vdp2_line, h[i - 1], LIB') = Shown(WQ[i].vdp2_line, h[i - 1], LIB)
        BY <4>1, <4>3 DEF Expected, Shown, GetLIB
      <4>5. want'[WQ[i].line] = want[WQ[i].line]
        BY <4>1, <4>2 DEF IInv, Types
      <4>6. WQ[i].vdp2_line = Border \/ WQ[i].vdp2_line < VCounter'
        BY <4>1, <4>3 DEF Expected, Lines, IInv, Types
      <4> QED BY <4>3, <4>4, <4>5, <4>6 DEF Expected
    <3>2. Expected(todo[1], asked)'
      <4>1. want'[NextOutLine] = {Shown(v, asked, LIB')}
        BY <1>1 DEF IInv, Types
      <4> QED BY <1>2, <1>3, <4>1 DEF Expected
    <3> QED BY <1>3, <1>10, <3>1, <3>2 DEF WantInv
  <2> QED BY <2>1, <2>2, <2>3 DEF MemInv
<1>13. PictureInv'
  BY <1>6 DEF IInv, PictureInv
<1> QED BY <1>7, <1>8, <1>9, <1>11, <1>12, <1>13 DEF IInv

LEMMA FillLemma ==
  ASSUME IInv, NEW x \in Values, FillLIB(x)
  PROVE  /\ todo = <<>> /\ mpc = "run" /\ espec # None /\ VCounter \in Lines
         /\ UNCHANGED <<WQ, espec, mem, tpc, mpc, picture, asked, restarted>>
         /\ LIB' \in [Lines -> Values] /\ LIB'[VCounter] = x
         /\ \A l \in Lines : l < VCounter => LIB'[l] = LIB[l]
         /\ VCounter' = VCounter + 1 /\ VCounter' \in 0 .. VisibleLines
<1>1. /\ todo = <<>> /\ mpc = "run" /\ espec # None /\ VCounter < VisibleLines
      /\ UNCHANGED <<WQ, espec, mem, tpc, mpc, picture, asked, restarted>>
      /\ LIB' = [LIB EXCEPT ![VCounter] = x] /\ VCounter' = VCounter + 1
  BY DEF FillLIB, Running, thread, GetLIB
<1>2. VCounter \in Lines /\ VCounter' \in 0 .. VisibleLines
  BY <1>1 DEF IInv, Types, Lines
<1>3. \A l \in Lines : l < VCounter => l # VCounter
  BY <1>2 DEF Lines
<1> QED BY <1>1, <1>2, <1>3 DEF IInv, Types

LEMMA DrawsLemma ==
  ASSUME IInv, (\E x \in Values : VDP2REND_DrawLine(x) \/ LineOutside(x)) \/ DrawBorder
  PROVE  IInv'
<1>1. CASE \E x \in Values : VDP2REND_DrawLine(x)
  <2>1. PICK x \in Values : VDP2REND_DrawLine(x)
    BY <1>1
  <2>2. NextOutLine < VisibleLines /\ FillLIB(x)
    BY <2>1 DEF VDP2REND_DrawLine
  <2>3. PICK v \in IF restarted THEN {Border} ELSE {Border, VCounter} :
          /\ DrawLine(NextOutLine, v)
          /\ want' = [want EXCEPT ![NextOutLine] = {Shown(v, asked, LIB')}]
    BY <2>1 DEF VDP2REND_DrawLine
  <2>4. /\ v \in Lines \cup {Border} /\ VCounter <= VCounter'
        /\ ~ restarted => v = Border \/ v < VCounter'
    BY <2>2, <2>3, FillLemma DEF Lines
  <2> QED BY <2>2, <2>3, <2>4, FillLemma, LineLemma
<1>2. CASE DrawBorder
  <2>1. /\ todo = <<>> /\ mpc = "run" /\ espec # None /\ NextOutLine < VisibleLines
        /\ DrawLine(NextOutLine, Border)
        /\ UNCHANGED <<WQ, LIB, espec, VCounter, mem, tpc, mpc, picture, asked, restarted>>
        /\ want' = [want EXCEPT ![NextOutLine] = {Shown(Border, asked, LIB')}]
    BY <1>2 DEF DrawBorder, Running, thread
  <2>2. LIB' \in [Lines -> Values] /\ VCounter' \in 0 .. VisibleLines /\ VCounter <= VCounter'
    BY <2>1 DEF IInv, Types
  <2> QED BY <2>1, <2>2, LineLemma
<1>3. CASE \E x \in Values : LineOutside(x)
  <2>1. PICK x \in Values : LineOutside(x)
    BY <1>3
  <2>2. FillLIB(x) /\ UNCHANGED <<DrawCounter, NextOutLine, todo, want>>
    BY <2>1 DEF LineOutside
  <2>3. /\ todo = <<>> /\ mpc = "run" /\ VCounter' = VCounter + 1 /\ VCounter \in Lines
        /\ UNCHANGED <<WQ, espec, mem, tpc, mpc, picture, asked, restarted>>
        /\ LIB' \in [Lines -> Values] /\ VCounter' \in 0 .. VisibleLines
        /\ \A l \in Lines : l < VCounter => LIB'[l] = LIB[l]
    BY <2>2, FillLemma
  <2>4. /\ \A i \in 1 .. Len(WQ) : Queued(i)' = Queued(i)
        /\ UNCHANGED <<FirstLine, InRing, ToQueue>> /\ ~ ToQueue
    BY <2>2, <2>3 DEF Queued, FirstLine, InRing, ToQueue
  <2>5. Types' /\ TodoInv' /\ ThreadInv' /\ ExitInv' /\ PictureInv'
    BY <2>2, <2>3, <2>4 DEF IInv, Types, TodoInv, ThreadInv, ExitInv, PictureInv
  <2>6. LinesInv'
    BY <2>2, <2>3, <2>4 DEF IInv, LinesInv
  <2>7. MemInv'
    <3>1. PICK h \in [0 .. Len(WQ) -> Values] : Replay(h) /\ WantInv(h)
      BY DEF IInv, MemInv
    <3>2. Replay(h)'
      BY <2>2, <2>3, <3>1 DEF Replay
    <3>3. ASSUME ~ restarted, NEW i \in 1 .. Len(WQ), Queued(i)
          PROVE  Expected(WQ[i], h[i - 1])'
      <4>1. WQ[i].vdp2_line \in Lines \cup {Border}
        BY <3>3, DrawLemma DEF IInv, Types, Queued
      <4>2. Expected(WQ[i], h[i - 1])
        BY <3>1, <3>3 DEF WantInv
      <4>3. Shown(WQ[i].vdp2_line, h[i - 1], LIB') = Shown(WQ[i].vdp2_line, h[i - 1], LIB)
        BY <2>3, <4>1, <4>2 DEF Expected, Shown, GetLIB
      <4>4. WQ[i].vdp2_line = Border \/ WQ[i].vdp2_line < VCounter'
        BY <2>3, <4>1, <4>2 DEF Expected, Lines
      <4> QED BY <2>2, <2>3, <4>2, <4>3, <4>4 DEF Expected
    <3>4. WantInv(h)'
      BY <2>2, <2>3, <2>4, <3>3 DEF WantInv
    <3> QED BY <2>3, <3>1, <3>2, <3>4 DEF MemInv
  <2> QED BY <2>5, <2>6, <2>7 DEF IInv
<1> QED BY <1>1, <1>2, <1>3

\* After its first entry, what is still to be queued changes nothing.
LEMMA TailLemma ==
  ASSUME IInv, todo # <<>>
  PROVE  /\ todo[1] = Head(todo) /\ todo[1] \in Entry \cup {Wakeup}
         /\ Tail(todo) \in Seq(Entry \cup {Wakeup})
         /\ \A i \in 1 .. Len(Tail(todo)) : Tail(todo)[i] \in {SET_BUSYWAIT(TRUE), Wakeup}
         /\ \A i \in 2 .. Len(Tail(todo)) : Tail(todo)[i] \in {SET_BUSYWAIT(TRUE), Wakeup}
         /\ Tail(todo) # <<>> => /\ Tail(todo)[1].Command \in {"SET_BUSYWAIT", "post"}
                                 /\ Tail(todo)[1] # EXIT
<1>1. todo \in Seq(Entry \cup {Wakeup})
  BY DEF IInv, Types
<1>2. /\ Tail(todo) \in Seq(Entry \cup {Wakeup}) /\ Len(Tail(todo)) = Len(todo) - 1
      /\ \A i \in 1 .. Len(Tail(todo)) : Tail(todo)[i] = todo[i + 1]
      /\ todo[1] = Head(todo) /\ todo[1] \in Entry \cup {Wakeup} /\ Len(todo) \in Nat
  BY <1>1
<1>3. \A i \in 1 .. Len(Tail(todo)) : Tail(todo)[i] \in {SET_BUSYWAIT(TRUE), Wakeup}
  <2> TAKE i \in 1 .. Len(Tail(todo))
  <2>1. i + 1 \in 2 .. Len(todo)
    BY <1>2
  <2> QED BY <1>2, <2>1 DEF IInv, TodoInv
<1>4. Tail(todo) # <<>> => 1 \in 1 .. Len(Tail(todo))
  BY <1>2
<1>5. SET_BUSYWAIT(TRUE).Command = "SET_BUSYWAIT"
  BY EntryLemma
<1>6. \A i \in 2 .. Len(Tail(todo)) : i \in 1 .. Len(Tail(todo))
  BY <1>2
<1> QED BY <1>2, <1>3, <1>4, <1>5, <1>6, EntryLemma

LEMMA PostLemma == ASSUME IInv, Post PROVE IInv'
<1>1. /\ todo # <<>> /\ todo[1] = Wakeup /\ todo' = Tail(todo)
      /\ UNCHANGED <<WQ, DrawCounter, LIB, espec, NextOutLine, VCounter, mem, tpc, mpc, picture,
                     asked, want, restarted>>
  BY TailLemma DEF Post, thread, lines, history
<1>2. todo[1].Command = "post" /\ ~ ToQueue
  BY <1>1, EntryLemma DEF ToQueue
<1>3. todo' # <<>> => todo'[1].Command \in {"SET_BUSYWAIT", "post"} /\ todo'[1] # EXIT
  BY <1>1, TailLemma
<1>4. ~ ToQueue'
  BY <1>3 DEF ToQueue
<1>5. /\ \A i \in 1 .. Len(WQ) : Queued(i)' = Queued(i)
      /\ UNCHANGED <<FirstLine, InRing>>
  BY <1>1, <1>2, <1>4 DEF Queued, FirstLine, InRing
<1>6. Types' /\ TodoInv' /\ ThreadInv' /\ ExitInv' /\ PictureInv'
  <2>1. Types'
    BY <1>1, TailLemma DEF IInv, Types
  <2>2. TodoInv'
    <3>1. \A i \in 2 .. Len(todo') : todo'[i] \in {SET_BUSYWAIT(TRUE), Wakeup}
      BY <1>1, TailLemma
    <3> QED BY <1>1, <3>1 DEF IInv, TodoInv
  <2>3. ThreadInv' /\ ExitInv' /\ PictureInv'
    BY <1>1, <1>3, <1>5 DEF IInv, ThreadInv, ExitInv, PictureInv
  <2> QED BY <2>1, <2>2, <2>3
<1>7. LinesInv'
  BY <1>1, <1>2, <1>4, <1>5 DEF IInv, LinesInv
<1>8. MemInv'
  <2>1. PICK h \in [0 .. Len(WQ) -> Values] : Replay(h) /\ WantInv(h)
    BY DEF IInv, MemInv
  <2>2. Replay(h)'
    BY <1>1, <1>2, <1>3, <2>1 DEF Replay, Effect
  <2>3. WantInv(h)'
    BY <1>1, <1>2, <1>4, <1>5, <2>1 DEF WantInv, Expected
  <2> QED BY <1>1, <2>1, <2>2, <2>3 DEF MemInv
<1> QED BY <1>6, <1>7, <1>8 DEF IInv

LEMMA WWQLemma == ASSUME IInv, WWQ PROVE IInv'
<1> PICK n : n = Len(WQ)
  OBVIOUS
<1> PICK e : e = todo[1]
  OBVIOUS
<1>1. /\ todo # <<>> /\ e # Wakeup /\ WQ' = Append(WQ, e) /\ todo' = Tail(todo)
      /\ UNCHANGED <<DrawCounter, LIB, espec, NextOutLine, VCounter, mem, tpc, mpc, picture,
                     asked, want, restarted>>
  BY TailLemma DEF WWQ, thread, lines, history
<1>2. e \in Entry /\ e \in Entry \cup {Wakeup}
  BY <1>1, TailLemma
<1>3. /\ n \in Nat /\ WQ' \in Seq(Entry) /\ Len(WQ') = n + 1 /\ WQ'[n + 1] = e /\ WQ' # <<>>
      /\ \A i \in 1 .. n : WQ'[i] = WQ[i]
  BY <1>1, <1>2 DEF IInv, Types
<1>4. todo' # <<>> => todo'[1].Command \in {"SET_BUSYWAIT", "post"} /\ todo'[1] # EXIT
  BY <1>1, TailLemma
<1>5. ~ ToQueue' /\ ToQueue = (e.Command = "DRAW_LINE")
  BY <1>1, <1>4 DEF ToQueue
<1>6. tpc \in {"draw", "next"} => n >= 1
  BY <1>3 DEF IInv, ThreadInv, Types
<1>7. /\ \A i \in 1 .. n : Queued(i)' = Queued(i)
      /\ Queued(n + 1)' = ToQueue
  BY <1>1, <1>3, <1>5, <1>6 DEF Queued
<1>8. FirstLine' = FirstLine /\ InRing' = NextOutLine
  BY <1>1, <1>5 DEF FirstLine, InRing
<1>9. Types'
  BY <1>1, <1>3, TailLemma DEF IInv, Types
<1>10. TodoInv'
  <2>1. \A i \in 2 .. Len(todo') : todo'[i] \in {SET_BUSYWAIT(TRUE), Wakeup}
    BY <1>1, TailLemma
  <2> QED BY <1>1, <2>1 DEF IInv, TodoInv
<1>11. ThreadInv'
  BY <1>1, <1>3, <1>6 DEF IInv, ThreadInv
<1>12. ExitInv'
  <2>1. \A i \in 1 .. Len(WQ') : i \in 1 .. n \/ i = n + 1
    BY <1>3
  <2> QED BY <1>1, <1>3, <1>4, <2>1 DEF IInv, ExitInv
<1>13. PictureInv'
  BY <1>1, <1>8 DEF IInv, PictureInv
<1>14. LinesInv'
  <2>1. CASE ToQueue
    <3>1. /\ InRing = NextOutLine - 1 /\ e.line = NextOutLine - 1 /\ e.field = espec
          /\ FirstLine <= NextOutLine - 1 /\ NextOutLine \in Int /\ FirstLine \in Int
      BY <2>1 DEF IInv, LinesInv, InRing, FirstLine, Types
    <3>2. \A i \in 1 .. Len(WQ') : i \in 1 .. n \/ i = n + 1
      BY <1>3
    <3>3. \A i \in 1 .. Len(WQ') :
            Queued(i)' => WQ'[i].line \in FirstLine .. (NextOutLine - 1) /\ WQ'[i].field = espec
      BY <1>3, <1>7, <3>1, <3>2 DEF IInv, LinesInv
    <3>4. \A i, j \in 1 .. Len(WQ') :
            i < j /\ Queued(i)' /\ Queued(j)' => WQ'[i].line < WQ'[j].line
      <4> TAKE i, j \in 1 .. Len(WQ')
      <4> HAVE i < j /\ Queued(i)' /\ Queued(j)'
      <4>1. i \in 1 .. n
        BY <1>3
      <4>2. CASE j \in 1 .. n
        BY <1>3, <1>7, <4>1, <4>2 DEF IInv, LinesInv
      <4>3. CASE j = n + 1
        BY <1>3, <1>7, <3>1, <4>1, <4>3 DEF IInv, LinesInv
      <4> QED BY <3>2, <4>2, <4>3
    <3>5. \A l \in FirstLine .. (NextOutLine - 1) :
            \E i \in 1 .. Len(WQ') : Queued(i)' /\ WQ'[i].line = l
      <4> TAKE l \in FirstLine .. (NextOutLine - 1)
      <4>1. CASE l = NextOutLine - 1
        <5>1. n + 1 \in 1 .. Len(WQ')
          BY <1>3
        <5> QED BY <1>3, <1>7, <2>1, <3>1, <4>1, <5>1
      <4>2. CASE l # NextOutLine - 1
        <5>1. l \in FirstLine .. (InRing - 1)
          BY <3>1, <4>2
        <5>2. PICK i \in 1 .. n : Queued(i) /\ WQ[i].line = l
          BY <5>1 DEF IInv, LinesInv
        <5> QED BY <1>3, <1>7, <5>2
      <4> QED BY <4>1, <4>2
    <3>6. /\ 0 <= FirstLine' /\ FirstLine' <= InRing'
          /\ FirstLine' .. (InRing' - 1) = FirstLine .. (NextOutLine - 1)
          /\ (espec = None => DrawCounter = 0)' /\ espec' = espec
      BY <1>1, <1>8, <3>1 DEF IInv, LinesInv
    <3> QED BY <1>5, <3>3, <3>4, <3>5, <3>6 DEF LinesInv
  <2>2. CASE ~ ToQueue
    <3>1. InRing = NextOutLine
      BY <2>2 DEF InRing
    <3>2. \A i \in 1 .. Len(WQ') : Queued(i)' => i \in 1 .. Len(WQ) /\ Queued(i) /\ WQ'[i] = WQ[i]
      BY <1>3, <1>7, <2>2
    <3>3. \A i \in 1 .. Len(WQ) : i \in 1 .. Len(WQ') /\ Queued(i)' = Queued(i) /\ WQ'[i] = WQ[i]
      BY <1>3, <1>7
    <3>4. FirstLine' = FirstLine /\ InRing' = InRing /\ espec' = espec /\ ~ ToQueue'
      BY <1>1, <1>5, <1>8, <3>1
    <3>5. (0 <= FirstLine /\ FirstLine <= InRing)' /\ (espec = None => DrawCounter = 0)'
      BY <1>1, <3>4 DEF IInv, LinesInv
    <3>6. \A i \in 1 .. Len(WQ') :
            Queued(i)' => WQ'[i].line \in FirstLine' .. (InRing' - 1) /\ WQ'[i].field = espec'
      BY <3>2, <3>3, <3>4 DEF IInv, LinesInv
    <3>7. \A i, j \in 1 .. Len(WQ') :
            i < j /\ Queued(i)' /\ Queued(j)' => WQ'[i].line < WQ'[j].line
      BY <3>2, <3>3 DEF IInv, LinesInv
    <3>8. \A l \in FirstLine' .. (InRing' - 1) :
            \E i \in 1 .. Len(WQ') : Queued(i)' /\ WQ'[i].line = l
      BY <3>3, <3>4 DEF IInv, LinesInv
    <3> QED BY <3>4, <3>5, <3>6, <3>7, <3>8 DEF LinesInv
  <2> QED BY <2>1, <2>2
<1>15. MemInv'
  <2>1. PICK h \in [0 .. Len(WQ) -> Values] : Replay(h) /\ WantInv(h)
    BY DEF IInv, MemInv
  <2>2. Effect(e, h[n]) \in Values
    BY <1>2, <1>3, <2>1, EffectLemma
  <2>3. PICK g \in [0 .. Len(WQ') -> Values] : /\ g[n + 1] = Effect(e, h[n])
                                              /\ \A i \in 0 .. n : g[i] = h[i]
    <3> DEFINE g == [i \in 0 .. (n + 1) |-> IF i <= n THEN h[i] ELSE Effect(e, h[n])]
    <3>1. g \in [0 .. Len(WQ') -> Values]
      BY <1>3, <2>1, <2>2
    <3>2. g[n + 1] = Effect(e, h[n]) /\ \A i \in 0 .. n : g[i] = h[i]
      BY <1>3
    <3> QED BY <3>1, <3>2
  <2>4. asked = Effect(e, h[n])
    BY <1>1, <2>1 DEF Replay
  <2>5. asked' = IF todo' = <<>> THEN g[n + 1] ELSE Effect(todo'[1], g[n + 1])
    <3> QED BY <1>1, <1>4, <2>3, <2>4 DEF Effect
  <2>6. Replay(g)'
    <3>1. g[IF tpc' = "next" THEN 1 ELSE 0] = mem'
      BY <1>1, <1>3, <1>6, <2>1, <2>3 DEF Replay
    <3>2. \A i \in 1 .. Len(WQ') : g[i] = Effect(WQ'[i], g[i - 1])
      <4> TAKE i \in 1 .. Len(WQ')
      <4>1. CASE i = n + 1
        BY <1>3, <2>3, <4>1
      <4>2. CASE i \in 1 .. n
        BY <1>3, <2>1, <2>3, <4>2 DEF Replay
      <4> QED BY <1>3, <4>1, <4>2
    <3> QED BY <1>3, <2>3, <2>5, <3>1, <3>2 DEF Replay
  <2>7. WantInv(g)'
    <3> SUFFICES ASSUME ~ restarted, NEW i \in 1 .. Len(WQ'), Queued(i)'
                 PROVE  Expected(WQ[i], g[i - 1])'
      BY <1>1, <1>5 DEF WantInv
    <3>1. CASE i = n + 1
      <4>1. Expected(e, asked) /\ g[i - 1] = h[n] /\ asked = h[n]
        BY <1>3, <1>5, <1>7, <2>1, <2>3, <2>4, <3>1 DEF WantInv, Effect
      <4> QED BY <1>1, <1>3, <3>1, <4>1 DEF Expected
    <3>2. CASE i \in 1 .. n
      <4>1. Expected(WQ[i], h[i - 1]) /\ g[i - 1] = h[i - 1] /\ WQ'[i] = WQ[i]
        BY <1>3, <1>7, <2>1, <2>3, <3>2 DEF WantInv
      <4> QED BY <1>1, <4>1 DEF Expected
    <3> QED BY <1>3, <3>1, <3>2
  <2> QED BY <2>3, <2>6, <2>7 DEF MemInv
<1> QED BY <1>9, <1>10, <1>11, <1>12, <1>13, <1>14, <1>15 DEF IInv

-----------------------------------------------------------------------------
(* The render thread *)

LEMMA ExecuteLemma == ASSUME IInv, Execute PROVE IInv'
<1>1. /\ tpc = "look" /\ WQ # <<>> /\ Head(WQ) = WQ[1] /\ WQ \in Seq(Entry) /\ Len(WQ) \in Nat
      /\ UNCHANGED <<WQ, DrawCounter, LIB, espec, NextOutLine, VCounter, mpc, todo, picture,
                     asked, want, restarted>>
  BY DEF Execute, CountOff, Counted, lines, history, IInv, Types
<1>2. 1 \in 1 .. Len(WQ) /\ WQ[1] \in Entry
  BY <1>1
<1>3. /\ mem' = Effect(WQ[1], mem)
      /\ tpc' = IF WQ[1].Command = "DRAW_LINE" THEN "draw" ELSE "next"
  BY <1>1 DEF Execute, MemW, Reset, Effect
<1>4. \A i \in 1 .. Len(WQ) : Queued(i)' = Queued(i)
  BY <1>1, <1>3 DEF Queued
<1>5. UNCHANGED <<FirstLine, InRing, ToQueue>>
  BY <1>1 DEF FirstLine, InRing, ToQueue
<1>6. mem' \in Values
  BY <1>2, <1>3, EffectLemma DEF IInv, Types
<1>7. Types'
  BY <1>1, <1>3, <1>6 DEF IInv, Types
<1>8. TodoInv' /\ ThreadInv' /\ ExitInv' /\ PictureInv'
  BY <1>1, <1>3, <1>5 DEF IInv, TodoInv, ThreadInv, ExitInv, PictureInv
<1>9. LinesInv'
  BY <1>1, <1>4, <1>5 DEF IInv, LinesInv
<1>10. MemInv'
  <2>1. PICK h \in [0 .. Len(WQ) -> Values] : Replay(h) /\ WantInv(h)
    BY DEF IInv, MemInv
  <2>2. h[0] = mem /\ h[1] = Effect(WQ[1], h[0])
    BY <1>1, <1>2, <2>1 DEF Replay
  <2>3. h[IF tpc' = "next" THEN 1 ELSE 0] = mem'
    BY <1>3, <2>2 DEF Effect
  <2>4. Replay(h)'
    BY <1>1, <2>1, <2>3 DEF Replay
  <2>5. WantInv(h)'
    BY <1>1, <1>4, <1>5, <2>1 DEF WantInv, Expected
  <2> QED BY <1>1, <2>1, <2>4, <2>5 DEF MemInv
<1> QED BY <1>7, <1>8, <1>9, <1>10 DEF IInv

\* The line being drawn is the first not yet drawn.
LEMMA FirstLemma ==
  ASSUME IInv, tpc = "draw"
  PROVE  /\ 1 \in 1 .. Len(WQ) /\ Queued(1) /\ WQ[1] = Head(WQ)
         /\ WQ[1].line = FirstLine /\ FirstLine \in Lines /\ FirstLine < InRing
         /\ WQ[1].field = espec /\ espec # None
<1>1. WQ \in Seq(Entry) /\ WQ # <<>> /\ WQ[1].Command = "DRAW_LINE"
  BY DEF IInv, Types, ThreadInv
<1>2. 1 \in 1 .. Len(WQ) /\ Queued(1) /\ WQ[1] = Head(WQ)
  BY <1>1 DEF Queued
<1>3. WQ[1].line \in FirstLine .. (InRing - 1) /\ WQ[1].field = espec
  BY <1>2 DEF IInv, LinesInv
<1>4. /\ FirstLine \in Int /\ InRing \in Int /\ InRing <= NextOutLine
      /\ DrawCounter \in Nat /\ NextOutLine \in 0 .. VisibleLines
  BY DEF IInv, Types, FirstLine, InRing
<1>5. FirstLine \in FirstLine .. (InRing - 1) /\ WQ[1].line \in Int
  BY <1>3, <1>4
<1>6. PICK i \in 1 .. Len(WQ) : Queued(i) /\ WQ[i].line = FirstLine
  BY <1>5 DEF IInv, LinesInv
<1>7. i = 1
  <2> SUFFICES ASSUME 1 < i PROVE FALSE
    BY <1>1
  <2>1. WQ[1].line < WQ[i].line
    BY <1>2, <1>6 DEF IInv, LinesInv
  <2> QED BY <1>3, <1>4, <1>6, <2>1
<1>8. FirstLine \in Lines
  BY <1>4, <1>5 DEF Lines, IInv, LinesInv
<1>9. espec # None
  BY <1>4, <1>5 DEF IInv, LinesInv, FirstLine, InRing
<1> QED BY <1>2, <1>3, <1>4, <1>5, <1>6, <1>7, <1>8, <1>9

LEMMA FinishLemma == ASSUME IInv, FinishLine PROVE IInv'
<1> PICK wqe : wqe = WQ[1]
  OBVIOUS
<1> PICK f : f = FirstLine
  OBVIOUS
<1>1. /\ tpc = "draw" /\ tpc' = "next" /\ DrawCounter' = DrawCounter - 1
      /\ UNCHANGED <<WQ, LIB, espec, NextOutLine, VCounter, mem, mpc, todo, asked, restarted>>
  BY DEF FinishLine, CountOff, Counted, lines
<1>2. /\ 1 \in 1 .. Len(WQ) /\ Queued(1) /\ wqe = Head(WQ) /\ wqe.line = f /\ f \in Lines
      /\ f < InRing /\ espec # None /\ WQ \in Seq(Entry)
  BY <1>1, FirstLemma DEF IInv, Types
<1>3. /\ want' = [want EXCEPT ![f] = {}]
      /\ picture' = [picture EXCEPT ![f] =
                       IF want[f] = {Shown(wqe.vdp2_line, mem, LIB)} THEN AsAsked ELSE Otherwise]
  BY <1>2 DEF FinishLine
<1>4. /\ f \in Int /\ InRing \in Int /\ InRing <= NextOutLine /\ NextOutLine \in Int
      /\ f = NextOutLine - DrawCounter /\ DrawCounter \in Nat
  BY DEF IInv, Types, FirstLine, InRing
<1>5. FirstLine' = f + 1 /\ InRing' = InRing /\ ToQueue' = ToQueue
  BY <1>1, <1>4 DEF FirstLine, InRing, ToQueue
<1>6. \A i \in 1 .. Len(WQ) : Queued(i)' = (i # 1 /\ Queued(i))
  BY <1>1 DEF Queued
<1>7. Types'
  <2>1. DrawCounter' \in Nat
    BY <1>1, <1>2, <1>4
  <2>2. want' \in [Lines -> SUBSET [mem : Values, lib : Values]]
    BY <1>3 DEF IInv, Types
  <2>3. picture' \in [Lines -> {NotDrawn, AsAsked, Otherwise}]
    BY <1>3 DEF IInv, Types
  <2> QED BY <1>1, <2>1, <2>2, <2>3 DEF IInv, Types
<1>8. TodoInv' /\ ThreadInv' /\ ExitInv'
  BY <1>1 DEF IInv, TodoInv, ThreadInv, ExitInv
<1>9. \A i \in 1 .. Len(WQ) : i # 1 /\ Queued(i) => WQ[i].line \in (f + 1) .. (InRing - 1)
  <2> TAKE i \in 1 .. Len(WQ)
  <2> HAVE i # 1 /\ Queued(i)
  <2>1. 1 < i
    BY <1>2
  <2>2. WQ[1].line < WQ[i].line /\ WQ[i].line \in f .. (InRing - 1)
    BY <1>2, <2>1 DEF IInv, LinesInv
  <2> QED BY <1>2, <1>4, <2>2
<1>10. LinesInv'
  <2>1. (0 <= FirstLine /\ FirstLine <= InRing)' /\ (espec = None => DrawCounter = 0)'
    BY <1>1, <1>2, <1>4, <1>5 DEF Lines
  <2>2. \A l \in (f + 1) .. (InRing - 1) : \E i \in 1 .. Len(WQ) : i # 1 /\ Queued(i) /\ WQ[i].line = l
    <3> TAKE l \in (f + 1) .. (InRing - 1)
    <3>1. l \in f .. (InRing - 1) /\ l # f
      BY <1>4
    <3> QED BY <1>2, <3>1 DEF IInv, LinesInv
  <2>3. ToQueue' => todo'[1].line = NextOutLine' - 1 /\ todo'[1].field = espec'
    BY <1>1, <1>5 DEF IInv, LinesInv
  <2>4. \A i \in 1 .. Len(WQ') :
          Queued(i)' => WQ'[i].line \in FirstLine' .. (InRing' - 1) /\ WQ'[i].field = espec'
    BY <1>1, <1>5, <1>6, <1>9 DEF IInv, LinesInv
  <2>5. \A i, j \in 1 .. Len(WQ') : i < j /\ Queued(i)' /\ Queued(j)' => WQ'[i].line < WQ'[j].line
    BY <1>1, <1>6 DEF IInv, LinesInv
  <2>6. \A l \in FirstLine' .. (InRing' - 1) : \E i \in 1 .. Len(WQ') : Queued(i)' /\ WQ'[i].line = l
    BY <1>1, <1>5, <1>6, <2>2
  <2> QED BY <2>1, <2>3, <2>4, <2>5, <2>6 DEF LinesInv
<1>11. PICK h \in [0 .. Len(WQ) -> Values] : Replay(h) /\ WantInv(h)
  BY DEF IInv, MemInv
<1>12. h[0] = mem /\ h[1] = mem
  BY <1>1, <1>2, <1>11 DEF Replay, Effect, Queued
<1>13. PictureInv'
  <2> SUFFICES ASSUME ~ restarted, NEW l \in Lines
               PROVE  picture'[l] = IF l >= f + 1 THEN NotDrawn ELSE AsAsked
    BY <1>1, <1>2, <1>5 DEF PictureInv
  <2>1. CASE l = f
    <3>1. Expected(WQ[1], h[1 - 1])
      BY <1>2, <1>11 DEF WantInv
    <3>2. want[f] = {Shown(wqe.vdp2_line, mem, LIB)}
      BY <1>2, <1>12, <3>1 DEF Expected
    <3> QED BY <1>2, <1>3, <1>4, <2>1, <3>2 DEF IInv, Types
  <2>2. CASE l # f
    <3>1. picture'[l] = picture[l]
      BY <1>2, <1>3, <2>2 DEF IInv, Types
    <3>2. picture[l] = IF l >= f THEN NotDrawn ELSE AsAsked
      BY <1>2 DEF IInv, PictureInv
    <3>3. l >= f <=> l >= f + 1
      BY <1>4, <2>2 DEF Lines
    <3> QED BY <3>1, <3>2, <3>3
  <2> QED BY <2>1, <2>2
<1>14. MemInv'
  <2>1. Replay(h)'
    BY <1>1, <1>11, <1>12 DEF Replay
  <2>2. WantInv(h)'
    <3> SUFFICES ASSUME ~ restarted PROVE WantInv(h)'
      BY <1>1 DEF WantInv
    <3>1. ASSUME NEW i \in 1 .. Len(WQ), Queued(i), i # 1
          PROVE  Expected(WQ[i], h[i - 1])'
      <4>1. WQ[i].line \in Lines /\ WQ[i].line # f
        BY <1>2, <1>4, <1>9, <3>1, DrawLemma DEF Queued
      <4>2. Expected(WQ[i], h[i - 1])
        BY <1>11, <3>1 DEF WantInv
      <4>3. want'[WQ[i].line] = want[WQ[i].line]
        BY <1>3, <4>1 DEF IInv, Types
      <4> QED BY <1>1, <4>2, <4>3 DEF Expected
    <3>2. ASSUME ToQueue PROVE Expected(todo[1], asked)'
      <4>1. Expected(todo[1], asked) /\ todo[1].line = NextOutLine - 1 /\ InRing = NextOutLine - 1
        BY <1>11, <3>2 DEF IInv, LinesInv, WantInv, InRing
      <4>2. todo[1].line # f /\ todo[1].line \in Lines
        <5>1. todo[1] \in Entry \cup {Wakeup} /\ todo[1].Command = "DRAW_LINE"
          BY <3>2, TailLemma DEF ToQueue
        <5> QED BY <1>2, <1>4, <4>1, <5>1, DrawLemma
      <4>3. want'[todo[1].line] = want[todo[1].line]
        BY <1>3, <4>2 DEF IInv, Types
      <4> QED BY <1>1, <4>1, <4>3 DEF Expected
    <3> QED BY <1>1, <1>5, <1>6, <3>1, <3>2 DEF WantInv
  <2> QED BY <1>1, <1>11, <2>1, <2>2 DEF MemInv
<1> QED BY <1>7, <1>8, <1>10, <1>13, <1>14 DEF IInv

LEMMA NextLemma == ASSUME IInv, NextEntry PROVE IInv'
<1> PICK n : n = Len(WQ) - 1
  OBVIOUS
<1>1. /\ tpc = "next" /\ WQ' = Tail(WQ) /\ tpc' = IF WQ[1] = EXIT THEN "done" ELSE "look"
      /\ WQ # <<>> /\ WQ \in Seq(Entry)
      /\ UNCHANGED <<DrawCounter, LIB, espec, NextOutLine, VCounter, mem, mpc, todo, picture,
                     asked, want, restarted>>
  BY DEF NextEntry, lines, history, IInv, Types, ThreadInv
<1>2. /\ n \in Nat /\ WQ' \in Seq(Entry) /\ Len(WQ') = n /\ Len(WQ) = n + 1
      /\ \A i \in 1 .. n : WQ'[i] = WQ[i + 1] /\ i + 1 \in 1 .. Len(WQ)
      /\ 1 \in 1 .. Len(WQ)
  BY <1>1
<1>3. \A i \in 1 .. n : Queued(i)' = Queued(i + 1)
  BY <1>1, <1>2 DEF Queued
<1>4. ~ Queued(1)
  BY <1>1 DEF Queued
<1>5. UNCHANGED <<FirstLine, InRing, ToQueue>>
  BY <1>1 DEF FirstLine, InRing, ToQueue
<1>6. Types' /\ TodoInv' /\ ThreadInv' /\ PictureInv'
  BY <1>1, <1>2, <1>5 DEF IInv, Types, TodoInv, ThreadInv, PictureInv
<1>7. ExitInv'
  BY <1>1, <1>2 DEF IInv, ExitInv
<1>8. LinesInv'
  <2>1. \A i \in 1 .. n : Queued(i)' => WQ'[i].line \in FirstLine .. (InRing - 1) /\ WQ'[i].field = espec
    BY <1>2, <1>3 DEF IInv, LinesInv
  <2>2. \A i, j \in 1 .. n : i < j /\ Queued(i)' /\ Queued(j)' => WQ'[i].line < WQ'[j].line
    <3> TAKE i, j \in 1 .. n
    <3> HAVE i < j /\ Queued(i)' /\ Queued(j)'
    <3>1. i + 1 < j + 1
      BY <1>2
    <3> QED BY <1>2, <1>3, <3>1 DEF IInv, LinesInv
  <2>3. \A l \in FirstLine .. (InRing - 1) : \E i \in 1 .. n : Queued(i)' /\ WQ'[i].line = l
    <3> TAKE l \in FirstLine .. (InRing - 1)
    <3>1. PICK k \in 1 .. Len(WQ) : Queued(k) /\ WQ[k].line = l
      BY DEF IInv, LinesInv
    <3>2. k - 1 \in 1 .. n /\ (k - 1) + 1 = k
      BY <1>2, <1>4, <3>1
    <3> QED BY <1>2, <1>3, <3>1, <3>2
  <2> QED BY <1>1, <1>2, <1>5, <2>1, <2>2, <2>3 DEF IInv, LinesInv
<1>9. MemInv'
  <2>1. PICK h \in [0 .. Len(WQ) -> Values] : Replay(h) /\ WantInv(h)
    BY DEF IInv, MemInv
  <2>2. PICK g \in [0 .. Len(WQ') -> Values] : \A i \in 0 .. n : g[i] = h[i + 1]
    <3> DEFINE g == [i \in 0 .. n |-> h[i + 1]]
    <3>1. g \in [0 .. Len(WQ') -> Values]
      BY <1>2, <2>1
    <3> QED BY <3>1
  <2>3. h[1] = mem /\ g[0] = mem /\ g[n] = h[Len(WQ)]
    BY <1>1, <1>2, <2>1, <2>2 DEF Replay
  <2>4. \A i \in 1 .. n : g[i] = Effect(WQ'[i], g[i - 1])
    <3> TAKE i \in 1 .. n
    <3>1. /\ g[i] = h[i + 1] /\ g[i - 1] = h[i] /\ (i + 1) - 1 = i
          /\ h[i + 1] = Effect(WQ[i + 1], h[(i + 1) - 1])
      BY <1>2, <2>1, <2>2 DEF Replay
    <3> QED BY <1>2, <3>1
  <2>5. Replay(g)'
    BY <1>1, <1>2, <2>1, <2>2, <2>3, <2>4 DEF Replay
  <2>6. WantInv(g)'
    <3>1. ASSUME ~ restarted, NEW i \in 1 .. n, Queued(i)'
          PROVE  Expected(WQ[i], g[i - 1])'
      <4>1. Expected(WQ[i + 1], h[(i + 1) - 1])
        BY <1>2, <1>3, <2>1, <3>1 DEF WantInv
      <4>2. g[i - 1] = h[(i + 1) - 1]
        BY <1>2, <2>2
      <4> QED BY <1>1, <1>2, <4>1, <4>2 DEF Expected
    <3>2. ~ restarted /\ ToQueue => Expected(todo[1], asked)'
      BY <1>1, <2>1 DEF WantInv, Expected
    <3> QED BY <1>1, <1>2, <1>5, <3>1, <3>2 DEF WantInv
  <2> QED BY <2>2, <2>5, <2>6 DEF MemInv
<1> QED BY <1>6, <1>7, <1>8, <1>9 DEF IInv

-----------------------------------------------------------------------------
(* The theorems *)

LEMMA StepLemma == IInv /\ [Next]_vars => IInv'
<1> SUFFICES ASSUME IInv, [Next]_vars PROVE IInv'
  OBVIOUS
<1>1. CASE UNCHANGED vars
  BY <1>1, QuietLemma
<1>2. CASE Emulation
  BY <1>2, WriteLemma, StartLemma, DrawsLemma, QuietLemma DEF Emulation
<1>3. CASE Committed
  BY <1>3, WWQLemma, PostLemma, EndLemma, StateLemma, QuietLemma DEF Committed
<1>4. CASE RThreadEntry
  BY <1>4, QuietLemma, ExecuteLemma, FinishLemma, NextLemma DEF RThreadEntry
<1> QED BY <1>1, <1>2, <1>3, <1>4 DEF Next

\* Every line shows the memory, and its own data, as they were when it was asked for,
\* and a frame ends with all its lines, however far behind the render thread is
\* (VDP2REND_DrawLine, VDP2REND_EndFrame and RThreadEntry).
THEOREM PictureAsAsked == Spec => []FramesAsAsked
<1>1. IInv => FramesAsAsked
  BY DEF IInv, PictureInv, FramesAsAsked
<1> QED BY <1>1, InitLemma, StepLemma, PTL DEF Spec

\* A line is drawn only into the frame that asked for it (RThreadEntry's espec).
THEOREM LineInItsFrame == Spec => []DrawsIntoItsFrame
<1>1. IInv => DrawsIntoItsFrame
  BY FirstLemma DEF DrawsIntoItsFrame
<1> QED BY <1>1, InitLemma, StepLemma, PTL DEF Spec

\* A state is saved or loaded with nothing queued, both copies of the memory equal and
\* the render thread idle (VDP2REND_StateAction).
THEOREM StateAtRest == Spec => []StateInStep
<1>1. IInv => StateInStep
  <2> SUFFICES ASSUME IInv, mpc = "state", WQ = <<>>
               PROVE  mem = asked /\ tpc \in {"look", "sleep"}
    BY DEF StateInStep, AllDone
  <2>1. todo = <<>>
    BY DEF IInv, TodoInv
  <2>2. tpc \in {"look", "sleep"}
    BY DEF IInv, Types, ThreadInv, ExitInv
  <2> QED BY <2>1, <2>2, EmptyLemma
<1> QED BY <1>1, InitLemma, StepLemma, PTL DEF Spec
=============================================================================
