------------------------------- MODULE CDBlock -------------------------------
(***************************************************************************)
(* The Saturn's CD block, ss/cdb.cpp: the drive fills sector buffers, the  *)
(* command loop carries out what the program writes to the registers, file *)
(* operations (FLS) run between commands, and the program transfers        *)
(* sectors word by word.  Time is left out: the drive, the command loop    *)
(* and the program interleave wherever clocks are waited for.              *)
(*                                                                         *)
(* Left out: audio sectors, scanning, seeking by track and index, the     *)
(* subcodes, and the HIRQ bits other than CMOK, PEND and EFLS.  A program  *)
(* is the set of commands it uses; it clears HIRQ and writes a command in  *)
(* one step, and waits for the answer before it writes the next one.       *)
(***************************************************************************)
EXTENDS CDBSelector

CONSTANTS Programs,      \* sets of commands, each with the disc it is for
          SectorWords,   \* 1176, the words of a whole sector
          Prefill,       \* 5, the words read ahead at the start of a transfer
          DirSectors     \* length of the root directory

ASSUME CDBlockAssumption == /\ SectorWords \in Nat /\ Prefill \in Nat
                            /\ Prefill < SectorWords /\ DirSectors \in Nat \ {0}

VARIABLES program,        \* which of the programs runs
          dt,             \* the data transfer
          secLen,         \* GetSecLen and PutSecLen
          drive,
          disc,           \* there is a Cur_CDIF
          AuthDiscType,
          cmd,            \* the command loop
          CommandPending, CData, hirq,
          Results, ResultsRead,
          ResetSelPending, SWResetPending, SWResetHIRQDeferred,
          fls, FileInfoValid, RootDirInfoValid,
          asked,          \* history: the sectors the current transfer is to deliver
          waiting,        \* the program waits for the answer to its command
          setup           \* commands the program has left to do first

hostVars == <<CommandPending, CData, waiting, setup>>
answerVars == <<hirq, Results, ResultsRead, SWResetHIRQDeferred>>
resetVars == <<ResetSelPending, SWResetPending>>
flsVars == <<fls, FileInfoValid, RootDirInfoValid>>
dtVars == <<dt, secLen, asked>>
vars == <<selVars, program, dtVars, drive, disc, AuthDiscType, cmd, hostVars,
          answerVars, resetVars, flsVars>>

\* Frame addresses of note: where the disc starts, the volume descriptor,
\* the root directory.  Off is 0xFFFFFF, the position of a stopped drive; the
\* drive gets no further than one sector into the lead-out, a bound of the model.
DiscStart == 1
Pvd == 2
RootDir == 3
Off == LeadOut + 2

RepeatForever == 15      \* a play that is to be repeated so often has no end
NoEnd == -1              \* CurPlayEnd 0; 0 stands for 0x800000, at once
All == -1                \* 0xFFFF as an offset or a number of sectors
Toc == -2                \* BufList's 0xFF
TocWords == 2

NoCommand == [op |-> "none"]

\* A command that names a filter or partition there is not is rejected before it
\* does anything, so programs here write none; numbers are words of the registers.
Valid(c) ==
  /\ c.op \in {"AUTH_DEVICE", "CHANGE_DIR", "READ_DIR", "READ_FILE", "GET_SECDATA", "GETDEL_SECDATA",
              "DEL_SECDATA", "COPY_SECDATA", "MOVE_SECDATA"} => c.part \in Filters
  /\ c.op = "RESET_SEL" /\ c.flags = {} => c.part \in Filters
  /\ c.op \in {"SET_FILTCONN", "SET_FILTRANGE", "SET_FILTMODE", "PUT_SECDATA", "COPY_SECDATA",
              "MOVE_SECDATA"} => c.filter \in Filters
  /\ c.op = "SET_CDDEVCONN" => c.filter \in Filters \cup {None}
  /\ c.op = "SET_FILTCONN" =>
       \A output \in {"true", "false"} \cap DOMAIN c : c[output] \in Filters \cup {None}
  /\ c.op \in {"GET_SECDATA", "GETDEL_SECDATA", "DEL_SECDATA", "COPY_SECDATA", "MOVE_SECDATA"} =>
       c.offs \in Nat \cup {All}
  /\ c.op \in {"GET_SECDATA", "GETDEL_SECDATA", "DEL_SECDATA", "COPY_SECDATA", "MOVE_SECDATA",
              "PUT_SECDATA"} => c.n \in Nat \cup {All}

Commands == UNION {p.commands \cup Range(p.setup) : p \in Programs}

ASSUME ProgramsAssumption == /\ \A p \in Programs : p.setup \in Seq(Commands)
                             /\ \A c \in Commands : Valid(c)
NoTransfer == [Active |-> FALSE, Writing |-> FALSE, NeedBufFree |-> FALSE,
               CurBufIndex |-> 1, BufList |-> <<>>, InBufOffs |-> 0, InBufCounter |-> 0,
               FIFO_In |-> 0, FNum |-> 0]
NoFile == [Active |-> FALSE, DoAuth |-> FALSE, Abort |-> FALSE, Phase |-> "idle",
           pnum |-> 0, left |-> 0]
-----------------------------------------------------------------------------
(* The drive: operators on its record *)

\* The sector that was read ahead is of no more use.
Dropped(d) == [d EXCEPT !.SecPreBuf_In = 0, !.buf = 0]

ClearPendingSec(d) == [Dropped(d) EXCEPT !.PlayEndIRQType = "none"]

\* The position to go to; from here the sectors follow one another (next).
SeekStart1(d) ==
  LET fad == IF d.CurPlayStart < DiscStart THEN DiscStart
             ELSE IF d.CurPlayStart > LeadOut THEN LeadOut ELSE d.CurPlayStart
  IN  [d EXCEPT !.fad = fad, !.next = fad]

SeekStart2(d) == [d EXCEPT !.DrivePhase = "SEEK_START3"]

ForceCompletePendingSeekStartup(d) ==
  CASE d.DrivePhase = "SEEK_START1" -> SeekStart2(SeekStart1(d))
    [] d.DrivePhase = "SEEK_START2" -> SeekStart2(d)
    [] OTHER -> d

StartSeek(d0, target, end, repeat, irq, no_pickup_change) ==
  LET d1 == ForceCompletePendingSeekStartup(d0)
      d2 == [(IF no_pickup_change THEN d1 ELSE ClearPendingSec(d1)) EXCEPT
               !.PlayRepeatCounter = 0, !.repeated = FALSE,
               !.CurPlayStart = target, !.CurPlayEnd = end,
               !.CurPlayRepeat = repeat, !.PlayEndIRQType = irq]
  IN  IF ~ disc THEN d0
      ELSE IF no_pickup_change /\ d2.DrivePhase = "PLAY" THEN d2
      ELSE [d2 EXCEPT !.idle = "may",
                      !.DrivePhase = IF no_pickup_change THEN "SEEK_START2" ELSE "SEEK_START1"]

\* To a position, there to pause.
SeekTo(d, target) == StartSeek(d, target, 0, 0, "none", FALSE)

\* Pause as soon as the drive looks.
PauseSoon(d) == [d EXCEPT !.PlayEndIRQType = "none", !.CurPlayEnd = 0, !.CurPlayRepeat = 0]

CheckEndMet(d) == \/ d.fad >= LeadOut
                  \/ d.CurPlayEnd # NoEnd /\ d.fad >= d.CurPlayEnd
                  \/ d.fad < d.CurPlayStart

\* Mutant: the drive goes on from the sector after the one it had no room for.
ResumeBehind(d) == [d EXCEPT !.DrivePhase = "SEEK_START2", !.idle = "may",
                             !.fad = @ + 1]

\* From a pause back to where it was.
Resume(d) == [d EXCEPT !.DrivePhase = "SEEK_START2", !.idle = "may"]

CheckBufPauseResume(d, free) ==
  IF d.DrivePhase = "PAUSE" /\ ~ CheckEndMet(d) /\ free > 0
  THEN Resume(Dropped(d)) ELSE d

-----------------------------------------------------------------------------
(* Drive_Run.  idle says when the periodic check comes: "must" before the    *)
(* drive's next step, for 17712 clocks are less than a sector's time, "not"  *)
(* before it, or "may" at any time, after a command has reloaded its counter. *)

EjectedStep ==
  \/ /\ drive.DrivePhase = "EJECTED0"
     /\ drive' = [drive EXCEPT !.DrivePhase = "EJECTED1", !.fad = Off]
     /\ AuthDiscType' = 0
     /\ FileInfoValid' = FALSE /\ RootDirInfoValid' = FALSE
     /\ UNCHANGED <<hirq, fls>>
  \/ /\ drive.DrivePhase = "EJECTED1"
     /\ drive' = [drive EXCEPT !.DrivePhase = "EJECTED_WAITING"]
     /\ hirq' = hirq \cup {"EFLS"}
     /\ UNCHANGED <<AuthDiscType, flsVars>>
  \/ /\ drive.DrivePhase = "EJECTED_WAITING" /\ disc
     /\ drive' = [drive EXCEPT !.DrivePhase = "STARTUP"]
     /\ UNCHANGED <<hirq, AuthDiscType, flsVars>>
  \/ /\ drive.DrivePhase = "STARTUP"
     /\ drive' = SeekTo(drive, DiscStart)
     /\ UNCHANGED <<hirq, AuthDiscType, flsVars>>

SeekStep ==
  /\ drive.DrivePhase \in {"SEEK_START1", "SEEK_START2", "SEEK_START3", "SEEK"}
  /\ drive' = CASE drive.DrivePhase = "SEEK_START1" -> SeekStart2(SeekStart1(drive))
                [] drive.DrivePhase = "SEEK_START2" -> SeekStart2(drive)
                [] drive.DrivePhase = "SEEK_START3" ->
                     [drive EXCEPT !.DrivePhase = "SEEK", !.CurSector = drive.fad]
                [] drive.DrivePhase = "SEEK" /\ drive.CurSector < Off ->
                     [drive EXCEPT !.DrivePhase = "PLAY"]
                [] OTHER -> drive
  /\ UNCHANGED <<hirq, AuthDiscType, flsVars>>

\* The sector at CurSector comes off the disc.
ReadSector(d) ==
  [(IF d.SecPreBuf_In # 0 THEN d
    ELSE [d EXCEPT !.SecPreBuf_In = 1, !.buf = d.CurSector, !.fad = d.CurSector])
   EXCEPT !.idle = "must"]

\* The sector in SecPreBuf has been dealt with.
SectorTaken(d) == [Dropped(d) EXCEPT !.CurSector = @ + 1, !.next = @ + 1]

\* A sector goes into a buffer, which the filters put where it belongs.
Deliver(B, s) ==
  LET b == B.FirstFreeBuf
  IN  FilterBuf([Buffer_Allocate(B) EXCEPT !.Data[b] = s], FalseConn, CDDevConn, b)

\* The buffers of a transfer that does not keep them may be given out anew.
StillAsked(b) ==
  [i \in DOMAIN asked |-> IF ~ dt.NeedBufFree /\ dt.BufList[i] = b THEN None ELSE asked[i]]

PlayStep ==
  /\ drive.DrivePhase = "PLAY" /\ drive.CurSector <= LeadOut
  /\ IF drive.SecPreBuf_In = 1 /\ pool.FreeBufferCount > 0
     THEN /\ drive' = ReadSector(SectorTaken(drive))
          /\ IF AuthDiscType # 0
             THEN /\ pool' = Deliver(pool, drive.buf)
                  /\ asked' = StillAsked(pool.FirstFreeBuf)
             ELSE UNCHANGED <<pool, asked>>
     ELSE drive' = ReadSector(drive) /\ UNCHANGED <<pool, asked>>
  /\ UNCHANGED <<hirq, AuthDiscType, flsVars>>

PauseStep ==
  /\ drive.DrivePhase = "PAUSE"
  /\ drive' = ReadSector(drive)
  /\ UNCHANGED <<hirq, AuthDiscType, flsVars>>

DriveStep ==
  /\ drive.DrivePhase # "RESETTING" /\ drive.idle # "must"
  /\ \/ EjectedStep /\ UNCHANGED <<pool, asked>>
     \/ SeekStep /\ UNCHANGED <<pool, asked>>
     \/ PlayStep
     \/ PauseStep /\ UNCHANGED <<pool, asked>>
  /\ UNCHANGED <<CDDevConn, TrueConn, FalseConn, cond, program, dt, secLen, disc, cmd, hostVars,
                 Results, ResultsRead, SWResetHIRQDeferred, resetVars>>

\* The end is near enough: pause there, or start over.
AtTheEnd(d) ==
  IF d.repeated \/ d.PlayRepeatCounter >= d.CurPlayRepeat
  THEN [d EXCEPT !.CurSector = d.fad, !.DrivePhase = "PAUSE",
                 !.PauseCounter = IF d.PlayEndIRQType # "none" THEN 0 ELSE 1]
  ELSE SeekStart2(SeekStart1([d EXCEPT !.PlayRepeatCounter = IF @ < RepeatForever - 1 THEN @ + 1 ELSE @,
                                       !.repeated = TRUE]))

InPause(d) ==
  CASE d.PauseCounter = 1 ->
         [d EXCEPT !.PauseCounter = -1,
                   !.PlayEndIRQType = IF CheckEndMet(d) THEN "none" ELSE @]
    [] d.PauseCounter = -1 /\ ~ CheckEndMet(d) /\ pool.FreeBufferCount > 0 -> Resume(d)
    [] d.PauseCounter = 0 -> [d EXCEPT !.PauseCounter = 1]
    [] OTHER -> d

\* What the check makes of the sector that waits in SecPreBuf.
Looked(d) ==
  LET e == Dropped(d)
  IN  CASE d.DrivePhase = "PAUSE" -> InPause(e)
        [] d.DrivePhase = "PLAY" /\ CheckEndMet(d) -> AtTheEnd(e)
        [] d.DrivePhase = "PLAY" /\ ~ CheckEndMet(d) /\ pool.FreeBufferCount = 0 ->
             [e EXCEPT !.DrivePhase = "PAUSE", !.PauseCounter = 0]
        [] OTHER -> [d EXCEPT !.repeated = FALSE]

\* Mutant: a pause for want of room counts as the end.
PlayEndDueAnyPause(d) ==
  d.DrivePhase = "PAUSE" /\ d.PauseCounter = 1 /\ d.PlayEndIRQType # "none" /\ ~ d.repeated

PlayEndDue(d) == /\ d.DrivePhase = "PAUSE" /\ d.PauseCounter = 1 /\ CheckEndMet(d)
                 /\ d.PlayEndIRQType # "none" /\ ~ d.repeated

PeriodicCheck ==
  /\ drive.DrivePhase # "RESETTING" /\ drive.idle # "not"
  /\ LET sector == drive.SecPreBuf_In # 0 /\ drive.DrivePhase \in {"PLAY", "PAUSE"}
         d == IF sector THEN Looked(drive) ELSE drive
     IN  /\ drive' = [d EXCEPT !.idle = IF d.DrivePhase \in {"PLAY", "PAUSE"} THEN "not" ELSE "may"]
         /\ hirq' = IF sector /\ PlayEndDue(drive) THEN hirq \cup {drive.PlayEndIRQType} ELSE hirq
  /\ Results' = IF ResultsRead THEN "report" ELSE Results
  /\ UNCHANGED <<selVars, program, dtVars, disc, AuthDiscType, cmd, hostVars, ResultsRead,
                 SWResetHIRQDeferred, resetVars, flsVars>>

-----------------------------------------------------------------------------
(* Data transfer *)

\* Words of a sector that a sector length skips, and words that it has.
Skipped(len) == IF len = "2352" THEN 0 ELSE 1

\* Mutant: as many as if none were skipped.
WordsWhole(len) == SectorWords

Words(len) == SectorWords - Skipped(len)

\* On to the next buffer of the transfer, of the length that is set by now.
DT_SetIBOffsCount(t) ==
  LET len == IF t.Writing THEN secLen.put ELSE secLen.get
  IN  [t EXCEPT !.InBufOffs = Skipped(len), !.InBufCounter = Words(len)]

\* n words of the buffer are read or written.
Advance(t, n) ==
  LET u == [t EXCEPT !.InBufOffs = @ + n, !.InBufCounter = @ - n]
      v == [u EXCEPT !.CurBufIndex = @ + 1]
  IN  IF u.InBufCounter > 0 THEN u
      ELSE IF v.CurBufIndex <= Len(v.BufList) THEN DT_SetIBOffsCount(v) ELSE v

DT_ReadIntoFIFO(t, n) == [Advance(t, n) EXCEPT !.FIFO_In = @ + n]

NewTransfer(list, del) ==
  [NoTransfer EXCEPT !.Active = TRUE, !.NeedBufFree = del, !.BufList = list]

ReadWord ==
  /\ dt.Active /\ ~ dt.Writing /\ dt.InBufCounter + dt.FIFO_In > 0
  /\ dt' = LET t == IF dt.InBufCounter > 0 THEN DT_ReadIntoFIFO(dt, 1) ELSE dt
           IN  [t EXCEPT !.FIFO_In = @ - 1]
  /\ UNCHANGED pool

WriteWord ==
  /\ dt.Active /\ dt.Writing /\ dt.InBufCounter > 0
  /\ pool' = [pool EXCEPT !.Data[dt.BufList[dt.CurBufIndex]] = Written]
  /\ dt' = Advance(dt, 1)

TransferWord ==
  /\ ReadWord \/ WriteWord
  /\ UNCHANGED <<CDDevConn, TrueConn, FalseConn, cond, secLen, asked, program, drive, disc,
                 AuthDiscType, cmd, hostVars, answerVars, resetVars, flsVars>>

-----------------------------------------------------------------------------
(* Commands: what each does by the time it has been answered.  What is not   *)
(* possible is answered too, as rejected or to be repeated, and changes       *)
(* nothing.                                                                   *)

connVars == <<CDDevConn, TrueConn, FalseConn, cond>>
fileVars == <<AuthDiscType, flsVars>>
Rest == <<pool, connVars, dtVars, drive, fileVars, ResetSelPending>>

\* After the answer the loop waits some clocks, or goes on at once (now); then
\* come its interrupts and, if buffers were freed, the end of a pause.
Goes(phase, tail) == cmd' = [phase |-> phase, CTR |-> NoCommand, tail |-> tail]
Then(tail) == Goes("tail", tail)
Now(tail) == Goes("now", tail)

Query(c) == Now({}) /\ UNCHANGED Rest

GetToc(c) ==
  /\ dt' = [NewTransfer(<<Toc>>, FALSE) EXCEPT !.InBufCounter = TocWords]
  /\ asked' = <<None>>
  /\ Then({})
  /\ UNCHANGED <<pool, connVars, secLen, drive, fileVars, ResetSelPending>>

Initialize(c) ==
  /\ drive' = PauseSoon(ClearPendingSec(drive))
  /\ Goes(IF c.reset THEN "init" ELSE "now", {})
  /\ UNCHANGED <<pool, connVars, dtVars, fileVars, ResetSelPending>>

\* What was written goes through the filter; what was kept for reading is freed.
EndDataXfer(c) ==
  /\ dt' = NoTransfer /\ asked' = <<>>
  /\ IF dt.Writing
     THEN /\ pool' = FoldLeft(LAMBDA B, b : FilterBuf(B, InputFreed(dt.FNum).false, dt.FNum, b),
                              pool, dt.BufList)
          /\ Filter_DisconnectInput(dt.FNum)
     ELSE /\ pool' = IF dt.NeedBufFree THEN FoldLeft(Buffer_Free, pool, dt.BufList) ELSE pool
          /\ UNCHANGED <<CDDevConn, FalseConn>>
  /\ IF dt.BufList = <<Toc>> THEN Now({"resume"}) ELSE Then({"resume"})
  /\ UNCHANGED <<TrueConn, cond, secLen, drive, fileVars, ResetSelPending>>

Play(c) == drive' = StartSeek(drive, c.start, c.end, c.repeat, "PEND", c.keep)

Seek(c) == drive' = SeekTo(drive, c.to)

Stop(c) == drive' = [ClearPendingSec(drive) EXCEPT !.fad = Off,
                                                   !.DrivePhase = "STOPPED"]

Pause(c) ==
  LET d == IF drive.DrivePhase = "STOPPED" THEN SeekTo(drive, DiscStart) ELSE drive
  IN  drive' = PauseSoon([d EXCEPT !.SecPreBuf_In = IF @ = 0 THEN 0 ELSE -1])

DriveCommand(c) ==
  /\ CASE c.op = "PLAY" -> Play(c) [] c.op = "SEEK" -> Seek(c)
       [] c.op = "STOP" -> Stop(c) [] c.op = "PAUSE" -> Pause(c)
  /\ Now({})
  /\ UNCHANGED <<pool, connVars, dtVars, fileVars, ResetSelPending>>

AuthDevice(c) ==
  /\ fls' = [fls EXCEPT !.pnum = c.part, !.DoAuth = TRUE, !.Active = TRUE]
  /\ Now({})
  /\ UNCHANGED <<pool, connVars, dtVars, drive, AuthDiscType, FileInfoValid, RootDirInfoValid,
                 ResetSelPending>>

SetCDDevConn(c) ==
  /\ SetCDDeviceConn(c.filter)
  /\ Then({})
  /\ UNCHANGED <<pool, TrueConn, cond, dtVars, drive, fileVars, ResetSelPending>>

SetFiltCond(c) ==
  /\ cond' = [cond EXCEPT ![c.filter] = IF c.op = "SET_FILTRANGE" THEN [@ EXCEPT !.range = c.range]
                                        ELSE IF c.reset THEN NoCond ELSE [@ EXCEPT !.fadr = TRUE]]
  /\ Then({})
  /\ UNCHANGED <<pool, CDDevConn, TrueConn, FalseConn, dtVars, drive, fileVars, ResetSelPending>>

\* One of the two outputs, or both.
SetFiltConn(c) ==
  /\ TrueConn' = IF "true" \in DOMAIN c THEN [TrueConn EXCEPT ![c.filter] = c.true] ELSE TrueConn
  /\ IF "false" \in DOMAIN c THEN Filter_SetFalseConn(c.filter, c.false)
     ELSE UNCHANGED <<CDDevConn, FalseConn>>
  /\ Then({})
  /\ UNCHANGED <<pool, cond, dtVars, drive, fileVars, ResetSelPending>>

ResetPartition(c) ==
  /\ pool' = Partition_Clear(pool, c.part)
  /\ Then({"resume"})
  /\ UNCHANGED <<connVars, dtVars, drive, fileVars, ResetSelPending>>

ResetSel(c) ==
  /\ ResetSelPending' = c.flags
  /\ Goes("resetsel", {})
  /\ UNCHANGED <<pool, connVars, dtVars, drive, fileVars>>

SetSecLen(c) ==
  /\ secLen' = [get |-> c.get, put |-> c.put]
  /\ Now({})
  /\ UNCHANGED <<pool, connVars, dt, asked, drive, fileVars, ResetSelPending>>

\* The part of a partition that a command names, and whether there is such a part.
Offset(c) == IF c.offs = All THEN pool.Count[c.part] - 1 ELSE c.offs
NumSec(c) == IF c.n = All THEN pool.Count[c.part] - Offset(c) ELSE c.n
InRange(c) == NumSec(c) > 0 /\ Offset(c) >= 0 /\ Offset(c) + NumSec(c) <= pool.Count[c.part]
Named(c) == From(pool, Partition_GetBuffer(pool, c.part, Offset(c)), NumSec(c))

GetSecData(c) ==
  LET list == Named(c)
      t == NewTransfer(list, c.op = "GETDEL_SECDATA")
  IN  /\ dt' = DT_ReadIntoFIFO(DT_SetIBOffsCount(t), Prefill)
      /\ asked' = [i \in DOMAIN list |-> pool.Data[list[i]]]
      /\ pool' = IF c.op = "GETDEL_SECDATA"
                 THEN FoldLeft(LAMBDA B, b : Partition_UnlinkBuffer(B, c.part, b), pool, list)
                 ELSE pool
      /\ Then({})
      /\ UNCHANGED <<connVars, secLen, drive, fileVars, ResetSelPending>>

DelSecData(c) ==
  /\ pool' = FoldLeft(LAMBDA B, b : UnlinkAndFree(B, c.part, b), pool, Named(c))
  /\ Then({"resume"})
  /\ UNCHANGED <<connVars, dtVars, drive, fileVars, ResetSelPending>>

\* n buffers are taken for the program to write.
PutSecData(c) ==
  LET taken == FoldLeft(LAMBDA acc, i : [B |-> Buffer_Allocate([acc.B EXCEPT !.Data[acc.B.FirstFreeBuf] = Written]),
                                         l |-> Append(acc.l, acc.B.FirstFreeBuf)],
                        [B |-> pool, l |-> <<>>], [i \in 1 .. c.n |-> i])
  IN  /\ pool' = taken.B
      /\ dt' = DT_SetIBOffsCount([NewTransfer(taken.l, FALSE) EXCEPT !.Writing = TRUE, !.FNum = c.filter])
      /\ asked' = [i \in 1 .. c.n |-> None]
      /\ Filter_DisconnectInput(c.filter)
      /\ Then({})
      /\ UNCHANGED <<TrueConn, cond, secLen, drive, fileVars, ResetSelPending>>

\* Sectors go to a filter: the very buffers, or copies in buffers of their own.
MoveSector(B, p, f, b) ==
  FilterBuf(Partition_UnlinkBuffer(B, p, b), InputFreed(f).false, f, b)

CopySector(B, f, b) ==
  LET a == B.FirstFreeBuf
  IN  FilterBuf([Buffer_Allocate(B) EXCEPT !.Data[a] = B.Data[b]], InputFreed(f).false, f, a)

CopyMoveSecData(c) ==
  /\ pool' = FoldLeft(LAMBDA B, b : IF c.op = "MOVE_SECDATA" THEN MoveSector(B, c.part, c.filter, b)
                                      ELSE CopySector(B, c.filter, b),
                      pool, Named(c))
  /\ Filter_DisconnectInput(c.filter)
  /\ Then({})
  /\ UNCHANGED <<TrueConn, cond, dtVars, drive, fileVars, ResetSelPending>>

\* CHANGE_DIR to the directory that is read already.
Stays(c) == c.op = "CHANGE_DIR" /\ c.same

\* CHANGE_DIR and READ_DIR; the work, if there is any, is done between commands.
ChangeDir(c) ==
  /\ IF Stays(c) THEN Then({"EFLS"}) /\ UNCHANGED fls
     ELSE /\ fls' = [fls EXCEPT !.pnum = c.part, !.DoAuth = FALSE, !.Active = TRUE]
          /\ Now({})
  /\ UNCHANGED <<pool, connVars, dtVars, drive, AuthDiscType, FileInfoValid, RootDirInfoValid,
                 ResetSelPending>>

ReadFile(c) ==
  /\ pool' = Partition_Clear(pool, c.part)
  /\ ConnectDriveTo(c.part)
  /\ cond' = [cond EXCEPT ![c.part] = [fadr |-> TRUE, range |-> c.start .. (c.end - 1)]]
  /\ drive' = StartSeek(drive, c.start, c.end, 0, "EFLS", FALSE)
  /\ Now({})
  /\ UNCHANGED <<dtVars, fileVars, ResetSelPending>>

AbortFile(c) ==
  /\ fls' = [fls EXCEPT !.Abort = TRUE]
  /\ Now({})
  /\ UNCHANGED <<pool, connVars, dtVars, drive, AuthDiscType, FileInfoValid, RootDirInfoValid,
                 ResetSelPending>>

\* What a command needs; without it the answer is "rejected" or "wait".
Possible(c) ==
  CASE c.op = "GET_TOC" -> drive.DrivePhase # "STARTUP" /\ ~ dt.Active
    [] c.op = "END_DATAXFER" -> dt.Active
    [] c.op = "AUTH_DEVICE" -> ~ fls.Active
    [] c.op = "CHANGE_DIR" -> ~ fls.Active /\ (c.same => FileInfoValid)
    [] c.op \in {"READ_DIR", "READ_FILE"} -> ~ fls.Active /\ FileInfoValid
    [] c.op \in {"GET_SECDATA", "GETDEL_SECDATA", "MOVE_SECDATA"} -> ~ dt.Active /\ InRange(c)
    [] c.op = "COPY_SECDATA" -> ~ dt.Active /\ InRange(c) /\ NumSec(c) <= pool.FreeBufferCount
    [] c.op = "DEL_SECDATA" -> InRange(c)
    [] c.op = "PUT_SECDATA" -> ~ dt.Active /\ c.n > 0 /\ c.n <= pool.FreeBufferCount
    [] c.op \in {"GET_CDSTATUS", "GET_CDDEVCONN"} -> FALSE
    [] OTHER -> TRUE

Carry(c) ==
  \/ c.op = "GET_TOC" /\ GetToc(c)
  \/ c.op = "INIT" /\ Initialize(c)
  \/ c.op = "END_DATAXFER" /\ EndDataXfer(c)
  \/ c.op \in {"PLAY", "SEEK", "STOP", "PAUSE"} /\ DriveCommand(c)
  \/ c.op = "AUTH_DEVICE" /\ AuthDevice(c)
  \/ c.op = "SET_CDDEVCONN" /\ SetCDDevConn(c)
  \/ c.op \in {"SET_FILTRANGE", "SET_FILTMODE"} /\ SetFiltCond(c)
  \/ c.op = "SET_FILTCONN" /\ SetFiltConn(c)
  \/ c.op = "RESET_SEL" /\ IF c.flags = {} THEN ResetPartition(c) ELSE ResetSel(c)
  \/ c.op = "SET_SECLEN" /\ SetSecLen(c)
  \/ c.op \in {"GET_SECDATA", "GETDEL_SECDATA"} /\ GetSecData(c)
  \/ c.op = "DEL_SECDATA" /\ DelSecData(c)
  \/ c.op = "PUT_SECDATA" /\ PutSecData(c)
  \/ c.op \in {"COPY_SECDATA", "MOVE_SECDATA"} /\ CopyMoveSecData(c)
  \/ c.op \in {"CHANGE_DIR", "READ_DIR"} /\ ChangeDir(c)
  \/ c.op = "READ_FILE" /\ ReadFile(c)
  \/ c.op = "ABORT_FILE" /\ AbortFile(c)

-----------------------------------------------------------------------------
(* The command loop.  Its phases are the places where it waits for clocks,     *)
(* and two where it does not: "now", and "top", where the next round begins. *)

Latch ==
  /\ cmd.phase \in {"top", "idle"} /\ CommandPending
  /\ cmd' = [cmd EXCEPT !.phase = "exec", !.CTR = CData]
  /\ CData' = NoCommand
  /\ UNCHANGED <<selVars, program, dtVars, drive, disc, fileVars, CommandPending, waiting, setup,
                 answerVars, resetVars>>

Answer ==
  /\ CommandPending' = FALSE
  /\ hirq' = hirq \cup {"CMOK"} \cup IF SWResetHIRQDeferred THEN {"EFLS"} ELSE {}
  /\ SWResetHIRQDeferred' = FALSE
  /\ Results' = "answer" /\ ResultsRead' = FALSE

Exec ==
  /\ cmd.phase = "exec"
  /\ Answer
  /\ IF (fls.Active /\ fls.DoAuth) \/ ~ Possible(cmd.CTR) THEN Query(cmd.CTR) ELSE Carry(cmd.CTR)
  /\ UNCHANGED <<program, disc, CData, waiting, setup, SWResetPending>>

\* INIT's clocks are over; a command that came meanwhile goes before the reset.
InitEnd ==
  /\ cmd.phase = "init"
  /\ SWResetPending' = TRUE
  /\ Goes(IF CommandPending THEN "top" ELSE "now", {})
  /\ UNCHANGED <<selVars, program, dtVars, drive, disc, fileVars, hostVars, answerVars, ResetSelPending>>

\* Some games ask for the connection before RESET_SEL has reset it, and get it.
AskedBeforeReset ==
  /\ cmd.phase = "resetsel"
  /\ "input" \in ResetSelPending /\ ResetSelPending \cap {"data", "output", "cond"} # {}
  /\ CommandPending /\ CData.op = "GET_CDDEVCONN"

\* What RESET_SEL's flags reset; "output", the partitions' outputs, nothing yet.
ResetSelected(flags) ==
  /\ cond' = IF "cond" \in flags THEN [f \in Filters |-> NoCond] ELSE cond
  /\ CDDevConn' = IF "input" \in flags THEN None ELSE CDDevConn
  /\ TrueConn' = IF "true" \in flags THEN [f \in Filters |-> f] ELSE TrueConn
  /\ FalseConn' = IF flags \cap {"input", "false"} # {} THEN [f \in Filters |-> None] ELSE FalseConn

SWReset ==
  /\ pool' = ResetBuffers(pool)
  /\ CDDevConn' = None
  /\ TrueConn' = [f \in Filters |-> f] /\ FalseConn' = [f \in Filters |-> None]
  /\ cond' = [f \in Filters |-> NoCond]
  /\ secLen' = [get |-> "2048", put |-> "2048"]
  /\ dt' = NoTransfer /\ asked' = <<>>
  /\ fls' = NoFile /\ FileInfoValid' = FALSE /\ RootDirInfoValid' = FALSE

\* A command's interrupts, and the resets that it or an earlier one asked for.
CommandEnd ==
  /\ cmd.phase \in {"tail", "now", "resetsel"}
  /\ hirq' = hirq \cup (cmd.tail \cap {"EFLS"})
  /\ IF AskedBeforeReset
     THEN /\ Goes("top", {})
          /\ UNCHANGED <<selVars, dtVars, drive, fls, FileInfoValid, RootDirInfoValid, resetVars>>
     ELSE LET B == IF "data" \in ResetSelPending THEN ClearAll(pool) ELSE pool
              d == IF "resume" \in cmd.tail \/ ResetSelPending # {}
                   THEN CheckBufPauseResume(drive, B.FreeBufferCount) ELSE drive
          IN  /\ ResetSelPending' = {} /\ SWResetPending' = FALSE
              /\ Goes(IF SWResetPending THEN "swreset" ELSE "top", {})
              /\ IF SWResetPending
                 THEN SWReset /\ drive' = PauseSoon(ClearPendingSec(d))
                 ELSE /\ pool' = B /\ drive' = d
                      /\ ResetSelected(ResetSelPending)
                      /\ UNCHANGED <<dtVars, fls, FileInfoValid, RootDirInfoValid>>
  /\ UNCHANGED <<program, disc, AuthDiscType, hostVars, Results, ResultsRead, SWResetHIRQDeferred>>

\* Mutant: the reset's interrupts come at once.
OvertakenNever == FALSE

\* A command has come meanwhile: it is for its answer to bring the interrupts.
Overtaken == CommandPending

SWResetEnd ==
  /\ cmd.phase = "swreset"
  /\ SWResetHIRQDeferred' = Overtaken
  /\ hirq' = IF Overtaken THEN hirq ELSE hirq \cup {"CMOK", "EFLS"}
  /\ Goes("top", {})
  /\ UNCHANGED <<selVars, program, dtVars, drive, disc, fileVars, hostVars, Results, ResultsRead, resetVars>>

\* The end of the long reset that CDB_ResetCD starts.
ResetEnd ==
  /\ cmd.phase = "reset"
  /\ SWReset
  /\ drive' = [PauseSoon(ClearPendingSec(drive)) EXCEPT
                 !.DrivePhase = "EJECTED_WAITING", !.idle = "may",
                 !.fad = Off, !.CurSector = 0, !.PlayRepeatCounter = 0, !.repeated = FALSE]
  /\ AuthDiscType' = 0
  /\ CommandPending' = FALSE
  /\ SWResetPending' = FALSE /\ SWResetHIRQDeferred' = FALSE /\ ResetSelPending' = {}
  /\ Results' = "reset" /\ ResultsRead' = FALSE
  /\ hirq' = hirq \cup {"CMOK", "EFLS"}
  /\ Goes("top", {})
  /\ CData' = NoCommand
  /\ UNCHANGED <<program, disc, waiting, setup>>

\* The interrupt that ends a file operation.
FileEnd ==
  /\ cmd.phase = "fls"
  /\ hirq' = hirq \cup {"EFLS"}
  /\ Goes("top", {})
  /\ UNCHANGED <<selVars, program, dtVars, drive, disc, fileVars, hostVars, Results, ResultsRead,
                 SWResetHIRQDeferred, resetVars>>

-----------------------------------------------------------------------------
(* FLS_Run, which runs when no command is pending, as far as it gets without  *)
(* another sector.  A step here ends where the code waits for one.           *)

\* n sectors are taken off the partition that the operation reads from.
Grabbed(n) ==
  [B |-> FoldLeft(LAMBDA B, b : UnlinkAndFree(B, fls.pnum, b), pool,
                  From(pool, pool.FirstBuf[fls.pnum], n)),
   d |-> CheckBufPauseResume(drive, pool.FreeBufferCount + n)]

Finished == fls' = [NoFile EXCEPT !.pnum = fls.pnum] /\ Goes("fls", {})

StillRunning(phase) == fls' = [fls EXCEPT !.Phase = phase] /\ UNCHANGED cmd

\* The directory is read from its first sector on.
ReadDirStart(B, d) ==
  /\ pool' = Partition_Clear(B, fls.pnum)
  /\ cond' = [cond EXCEPT ![fls.pnum] =
                [fadr |-> TRUE, range |-> RootDir .. (RootDir + DirSectors - 1)]]
  /\ drive' = StartSeek(d, RootDir, NoEnd, 0, "none", FALSE)
  /\ FileInfoValid' = FALSE
  /\ fls' = [fls EXCEPT !.Phase = "dir", !.left = DirSectors]
  /\ UNCHANGED cmd

FlsAbort ==
  /\ fls.Abort
  /\ Finished
  /\ drive' = PauseSoon(drive)
  /\ UNCHANGED <<pool, connVars, AuthDiscType, FileInfoValid, RootDirInfoValid>>

AuthStart ==
  /\ fls.Phase = "idle" /\ fls.Active /\ fls.DoAuth
  /\ ConnectDriveTo(fls.pnum)
  /\ cond' = [cond EXCEPT ![fls.pnum] = NoCond]
  /\ AuthDiscType' = 255
  /\ drive' = StartSeek(drive, DiscStart, NoEnd, 0, "none", FALSE)
  /\ StillRunning("auth")
  /\ UNCHANGED <<pool, FileInfoValid, RootDirInfoValid>>

\* A Saturn disc, if that is what the sector says.
AuthEnd ==
  /\ fls.Phase = "auth" /\ pool.Count[fls.pnum] > 0
  /\ AuthDiscType' = IF pool.Data[pool.FirstBuf[fls.pnum]] = DiscStart THEN 4 ELSE 2
  /\ pool' = Partition_Clear(Grabbed(1).B, fls.pnum)
  /\ SetCDDeviceConn(None)
  /\ drive' = PauseSoon(SeekTo(Grabbed(1).d, DiscStart))
  /\ Finished
  /\ UNCHANGED <<TrueConn, cond, FileInfoValid, RootDirInfoValid>>

DirStart ==
  /\ fls.Phase = "idle" /\ fls.Active /\ ~ fls.DoAuth
  /\ ConnectDriveTo(fls.pnum)
  /\ IF RootDirInfoValid THEN ReadDirStart(pool, drive)
     ELSE /\ cond' = [cond EXCEPT ![fls.pnum] = NoCond]
          /\ drive' = StartSeek(drive, Pvd, NoEnd, 0, "none", FALSE)
          /\ StillRunning("root")
          /\ UNCHANGED <<pool, FileInfoValid>>
  /\ UNCHANGED <<AuthDiscType, RootDirInfoValid>>

\* Descriptors of another kind are passed over.  Without the primary one there is
\* no directory to read.
RootRead ==
  /\ fls.Phase = "root" /\ pool.Count[fls.pnum] > 0
  /\ LET sector == pool.Data[pool.FirstBuf[fls.pnum]]
     IN  \/ /\ sector \in program.others
            /\ pool' = Grabbed(1).B /\ drive' = Grabbed(1).d
            /\ UNCHANGED <<cond, fls, cmd, FileInfoValid, RootDirInfoValid>>
         \/ /\ sector = Pvd /\ sector \notin program.others
            /\ RootDirInfoValid' = TRUE
            /\ ReadDirStart(Grabbed(1).B, Grabbed(1).d)
         \/ /\ sector # Pvd /\ sector \notin program.others
            /\ pool' = Partition_Clear(Grabbed(1).B, fls.pnum)
            /\ drive' = PauseSoon(Grabbed(1).d)
            /\ Finished
            /\ UNCHANGED <<cond, FileInfoValid, RootDirInfoValid>>
  /\ UNCHANGED <<CDDevConn, TrueConn, FalseConn, AuthDiscType>>

DirRead ==
  /\ fls.Phase = "dir" /\ pool.Count[fls.pnum] > 0
  /\ LET n == IF pool.Count[fls.pnum] < fls.left THEN pool.Count[fls.pnum] ELSE fls.left
     IN  IF n < fls.left
         THEN /\ pool' = Grabbed(n).B /\ drive' = Grabbed(n).d
              /\ fls' = [fls EXCEPT !.left = @ - n]
              /\ UNCHANGED <<cmd, FileInfoValid>>
         ELSE /\ pool' = Partition_Clear(Grabbed(n).B, fls.pnum)
              /\ drive' = PauseSoon(Grabbed(n).d)
              /\ FileInfoValid' = TRUE
              /\ Finished
  /\ UNCHANGED <<connVars, AuthDiscType, RootDirInfoValid>>

FLS_Run ==
  /\ cmd.phase \in {"top", "idle"} /\ ~ CommandPending
  /\ \/ FlsAbort
     \/ ~ fls.Abort /\ (AuthStart \/ AuthEnd \/ DirStart \/ RootRead \/ DirRead)
  /\ UNCHANGED <<program, dtVars, disc, hostVars, answerVars, resetVars>>

\* Nothing to do: CMD_YIELD.
Yield ==
  /\ cmd.phase = "top" /\ ~ CommandPending
  /\ ~ fls.Abort /\ (fls.Active => fls.Phase # "idle" /\ pool.Count[fls.pnum] = 0)
  /\ Goes("idle", {})
  /\ UNCHANGED <<selVars, program, dtVars, drive, disc, fileVars, hostVars, answerVars, resetVars>>

-----------------------------------------------------------------------------
(* The program, the tray and the reset line *)

WriteCommand ==
  /\ ~ waiting
  /\ IF setup = <<>> THEN CData' \in program.commands /\ UNCHANGED setup
     ELSE ~ fls.Active /\ CData' = Head(setup) /\ setup' = Tail(setup)
  /\ waiting' = TRUE /\ CommandPending' = TRUE
  /\ hirq' = {}
  /\ UNCHANGED <<selVars, program, dtVars, drive, disc, fileVars, cmd, Results, ResultsRead,
                 SWResetHIRQDeferred, resetVars>>

ReadAnswer ==
  /\ waiting /\ "CMOK" \in hirq
  /\ waiting' = FALSE /\ ResultsRead' = TRUE /\ hirq' = {}
  /\ UNCHANGED <<selVars, program, dtVars, drive, disc, fileVars, cmd, CommandPending, CData, setup,
                 Results, SWResetHIRQDeferred, resetVars>>

\* Mutant: the drive is left to find out.
EjectedLater(d) == d

Ejected(d) == [d EXCEPT !.DrivePhase = "EJECTED0"]

CDB_SetDisc ==
  /\ program.tray
  /\ disc' = ~ disc
  /\ IF disc /\ drive.DrivePhase # "RESETTING"
     THEN AuthDiscType' = 0 /\ drive' = Ejected(drive)
     ELSE UNCHANGED <<AuthDiscType, drive>>
  /\ UNCHANGED <<selVars, program, dtVars, cmd, hostVars, answerVars, resetVars, flsVars>>

\* Of the block alone, or with the whole machine, which clears HIRQ.
CDB_ResetCD ==
  /\ program.resets /\ cmd.phase # "reset"
  /\ drive' = [drive EXCEPT !.DrivePhase = "RESETTING"]
  /\ Goes("reset", {})
  /\ Results' = "none" /\ ResultsRead' = TRUE
  /\ hirq' \in {hirq, {}}
  /\ UNCHANGED <<selVars, program, dtVars, disc, fileVars, hostVars, SWResetHIRQDeferred, resetVars>>

\* After CDB_Reset at power on.
Init ==
  /\ program \in Programs
  /\ pool = [Prev |-> [b \in Bufs |-> 0], Next |-> [b \in Bufs |-> 0], FirstFreeBuf |-> 0,
             FreeBufferCount |-> 0, FirstBuf |-> [p \in Filters |-> 0],
             LastBuf |-> [p \in Filters |-> 0], Count |-> [p \in Filters |-> 0],
             Data |-> [b \in Bufs |-> Written]]
  /\ CDDevConn = 0 /\ TrueConn = [f \in Filters |-> 0] /\ FalseConn = [f \in Filters |-> 0]
  /\ cond = [f \in Filters |-> NoCond]
  /\ dt = NoTransfer /\ secLen = [get |-> "2048", put |-> "2048"] /\ asked = <<>>
  /\ drive = [DrivePhase |-> "RESETTING", idle |-> "may",
              fad |-> 0, CurSector |-> 0, next |-> 0, SecPreBuf_In |-> 0, buf |-> 0,
              PauseCounter |-> 0, PlayRepeatCounter |-> 0, repeated |-> FALSE,
              CurPlayStart |-> 0, CurPlayEnd |-> 0, CurPlayRepeat |-> 0, PlayEndIRQType |-> "none"]
  /\ disc = TRUE /\ AuthDiscType = 0
  /\ cmd = [phase |-> "reset", CTR |-> NoCommand, tail |-> {}]
  /\ CommandPending = FALSE /\ CData = NoCommand /\ waiting = FALSE
  /\ setup = program.setup
  /\ hirq = {} /\ Results = "none" /\ ResultsRead = TRUE
  /\ ResetSelPending = {} /\ SWResetPending = FALSE /\ SWResetHIRQDeferred = FALSE
  /\ fls = NoFile /\ FileInfoValid = FALSE /\ RootDirInfoValid = FALSE

CommandLoop ==
  \/ Latch \/ Exec \/ InitEnd \/ CommandEnd \/ SWResetEnd \/ ResetEnd \/ FileEnd
  \/ FLS_Run \/ Yield

\* The loop waits for clocks, so time goes on for the others.
LoopWaits == cmd.phase \notin {"now", "top"}

Next ==
  \/ CommandLoop
  \/ LoopWaits /\ (DriveStep \/ PeriodicCheck \/ TransferWord)
  \/ LoopWaits /\ (WriteCommand \/ ReadAnswer \/ CDB_SetDisc \/ CDB_ResetCD)

Spec == Init /\ [][Next]_vars /\ SF_vars(LoopWaits /\ DriveStep) /\ SF_vars(LoopWaits /\ PeriodicCheck)
             /\ WF_vars(CommandLoop)

-----------------------------------------------------------------------------
(* Correctness *)

Held == IF dt.Active /\ (dt.Writing \/ dt.NeedBufFree) THEN dt.BufList ELSE <<>>

TypeOK ==
  /\ program \in Programs /\ disc \in BOOLEAN /\ AuthDiscType \in {0, 2, 4, 255}
  /\ CDDevConn \in Filters \cup {None} /\ cond \in [Filters -> [fadr : BOOLEAN, range : SUBSET Sectors]]
  /\ TrueConn \in [Filters -> Filters \cup {None}] /\ FalseConn \in [Filters -> Filters \cup {None}]
  /\ pool.FreeBufferCount \in 0 .. NumBuffers /\ pool.Data \in [Bufs -> Sectors]
  /\ drive.fad \in 0 .. Off /\ drive.CurSector \in 0 .. Off /\ drive.SecPreBuf_In \in -1 .. 1
  /\ drive.PauseCounter \in -1 .. 1
  /\ cmd.phase \in {"top", "idle", "exec", "init", "tail", "now", "resetsel", "swreset", "reset", "fls"}
  /\ hirq \subseteq {"CMOK", "PEND", "EFLS"} /\ CommandPending \in BOOLEAN
  /\ fls.Phase \in {"idle", "auth", "root", "dir"} /\ fls.left \in 0 .. DirSectors

\* Every list is well linked both ways and as long as its counter says, and every
\* buffer is in one of them or held by the transfer, never in two places.
BuffersAccounted ==
  cmd.phase # "reset" =>
    /\ WellLinked(pool, pool.FirstFreeBuf, pool.FreeBufferCount)
    /\ \A p \in Filters :
         /\ WellLinked(pool, pool.FirstBuf[p], pool.Count[p])
         /\ pool.LastBuf[p] = IF pool.Count[p] = 0 THEN None
                              ELSE ListFrom(pool, pool.FirstBuf[p])[pool.Count[p]]
    /\ LET lists == <<ListFrom(pool, pool.FirstFreeBuf), Held>>
                    \o [i \in 1 .. NumFilters |-> ListFrom(pool, pool.FirstBuf[i - 1])]
       IN  \A b \in Bufs :
             Cardinality({at \in (DOMAIN lists) \X (1 .. NumBuffers) :
                            /\ at[2] \in DOMAIN lists[at[1]]
                            /\ lists[at[1]][at[2]] = b}) = 1

\* A transfer stays inside its buffers, and a sector that is still to be read is
\* the one that was in the partition when the program asked, unless the program
\* has left it there and let its buffer be used again.
TransferSound ==
  dt.Active =>
    /\ dt.FIFO_In \in 0 .. (Prefill + 1)
    /\ dt.InBufCounter > 0 =>
         /\ dt.CurBufIndex \in DOMAIN dt.BufList
         /\ dt.BufList # <<Toc>> => dt.InBufOffs + dt.InBufCounter <= SectorWords
    /\ \A i \in dt.CurBufIndex .. Len(dt.BufList) :
         asked[i] # None => pool.Data[dt.BufList[i]] = asked[i]

\* The input of a filter comes from the drive or from one other filter, so what
\* the drive sends never goes around in a circle.
AtMostOneSource ==
  cmd.phase # "reset" =>
    \A f \in Filters :
      /\ \A g, h \in Filters : FalseConn[g] = f /\ FalseConn[h] = f => g = h
      /\ CDDevConn = f => \A g \in Filters : FalseConn[g] # f

\* The drive works on a disc only while there is one.
DriveHasDisc ==
  drive.DrivePhase \in {"SEEK_START1", "SEEK_START2", "SEEK_START3", "SEEK", "PLAY", "PAUSE"} => disc

\* No sector is left out and none comes twice: through pauses for room, commands
\* that leave the pickup where it is and repeats, the next sector is the next.
SectorsInOrder ==
  drive.DrivePhase = "PLAY" /\ drive.SecPreBuf_In = 1 => drive.buf = drive.next

\* What a program reads when CMOK is set is the answer to its command, not a
\* report that has come over it or the answer to the command before, unless the
\* block has been reset.
AnswerIsForCommand ==
  waiting /\ "CMOK" \in hirq => Results \in {"reset", "none"} \/ (Results = "answer" /\ ~ CommandPending)

\* The end of a play is reported when all of its sectors are through, as often as
\* they were to be repeated.
PlayEndReported ==
  [][PeriodicCheck /\ hirq' # hirq =>
       /\ \/ drive.next >= LeadOut \/ drive.next < drive.CurPlayStart
          \/ drive.CurPlayEnd # NoEnd /\ drive.next >= drive.CurPlayEnd
       /\ drive.PlayRepeatCounter >= drive.CurPlayRepeat]_vars

Contents(p) == [i \in 1 .. Len(ListFrom(pool, pool.FirstBuf[p])) |->
                 pool.Data[ListFrom(pool, pool.FirstBuf[p])[i]]]

Store == INSTANCE SectorStore
  WITH Partitions <- Filters,
       partition <- [p \in Filters |-> IF pool.Count[p] = 0 THEN <<>> ELSE Contents(p)],
       taken <- [i \in DOMAIN Held |-> pool.Data[Held[i]]],
       free <- pool.FreeBufferCount

\* The linked lists behave as queues of sectors.
ImplementsStore == Store!StoreSpec

\* A program that does nothing else sees its file operation come to an end, once
\* the disc has been looked at and while it stays in; unless the files it has read
\* into other partitions fill every buffer.  Then the drive pauses for want of room,
\* and operation and drive wait for good for what only the program can do: abort,
\* or make room.
FilesOnly == /\ ~ program.tray
             /\ \A c \in program.commands :
                  c.op \in {"AUTH_DEVICE", "CHANGE_DIR", "READ_DIR", "READ_FILE", "ABORT_FILE"}
HeldUp == /\ pool.FreeBufferCount = 0 /\ pool.Count[fls.pnum] = 0
          /\ drive.DrivePhase = "PAUSE" /\ ~ CheckEndMet(drive)
FileOpEnds == (FilesOnly /\ fls.Active /\ AuthDiscType # 0) ~> (~ fls.Active \/ []HeldUp)
=============================================================================
