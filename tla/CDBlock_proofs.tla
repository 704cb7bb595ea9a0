---------------------------- MODULE CDBlock_proofs ----------------------------
(***************************************************************************)
(* Proofs about CDBlock for every number of buffers and filters, every     *)
(* length of the disc and every set of programs: of the connections of the *)
(* filters, the position of the drive and the end of a play, the answers   *)
(* to commands, the lists of buffers and the transfer.                     *)
(***************************************************************************)
EXTENDS CDBlock, FiniteSetTheorems, WellFoundedInduction, TLAPS

\* An input is fed by one output at most: dev is the filter the drive feeds,
\* false where the filters send what they do not pass.
OneSource(dev, false) ==
  \A f \in Filters :
    /\ \A g, h \in Filters : false[g] = f /\ false[h] = f => g = h
    /\ dev = f => \A g \in Filters : false[g] # f

\* The long reset lasts as long for the drive as for the command loop, but the
\* connections make sense only when it is over.
ConnInv == cmd.phase # "reset" => OneSource(CDDevConn, FalseConn)

LEMMA NoneLemma == \A f \in Filters : f # None
BY SelectorAssumption DEF Filters, None

\* Whatever the drive is connected to has no other source, before the resets.
LEMMA SetCDDeviceConnLemma ==
  ASSUME NEW fnum, OneSource(CDDevConn, FalseConn), SetCDDeviceConn(fnum)
  PROVE  OneSource(CDDevConn, FalseConn)'
BY NoneLemma DEF OneSource, SetCDDeviceConn, Filters

\* To take an input's source away gives no input a second one.
LEMMA DisconnectLemma ==
  ASSUME NEW fnum, OneSource(CDDevConn, FalseConn), Filter_DisconnectInput(fnum)
  PROVE  OneSource(CDDevConn, FalseConn)'
BY NoneLemma DEF OneSource, Filter_DisconnectInput, InputFreed, Filters

\* A filter's output replaces the source of the input it is connected to.
LEMMA SetFalseConnLemma ==
  ASSUME NEW fnum, NEW fconn, OneSource(CDDevConn, FalseConn), Filter_SetFalseConn(fnum, fconn)
  PROVE  OneSource(CDDevConn, FalseConn)'
BY NoneLemma DEF OneSource, Filter_SetFalseConn, InputFreed, Filters

\* So does the drive when a file or the authentication is read.
LEMMA ConnectDriveLemma ==
  ASSUME NEW p, OneSource(CDDevConn, FalseConn), ConnectDriveTo(p)
  PROVE  OneSource(CDDevConn, FalseConn)'
BY NoneLemma DEF OneSource, ConnectDriveTo, Filters

\* A reset of the selector, in whole or in part, only takes sources away.
LEMMA ResetLemma ==
  ASSUME NEW flags, OneSource(CDDevConn, FalseConn),
         SWReset \/ ResetSelected(flags) \/ UNCHANGED <<CDDevConn, FalseConn>>
  PROVE  OneSource(CDDevConn, FalseConn)'
<1>1. CASE SWReset
  BY <1>1, NoneLemma DEF SWReset, OneSource
<1>2. CASE ResetSelected(flags)
  BY <1>2, NoneLemma DEF ResetSelected, OneSource
<1>3. CASE UNCHANGED <<CDDevConn, FalseConn>>
  BY <1>3 DEF OneSource
<1> QED BY <1>1, <1>2, <1>3

\* Every command leaves each input with one source at most.
LEMMA CarryLemma ==
  ASSUME NEW c, OneSource(CDDevConn, FalseConn), Carry(c) \/ Query(c)
  PROVE  OneSource(CDDevConn, FalseConn)'
<1>1. CASE EndDataXfer(c)
  <2>1. CASE dt.Writing
    BY <1>1, <2>1, DisconnectLemma DEF EndDataXfer
  <2>2. CASE ~ dt.Writing
    BY <1>1, <2>2 DEF EndDataXfer, OneSource
  <2> QED BY <2>1, <2>2
<1>2. CASE SetCDDevConn(c)
  BY <1>2, SetCDDeviceConnLemma DEF SetCDDevConn
<1>3. CASE SetFiltConn(c)
  <2>1. CASE "false" \in DOMAIN c
    BY <1>3, <2>1, SetFalseConnLemma DEF SetFiltConn
  <2>2. CASE "false" \notin DOMAIN c
    BY <1>3, <2>2 DEF SetFiltConn, OneSource
  <2> QED BY <2>1, <2>2
<1>4. CASE PutSecData(c) \/ CopyMoveSecData(c)
  BY <1>4, DisconnectLemma DEF PutSecData, CopyMoveSecData
<1>5. CASE ReadFile(c)
  BY <1>5, ConnectDriveLemma DEF ReadFile
<1>6. CASE UNCHANGED <<CDDevConn, FalseConn>>
  BY <1>6 DEF OneSource
<1> QED
  BY <1>1, <1>2, <1>3, <1>4, <1>5, <1>6
  DEF Carry, Query, Rest, connVars, GetToc, Initialize, DriveCommand, AuthDevice, SetFiltCond,
      ResetPartition, ResetSel, SetSecLen, GetSecData, DelSecData, ChangeDir, AbortFile

\* And so does every step of the file operations.
LEMMA FLSLemma ==
  ASSUME OneSource(CDDevConn, FalseConn), FLS_Run
  PROVE  OneSource(CDDevConn, FalseConn)'
<1>1. CASE AuthStart
  BY <1>1, ConnectDriveLemma DEF AuthStart
<1>2. CASE DirStart
  BY <1>2, ConnectDriveLemma DEF DirStart
<1>3. CASE AuthEnd
  BY <1>3, SetCDDeviceConnLemma DEF AuthEnd
<1>4. CASE UNCHANGED <<CDDevConn, FalseConn>>
  BY <1>4 DEF OneSource
<1> QED BY <1>1, <1>2, <1>3, <1>4 DEF FLS_Run, FlsAbort, RootRead, DirRead, connVars

LEMMA ConnStep == ASSUME ConnInv, [Next]_vars PROVE ConnInv'
<1> USE DEF ConnInv
<1>1. CASE Latch \/ InitEnd \/ SWResetEnd \/ FileEnd \/ Yield
  BY <1>1 DEF Latch, InitEnd, SWResetEnd, FileEnd, Yield, selVars, OneSource
<1>2. CASE Exec
  BY <1>2, CarryLemma DEF Exec
<1>3. CASE CommandEnd
  BY <1>3, ResetLemma DEF CommandEnd, selVars
<1>4. CASE ResetEnd
  BY <1>4, NoneLemma DEF ResetEnd, SWReset, OneSource
<1>5. CASE FLS_Run
  BY <1>5, FLSLemma DEF FLS_Run
<1>6. CASE DriveStep \/ PeriodicCheck \/ TransferWord
  BY <1>6 DEF DriveStep, PeriodicCheck, TransferWord, selVars, OneSource
<1>7. CASE WriteCommand \/ ReadAnswer \/ CDB_SetDisc
  BY <1>7 DEF WriteCommand, ReadAnswer, CDB_SetDisc, selVars, OneSource
<1>8. CASE CDB_ResetCD
  BY <1>8 DEF CDB_ResetCD, Goes
<1>9. CASE UNCHANGED vars
  BY <1>9 DEF vars, selVars, OneSource
<1> QED
  BY <1>1, <1>2, <1>3, <1>4, <1>5, <1>6, <1>7, <1>8, <1>9 DEF Next, CommandLoop

\* No input of a filter ever has two sources, so what the drive sends never goes
\* around in a circle (SetCDDeviceConn, Filter_DisconnectInput and whoever
\* connects a filter).
THEOREM OneSourceEach == Spec => []AtMostOneSource
<1>1. Init => ConnInv
  BY DEF Init, ConnInv
<1>2. ConnInv => AtMostOneSource
  BY DEF ConnInv, AtMostOneSource, OneSource
<1> QED BY <1>1, <1>2, ConnStep, PTL DEF Spec
-----------------------------------------------------------------------------
(* The position of the drive: fad is where it stands, CurSector what comes  *)
(* off the disc there, next the sector that is due and buf the one that was *)
(* read ahead.                                                              *)

IsDrive(d) ==
  DOMAIN d = {"DrivePhase", "idle", "fad", "CurSector", "next", "SecPreBuf_In", "buf",
              "PauseCounter", "PlayRepeatCounter", "repeated", "CurPlayStart", "CurPlayEnd",
              "CurPlayRepeat", "PlayEndIRQType"}

\* The phases in which the drive works on a disc.
WithDisc == {"SEEK_START1", "SEEK_START2", "SEEK_START3", "SEEK", "PLAY", "PAUSE"}

\* Away from the lead-out the drive stands where the next sector is due, unless a
\* seek to another place has not begun; then nothing is left of what was read ahead.
InPlace(d) ==
  /\ d.fad = d.next \/ ~ (d.fad < Off)
  /\ d.DrivePhase \in {"SEEK", "PLAY", "PAUSE"} => d.CurSector = d.fad
  /\ d.DrivePhase = "PLAY" => d.fad = d.next
  /\ d.SecPreBuf_In = 1 => d.buf = d.next \/ (~ (d.fad < Off) /\ d.DrivePhase # "PLAY")
  /\ d.DrivePhase = "SEEK_START1" => d.SecPreBuf_In # 1

\* A position that may be gone on from.
Good(d) == /\ IsDrive(d) /\ InPlace(d)
           /\ d.DrivePhase \in WithDisc => disc

\* What was read ahead can be dropped at any time.
LEMMA ClearLemma ==
  ASSUME NEW d, IsDrive(d)
  PROVE  /\ IsDrive(Dropped(d)) /\ IsDrive(ClearPendingSec(d)) /\ IsDrive(PauseSoon(d))
         /\ Dropped(d).SecPreBuf_In = 0 /\ ClearPendingSec(d).SecPreBuf_In = 0
         /\ \A e \in {Dropped(d), ClearPendingSec(d)} :
              /\ e.DrivePhase = d.DrivePhase /\ e.fad = d.fad
              /\ e.next = d.next /\ e.CurSector = d.CurSector
         /\ PauseSoon(d).SecPreBuf_In = d.SecPreBuf_In /\ PauseSoon(d).buf = d.buf
         /\ PauseSoon(d).DrivePhase = d.DrivePhase /\ PauseSoon(d).fad = d.fad
         /\ PauseSoon(d).next = d.next /\ PauseSoon(d).CurSector = d.CurSector
BY DEF IsDrive, Dropped, ClearPendingSec, PauseSoon

LEMMA SeekStartLemma ==
  ASSUME NEW d, IsDrive(d)
  PROVE  LET e == SeekStart2(SeekStart1(d))
             f == SeekStart2(d)
         IN  /\ IsDrive(e) /\ e.DrivePhase = "SEEK_START3" /\ e.fad = e.next
             /\ e.SecPreBuf_In = d.SecPreBuf_In
             /\ IsDrive(f) /\ f.DrivePhase = "SEEK_START3" /\ f.fad = d.fad /\ f.next = d.next
             /\ f.SecPreBuf_In = d.SecPreBuf_In /\ f.buf = d.buf
BY DEF IsDrive, SeekStart1, SeekStart2

LEMMA OffLemma == Off \in Nat /\ ~ (Off < Off)
BY SelectorAssumption DEF Off

LEMMA GoodClearLemma ==
  ASSUME NEW d, Good(d)
  PROVE  Good(Dropped(d)) /\ Good(ClearPendingSec(d)) /\ Good(PauseSoon(d))
BY ClearLemma DEF Good, InPlace, WithDisc

\* A seek takes the drive to where the next sector is due, if nothing that was
\* read ahead is left of the position before.
LEMMA GoodSeekStartLemma ==
  ASSUME NEW d, IsDrive(d), d.SecPreBuf_In # 1, disc
  PROVE  Good(SeekStart2(SeekStart1(d)))
BY SeekStartLemma DEF Good, InPlace, WithDisc

LEMMA GoodSeekStart2Lemma ==
  ASSUME NEW d, Good(d), disc
  PROVE  Good(SeekStart2(d))
BY SeekStartLemma DEF Good, InPlace, WithDisc

LEMMA ForceLemma ==
  ASSUME NEW d, Good(d)
  PROVE  Good(ForceCompletePendingSeekStartup(d))
<1>1. CASE d.DrivePhase = "SEEK_START1"
  BY <1>1, GoodSeekStartLemma DEF ForceCompletePendingSeekStartup, Good, InPlace, WithDisc
<1>2. CASE d.DrivePhase = "SEEK_START2"
  BY <1>2, GoodSeekStart2Lemma DEF ForceCompletePendingSeekStartup, Good, WithDisc
<1>3. CASE d.DrivePhase \notin {"SEEK_START1", "SEEK_START2"}
  BY <1>3 DEF ForceCompletePendingSeekStartup
<1> QED BY <1>1, <1>2, <1>3

\* StartSeek changes the play, and drops what was read ahead if the pickup moves.
LEMMA StartSeekLemma ==
  ASSUME NEW d, NEW target, NEW end, NEW repeat, NEW irq, NEW keep, Good(d)
  PROVE  Good(StartSeek(d, target, end, repeat, irq, keep))
<1> DEFINE d1 == ForceCompletePendingSeekStartup(d)
           d1b == IF keep THEN d1 ELSE ClearPendingSec(d1)
           d2 == [d1b EXCEPT !.PlayRepeatCounter = 0, !.repeated = FALSE,
                             !.CurPlayStart = target, !.CurPlayEnd = end,
                             !.CurPlayRepeat = repeat, !.PlayEndIRQType = irq]
           d3 == [d2 EXCEPT !.idle = "may",
                            !.DrivePhase = IF keep THEN "SEEK_START2" ELSE "SEEK_START1"]
<1>1. Good(d1b) /\ (~ keep => d1b.SecPreBuf_In = 0)
  BY ForceLemma, GoodClearLemma, ClearLemma DEF Good
<1> HIDE DEF d1b
<1>2. /\ IsDrive(d2) /\ d2.SecPreBuf_In = d1b.SecPreBuf_In /\ d2.buf = d1b.buf
      /\ d2.fad = d1b.fad /\ d2.next = d1b.next /\ d2.CurSector = d1b.CurSector
      /\ d2.DrivePhase = d1b.DrivePhase
  BY <1>1 DEF Good, IsDrive
<1>3. Good(d2)
  BY <1>1, <1>2 DEF Good, InPlace
<1> HIDE DEF d2
<1>4. /\ IsDrive(d3) /\ d3.SecPreBuf_In = d2.SecPreBuf_In /\ d3.buf = d2.buf
      /\ d3.fad = d2.fad /\ d3.next = d2.next
      /\ d3.DrivePhase = IF keep THEN "SEEK_START2" ELSE "SEEK_START1"
  BY <1>3 DEF Good, IsDrive
<1> HIDE DEF d3
<1>5. ASSUME disc PROVE Good(d3)
  BY <1>1, <1>2, <1>3, <1>4, <1>5 DEF Good, InPlace, WithDisc
<1>6. StartSeek(d, target, end, repeat, irq, keep) \in {d, d2, d3}
  BY DEF StartSeek, d1b, d2, d3
<1>7. ~ disc => StartSeek(d, target, end, repeat, irq, keep) = d
  BY DEF StartSeek
<1> QED BY <1>3, <1>5, <1>6, <1>7

LEMMA SeekToLemma ==
  ASSUME NEW d, NEW target, Good(d)
  PROVE  Good(SeekTo(d, target))
BY StartSeekLemma DEF SeekTo

LEMMA ResumeLemma ==
  ASSUME NEW d, Good(d), d.DrivePhase = "PAUSE"
  PROVE  Good(Resume(d))
<1>1. LET e == Resume(d)
      IN  /\ IsDrive(e) /\ e.DrivePhase = "SEEK_START2" /\ e.fad = d.fad /\ e.next = d.next
          /\ e.SecPreBuf_In = d.SecPreBuf_In /\ e.buf = d.buf
  BY DEF Good, IsDrive, Resume
<1> QED BY <1>1 DEF Good, InPlace, WithDisc

LEMMA CheckBufPauseResumeLemma ==
  ASSUME NEW d, NEW free, Good(d)
  PROVE  Good(CheckBufPauseResume(d, free))
BY GoodClearLemma, ClearLemma, ResumeLemma DEF CheckBufPauseResume, Good

\* The sector under the pickup is read ahead, and the one before it has been taken.
LEMMA ReadSectorLemma ==
  ASSUME NEW d, Good(d), d.DrivePhase \in {"PLAY", "PAUSE"}
  PROVE  /\ Good(ReadSector(d))
         /\ d.DrivePhase = "PLAY" => Good(ReadSector(SectorTaken(d)))
<1>1. ASSUME NEW e, IsDrive(e), e.CurSector = e.fad \/ e.SecPreBuf_In = 0,
             e.DrivePhase \in {"PLAY", "PAUSE"},
             e.CurSector = e.next \/ Good(e), e.SecPreBuf_In = 0 \/ Good(e), disc
      PROVE  Good(ReadSector(e))
  <2>1. LET r == ReadSector(e)
        IN  /\ IsDrive(r) /\ r.DrivePhase = e.DrivePhase /\ r.next = e.next
            /\ r.CurSector = e.CurSector
            /\ IF e.SecPreBuf_In # 0
               THEN r.SecPreBuf_In = e.SecPreBuf_In /\ r.fad = e.fad /\ r.buf = e.buf
               ELSE r.SecPreBuf_In = 1 /\ r.fad = e.CurSector /\ r.buf = e.CurSector
    BY <1>1 DEF ReadSector, IsDrive
  <2> QED BY <1>1, <2>1 DEF Good, InPlace, WithDisc
<1>2. LET t == SectorTaken(d)
      IN  /\ IsDrive(t) /\ t.DrivePhase = d.DrivePhase /\ t.SecPreBuf_In = 0
          /\ t.CurSector = d.CurSector + 1 /\ t.next = d.next + 1
  BY DEF SectorTaken, Dropped, Good, IsDrive
<1>3. disc /\ d.CurSector = d.fad /\ (d.DrivePhase = "PLAY" => d.fad = d.next)
  BY DEF Good, InPlace, WithDisc
<1>4. Good(ReadSector(d))
  BY <1>1, <1>3 DEF Good
<1>5. ASSUME d.DrivePhase = "PLAY" PROVE Good(ReadSector(SectorTaken(d)))
  BY <1>1, <1>2, <1>3, <1>5
<1> QED BY <1>4, <1>5

\* The end of a play, a pause and a full buffer leave the drive where it is, or
\* take it back to where the play began.
LEMMA LookedLemma ==
  ASSUME NEW d, Good(d), d.DrivePhase \in {"PLAY", "PAUSE"}
  PROVE  Good(Looked(d))
<1> DEFINE e == Dropped(d)
<1>1. /\ Good(e) /\ IsDrive(e) /\ disc /\ e.DrivePhase = d.DrivePhase /\ e.SecPreBuf_In = 0
      /\ e.CurSector = e.fad
  BY GoodClearLemma, ClearLemma DEF Good, InPlace, WithDisc
<1> HIDE DEF e
<1>2. ASSUME d.DrivePhase = "PAUSE" PROVE Good(InPause(e))
  <2> DEFINE keeps(f) == /\ IsDrive(f) /\ f.DrivePhase = e.DrivePhase /\ f.fad = e.fad
                         /\ f.next = e.next /\ f.CurSector = e.CurSector
                         /\ f.SecPreBuf_In = e.SecPreBuf_In
  <2>1. keeps(InPause(e)) \/ InPause(e) = Resume(e)
    BY <1>1 DEF InPause, IsDrive
  <2>2. ASSUME keeps(InPause(e)) PROVE Good(InPause(e))
    BY <1>1, <2>2 DEF Good, InPlace
  <2> QED BY <1>1, <1>2, <2>1, <2>2, ResumeLemma
<1>3. ASSUME d.DrivePhase = "PLAY" PROVE Good(AtTheEnd(e))
  <2> DEFINE p == [e EXCEPT !.CurSector = e.fad, !.DrivePhase = "PAUSE",
                            !.PauseCounter = IF e.PlayEndIRQType # "none" THEN 0 ELSE 1]
             q == [e EXCEPT !.PlayRepeatCounter = IF @ < RepeatForever - 1 THEN @ + 1 ELSE @,
                            !.repeated = TRUE]
  <2>1. /\ IsDrive(p) /\ p.DrivePhase = "PAUSE" /\ p.fad = e.fad /\ p.next = e.next
        /\ p.CurSector = e.fad /\ p.SecPreBuf_In = 0
    BY <1>1 DEF IsDrive
  <2>2. Good(p)
    BY <1>1, <2>1 DEF Good, InPlace
  <2>3. IsDrive(q) /\ q.SecPreBuf_In = 0
    BY <1>1 DEF IsDrive
  <2> HIDE DEF p, q
  <2>4. Good(SeekStart2(SeekStart1(q)))
    BY <1>1, <2>3, GoodSeekStartLemma
  <2> QED BY <2>2, <2>4 DEF AtTheEnd, p, q
<1>4. ASSUME d.DrivePhase = "PLAY" PROVE Good([e EXCEPT !.DrivePhase = "PAUSE", !.PauseCounter = 0])
  <2> DEFINE p == [e EXCEPT !.DrivePhase = "PAUSE", !.PauseCounter = 0]
  <2>1. /\ IsDrive(p) /\ p.DrivePhase = "PAUSE" /\ p.fad = e.fad /\ p.next = e.next
        /\ p.CurSector = e.CurSector /\ p.SecPreBuf_In = 0
    BY <1>1 DEF IsDrive
  <2> QED BY <1>1, <2>1 DEF Good, InPlace
<1>5. Good([d EXCEPT !.repeated = FALSE])
  <2> DEFINE p == [d EXCEPT !.repeated = FALSE]
  <2>1. /\ IsDrive(p) /\ p.DrivePhase = d.DrivePhase /\ p.fad = d.fad /\ p.next = d.next
        /\ p.CurSector = d.CurSector /\ p.SecPreBuf_In = d.SecPreBuf_In /\ p.buf = d.buf
    BY DEF Good, IsDrive
  <2> QED BY <2>1 DEF Good, InPlace
<1> QED BY <1>2, <1>3, <1>4, <1>5 DEF Looked, e

\* The tray, the stop and the reset take the drive off the disc.
LEMMA OffDiscLemma ==
  ASSUME NEW d, NEW e, Good(d), IsDrive(e), e.DrivePhase \notin WithDisc,
         e.SecPreBuf_In = 0 \/ (e.SecPreBuf_In = d.SecPreBuf_In /\ e.buf = d.buf),
         e.fad = Off \/ (e.fad = d.fad /\ e.next = d.next)
  PROVE  Good(e)
BY OffLemma DEF Good, InPlace, WithDisc

LEMMA DriveStepLemma ==
  ASSUME Good(drive), DriveStep
  PROVE  Good(drive')
<1>1. CASE EjectedStep
  <2>1. CASE drive' = SeekTo(drive, DiscStart)
    BY <2>1, SeekToLemma
  <2>2. CASE drive' = [drive EXCEPT !.DrivePhase = "EJECTED1", !.fad = Off]
    BY <2>2, OffDiscLemma DEF Good, IsDrive, WithDisc
  <2>3. ASSUME NEW phase \in {"EJECTED_WAITING", "STARTUP"},
               drive' = [drive EXCEPT !.DrivePhase = phase]
        PROVE  Good(drive')
    BY <2>3, OffDiscLemma DEF Good, IsDrive, WithDisc
  <2> QED BY <1>1, <2>1, <2>2, <2>3 DEF EjectedStep
<1>2. CASE SeekStep
  <2>1. CASE drive.DrivePhase = "SEEK_START1"
    BY <1>2, <2>1, GoodSeekStartLemma DEF SeekStep, Good, InPlace, WithDisc
  <2>2. CASE drive.DrivePhase = "SEEK_START2"
    BY <1>2, <2>2, GoodSeekStart2Lemma DEF SeekStep, Good, WithDisc
  <2>3. CASE drive.DrivePhase = "SEEK_START3"
    <3>1. /\ IsDrive(drive') /\ drive'.DrivePhase = "SEEK" /\ drive'.CurSector = drive.fad
          /\ drive'.fad = drive.fad /\ drive'.next = drive.next
          /\ drive'.SecPreBuf_In = drive.SecPreBuf_In /\ drive'.buf = drive.buf
      BY <1>2, <2>3 DEF SeekStep, Good, IsDrive
    <3> QED BY <2>3, <3>1 DEF Good, InPlace, WithDisc
  <2>4. CASE drive.DrivePhase = "SEEK" /\ drive.CurSector < Off
    <3>1. /\ IsDrive(drive') /\ drive'.DrivePhase = "PLAY" /\ drive'.CurSector = drive.CurSector
          /\ drive'.fad = drive.fad /\ drive'.next = drive.next
          /\ drive'.SecPreBuf_In = drive.SecPreBuf_In /\ drive'.buf = drive.buf
      BY <1>2, <2>4 DEF SeekStep, Good, IsDrive
    <3> QED BY <2>4, <3>1 DEF Good, InPlace, WithDisc
  <2>5. CASE drive.DrivePhase = "SEEK" /\ ~ (drive.CurSector < Off)
    BY <1>2, <2>5 DEF SeekStep
  <2> QED BY <1>2, <2>1, <2>2, <2>3, <2>4, <2>5 DEF SeekStep
<1>3. CASE PlayStep
  BY <1>3, ReadSectorLemma DEF PlayStep
<1>4. CASE PauseStep
  BY <1>4, ReadSectorLemma DEF PauseStep
<1> QED BY <1>1, <1>2, <1>3, <1>4 DEF DriveStep

LEMMA PeriodicLemma ==
  ASSUME Good(drive), PeriodicCheck
  PROVE  Good(drive')
<1>1. PICK d : /\ Good(d)
               /\ drive' = [d EXCEPT !.idle = IF d.DrivePhase \in {"PLAY", "PAUSE"}
                                              THEN "not" ELSE "may"]
  <2> DEFINE sector == drive.SecPreBuf_In # 0 /\ drive.DrivePhase \in {"PLAY", "PAUSE"}
             d == IF sector THEN Looked(drive) ELSE drive
  <2>1. Good(d)
    BY LookedLemma
  <2>2. drive' = [d EXCEPT !.idle = IF d.DrivePhase \in {"PLAY", "PAUSE"} THEN "not" ELSE "may"]
    BY DEF PeriodicCheck
  <2> HIDE DEF d
  <2> QED BY <2>1, <2>2
<1>2. /\ IsDrive(drive') /\ drive'.DrivePhase = d.DrivePhase /\ drive'.fad = d.fad
      /\ drive'.next = d.next /\ drive'.CurSector = d.CurSector
      /\ drive'.SecPreBuf_In = d.SecPreBuf_In /\ drive'.buf = d.buf
  BY <1>1 DEF Good, IsDrive
<1> QED BY <1>1, <1>2 DEF Good, InPlace

\* The commands that move the drive.
LEMMA DriveCommandLemma ==
  ASSUME NEW c, c.op \in {"PLAY", "SEEK", "STOP", "PAUSE"}, Good(drive), DriveCommand(c)
  PROVE  Good(drive')
<1>1. CASE Play(c)
  BY <1>1, StartSeekLemma DEF Play
<1>2. CASE Seek(c)
  BY <1>2, SeekToLemma DEF Seek
<1>3. CASE Stop(c)
  <2>1. LET e == ClearPendingSec(drive)
        IN  /\ IsDrive(e) /\ e.SecPreBuf_In = 0
            /\ drive' = [e EXCEPT !.fad = Off, !.DrivePhase = "STOPPED"]
    BY <1>3, ClearLemma DEF Stop, Good
  <2>2. /\ IsDrive(drive') /\ drive'.SecPreBuf_In = 0 /\ drive'.fad = Off
        /\ drive'.DrivePhase = "STOPPED"
    BY <2>1 DEF IsDrive
  <2> QED BY <2>2, OffDiscLemma DEF WithDisc
<1>4. CASE Pause(c)
  <2>1. PICK d : /\ Good(d)
                 /\ drive' = PauseSoon([d EXCEPT !.SecPreBuf_In = IF @ = 0 THEN 0 ELSE -1])
    BY <1>4, SeekToLemma DEF Pause
  <2> DEFINE e == [d EXCEPT !.SecPreBuf_In = IF @ = 0 THEN 0 ELSE -1]
  <2>2. /\ IsDrive(e) /\ e.SecPreBuf_In # 1 /\ e.DrivePhase = d.DrivePhase
        /\ e.fad = d.fad /\ e.next = d.next /\ e.CurSector = d.CurSector
    BY <2>1 DEF Good, IsDrive
  <2>3. Good(e)
    BY <2>1, <2>2 DEF Good, InPlace
  <2> HIDE DEF e
  <2> QED BY <2>1, <2>3, GoodClearLemma DEF e
<1> QED BY <1>1, <1>2, <1>3, <1>4 DEF DriveCommand

LEMMA CarryDriveLemma ==
  ASSUME NEW c, Good(drive), Carry(c) \/ Query(c)
  PROVE  Good(drive')
<1>1. CASE c.op \in {"PLAY", "SEEK", "STOP", "PAUSE"} /\ DriveCommand(c)
  BY <1>1, DriveCommandLemma
<1>2. CASE Initialize(c)
  BY <1>2, GoodClearLemma DEF Initialize
<1>3. CASE ReadFile(c)
  BY <1>3, StartSeekLemma DEF ReadFile
<1>4. CASE UNCHANGED drive
  BY <1>4
<1> QED
  BY <1>1, <1>2, <1>3, <1>4
  DEF Carry, Query, Rest, GetToc, EndDataXfer, AuthDevice, SetCDDevConn, SetFiltCond, SetFiltConn,
      ResetPartition, ResetSel, SetSecLen, GetSecData, DelSecData, PutSecData, CopyMoveSecData,
      ChangeDir, AbortFile

LEMMA FLSDriveLemma ==
  ASSUME Good(drive), FLS_Run
  PROVE  Good(drive')
<1>1. \A n : Good(Grabbed(n).d)
  BY CheckBufPauseResumeLemma DEF Grabbed
<1>2. ASSUME NEW d, NEW B, Good(d), ReadDirStart(B, d) PROVE Good(drive')
  BY <1>2, StartSeekLemma DEF ReadDirStart
<1>3. CASE FlsAbort
  BY <1>3, GoodClearLemma DEF FlsAbort
<1>4. CASE AuthStart
  BY <1>4, StartSeekLemma DEF AuthStart
<1>5. CASE AuthEnd
  BY <1>1, <1>5, SeekToLemma, GoodClearLemma DEF AuthEnd
<1>6. CASE DirStart
  <2>1. CASE RootDirInfoValid
    BY <1>2, <1>6, <2>1 DEF DirStart
  <2>2. CASE ~ RootDirInfoValid
    <3>1. drive' = StartSeek(drive, Pvd, NoEnd, 0, "none", FALSE)
      BY <1>6, <2>2 DEF DirStart
    <3> QED BY <3>1, StartSeekLemma
  <2> QED BY <2>1, <2>2
<1>7. CASE RootRead
  <2>1. CASE drive' = Grabbed(1).d
    BY <1>1, <2>1
  <2>2. CASE ReadDirStart(Grabbed(1).B, Grabbed(1).d)
    BY <1>1, <1>2, <2>2
  <2>3. CASE drive' = PauseSoon(Grabbed(1).d)
    BY <1>1, <2>3, GoodClearLemma
  <2> QED BY <1>7, <2>1, <2>2, <2>3 DEF RootRead
<1>8. CASE DirRead
  BY <1>1, <1>8, GoodClearLemma DEF DirRead
<1> QED BY <1>3, <1>4, <1>5, <1>6, <1>7, <1>8 DEF FLS_Run

LEMMA GoodPrime == ASSUME Good(drive'), UNCHANGED disc PROVE Good(drive)'
BY DEF Good, IsDrive, InPlace

LEMMA DriveInduction == ASSUME Good(drive), [Next]_vars PROVE Good(drive)'
<1>1. CASE Latch \/ InitEnd \/ SWResetEnd \/ FileEnd \/ Yield
  BY <1>1, GoodPrime DEF Latch, InitEnd, SWResetEnd, FileEnd, Yield
<1>2. CASE Exec
  BY <1>2, CarryDriveLemma, GoodPrime DEF Exec
<1>3. CASE CommandEnd
  <2>1. CASE AskedBeforeReset
    BY <1>3, <2>1, GoodPrime DEF CommandEnd
  <2>2. CASE ~ AskedBeforeReset
    <3>1. PICK d : Good(d) /\ drive' \in {d, PauseSoon(ClearPendingSec(d))}
      BY <1>3, <2>2, CheckBufPauseResumeLemma DEF CommandEnd
    <3> QED BY <1>3, <3>1, GoodClearLemma, GoodPrime DEF CommandEnd
  <2> QED BY <2>1, <2>2
<1>4. CASE ResetEnd
  <2> DEFINE e == PauseSoon(ClearPendingSec(drive))
  <2>1. IsDrive(e) /\ e.SecPreBuf_In = 0
    BY ClearLemma DEF Good
  <2>2. drive' = [e EXCEPT !.DrivePhase = "EJECTED_WAITING", !.idle = "may",
                    !.fad = Off, !.CurSector = 0, !.PlayRepeatCounter = 0, !.repeated = FALSE]
    BY <1>4 DEF ResetEnd
  <2> HIDE DEF e
  <2>3. /\ IsDrive(drive') /\ drive'.SecPreBuf_In = 0 /\ drive'.fad = Off
        /\ drive'.DrivePhase = "EJECTED_WAITING"
    BY <2>1, <2>2 DEF IsDrive
  <2> QED BY <1>4, <2>3, OffDiscLemma, GoodPrime DEF ResetEnd, WithDisc
<1>5. CASE FLS_Run
  BY <1>5, FLSDriveLemma, GoodPrime DEF FLS_Run
<1>6. CASE DriveStep
  BY <1>6, DriveStepLemma, GoodPrime DEF DriveStep
<1>7. CASE PeriodicCheck
  BY <1>7, PeriodicLemma, GoodPrime DEF PeriodicCheck
<1>8. CASE TransferWord \/ WriteCommand \/ ReadAnswer
  BY <1>8, GoodPrime DEF TransferWord, WriteCommand, ReadAnswer
<1>9. CASE CDB_SetDisc
  <2>1. CASE disc /\ drive.DrivePhase # "RESETTING"
    <3>1. /\ IsDrive(drive') /\ drive'.DrivePhase = "EJECTED0" /\ drive'.fad = drive.fad
          /\ drive'.next = drive.next /\ drive'.SecPreBuf_In = drive.SecPreBuf_In
          /\ drive'.buf = drive.buf
      BY <1>9, <2>1 DEF CDB_SetDisc, Ejected, Good, IsDrive
    <3> QED BY <3>1 DEF Good, InPlace, IsDrive, WithDisc
  <2>2. CASE ~ (disc /\ drive.DrivePhase # "RESETTING")
    <3>1. drive' = drive /\ (disc' = ~ disc)
      BY <1>9, <2>2 DEF CDB_SetDisc
    <3> QED BY <2>2, <3>1 DEF Good, InPlace, IsDrive, WithDisc
  <2> QED BY <2>1, <2>2
<1>10. CASE CDB_ResetCD
  <2>1. /\ IsDrive(drive') /\ drive'.DrivePhase = "RESETTING" /\ drive'.fad = drive.fad
        /\ drive'.next = drive.next /\ drive'.SecPreBuf_In = drive.SecPreBuf_In
        /\ drive'.buf = drive.buf
    BY <1>10 DEF CDB_ResetCD, Good, IsDrive
  <2> QED BY <1>10, <2>1, OffDiscLemma, GoodPrime DEF CDB_ResetCD, WithDisc
<1>11. CASE UNCHANGED vars
  BY <1>11, GoodPrime DEF vars
<1> QED
  BY <1>1, <1>2, <1>3, <1>4, <1>5, <1>6, <1>7, <1>8, <1>9, <1>10, <1>11 DEF Next, CommandLoop

\* Wherever the drive is.
THEOREM DrivePlaced == Spec => []Good(drive)
<1>1. Init => Good(drive)
  BY DEF Init, Good, IsDrive, InPlace, WithDisc
<1> QED BY <1>1, DriveInduction, PTL DEF Spec

\* A drive that seeks, plays or pauses has a disc in it, whenever the tray is opened
\* (StartSeek and CDB_SetDisc).
THEOREM DiscUnderDrive == Spec => []DriveHasDisc
<1>1. Good(drive) => DriveHasDisc
  BY DEF Good, DriveHasDisc, WithDisc
<1> QED BY <1>1, DrivePlaced, PTL

\* The sector that is read ahead while the drive plays is the one that is due, so
\* through pauses for room, repeats and plays that leave the pickup where it is
\* none is left out and none comes twice (Drive_Run and StartSeek).
THEOREM NoSectorMissed == Spec => []SectorsInOrder
<1>1. Good(drive) => SectorsInOrder
  BY DEF Good, InPlace, SectorsInOrder
<1> QED BY <1>1, DrivePlaced, PTL
-----------------------------------------------------------------------------
(* The end of a play: what the drive is to report, and how often it has    *)
(* played, for as long as it pauses.                                        *)

Reports == {"none", "PEND", "EFLS"}

\* A drive that pauses where the play ends has played it as often as it was
\* asked to, unless it has nothing to report.
Ended(d) == CheckEndMet(d) /\ d.PlayEndIRQType # "none" /\ ~ d.repeated
            => d.PlayRepeatCounter >= d.CurPlayRepeat

Told(d) == /\ d.PlayEndIRQType \in Reports
           /\ d.DrivePhase = "PAUSE" => d.fad = d.next /\ Ended(d)

\* Away from a pause only the report matters.
LEMMA ToldElsewhere ==
  ASSUME NEW d, NEW e, Told(d), e.DrivePhase # "PAUSE",
         e.PlayEndIRQType \in {d.PlayEndIRQType} \cup Reports
  PROVE  Told(e)
BY DEF Told

LEMMA ToldNothing ==
  ASSUME NEW d, IsDrive(d), Told(d)
  PROVE  Told(Dropped(d)) /\ Told(ClearPendingSec(d)) /\ Told(PauseSoon(d))
BY DEF Told, Ended, CheckEndMet, Dropped, ClearPendingSec, PauseSoon, IsDrive, Reports

LEMMA ToldSeekStart ==
  ASSUME NEW d, IsDrive(d), Told(d)
  PROVE  Told(SeekStart2(SeekStart1(d))) /\ Told(SeekStart2(d))
         /\ Told(ForceCompletePendingSeekStartup(d))
<1>1. LET e == SeekStart2(SeekStart1(d))
          f == SeekStart2(d)
      IN  /\ e.DrivePhase = "SEEK_START3" /\ e.PlayEndIRQType = d.PlayEndIRQType
          /\ f.DrivePhase = "SEEK_START3" /\ f.PlayEndIRQType = d.PlayEndIRQType
  BY DEF IsDrive, SeekStart1, SeekStart2
<1>2. Told(SeekStart2(SeekStart1(d))) /\ Told(SeekStart2(d))
  BY <1>1, ToldElsewhere
<1> QED BY <1>2 DEF ForceCompletePendingSeekStartup

\* A seek leaves a pause; without one the drive plays on.
LEMMA ToldStartSeek ==
  ASSUME NEW d, NEW target, NEW end, NEW repeat, NEW irq \in Reports, NEW keep,
         Good(d), Told(d)
  PROVE  Told(StartSeek(d, target, end, repeat, irq, keep))
<1> DEFINE d1 == ForceCompletePendingSeekStartup(d)
           d1b == IF keep THEN d1 ELSE ClearPendingSec(d1)
           d2 == [d1b EXCEPT !.PlayRepeatCounter = 0, !.repeated = FALSE,
                             !.CurPlayStart = target, !.CurPlayEnd = end,
                             !.CurPlayRepeat = repeat, !.PlayEndIRQType = irq]
           d3 == [d2 EXCEPT !.idle = "may",
                            !.DrivePhase = IF keep THEN "SEEK_START2" ELSE "SEEK_START1"]
<1>1. IsDrive(d1b) /\ Told(d1b)
  <2>1. IsDrive(d1) /\ Told(d1)
    BY ToldSeekStart, SeekStartLemma DEF ForceCompletePendingSeekStartup, Good
  <2> HIDE DEF d1
  <2> QED BY <2>1, ToldNothing, ClearLemma
<1> HIDE DEF d1b
<1>2. IsDrive(d2) /\ d2.PlayEndIRQType = irq /\ d2.DrivePhase = d1b.DrivePhase
  BY <1>1 DEF IsDrive
<1> HIDE DEF d2
<1>3. /\ d3.PlayEndIRQType = irq
      /\ d3.DrivePhase = IF keep THEN "SEEK_START2" ELSE "SEEK_START1"
  BY <1>2 DEF IsDrive
<1> HIDE DEF d3
<1>4. \/ StartSeek(d, target, end, repeat, irq, keep) = d
      \/ StartSeek(d, target, end, repeat, irq, keep) = d2 /\ d2.DrivePhase = "PLAY"
      \/ StartSeek(d, target, end, repeat, irq, keep) = d3
  BY DEF StartSeek, d1b, d2, d3
<1>5. d2.DrivePhase = "PLAY" => Told(d2)
  BY <1>2 DEF Told
<1>6. Told(d3)
  BY <1>3 DEF Told
<1> QED BY <1>4, <1>5, <1>6

LEMMA ToldSeekTo ==
  ASSUME NEW d, NEW target, Good(d), Told(d)
  PROVE  Told(SeekTo(d, target))
BY ToldStartSeek DEF SeekTo, Reports

LEMMA ToldResume ==
  ASSUME NEW d, NEW free, IsDrive(d), Told(d)
  PROVE  Told(Resume(d)) /\ Told(CheckBufPauseResume(d, free))
<1>1. ASSUME NEW e, IsDrive(e), Told(e) PROVE Told(Resume(e))
  <2>1. Resume(e).DrivePhase = "SEEK_START2" /\ Resume(e).PlayEndIRQType = e.PlayEndIRQType
    BY <1>1 DEF IsDrive, Resume
  <2> QED BY <1>1, <2>1, ToldElsewhere
<1>2. IsDrive(Dropped(d)) /\ Told(Dropped(d))
  BY ClearLemma, ToldNothing
<1> QED BY <1>1, <1>2 DEF CheckBufPauseResume

\* To read on leaves a pause as it is.
LEMMA ToldReadSector ==
  ASSUME NEW d, Good(d), Told(d), d.DrivePhase \in {"PLAY", "PAUSE"}
  PROVE  /\ Told(ReadSector(d))
         /\ d.DrivePhase = "PLAY" => Told(ReadSector(SectorTaken(d)))
<1>1. ASSUME NEW e, IsDrive(e), e.PlayEndIRQType = d.PlayEndIRQType
      PROVE  LET r == ReadSector(e)
             IN  /\ r.DrivePhase = e.DrivePhase /\ r.PlayEndIRQType = e.PlayEndIRQType
                 /\ r.next = e.next /\ r.fad = IF e.SecPreBuf_In # 0 THEN e.fad ELSE e.CurSector
                 /\ r.CurPlayEnd = e.CurPlayEnd /\ r.CurPlayStart = e.CurPlayStart
                 /\ r.repeated = e.repeated /\ r.PlayRepeatCounter = e.PlayRepeatCounter
                 /\ r.CurPlayRepeat = e.CurPlayRepeat
  BY <1>1 DEF IsDrive, ReadSector
<1>2. LET t == SectorTaken(d)
      IN  IsDrive(t) /\ t.DrivePhase = d.DrivePhase /\ t.PlayEndIRQType = d.PlayEndIRQType
  BY DEF SectorTaken, Dropped, Good, IsDrive
<1>3. IsDrive(d) /\ d.CurSector = d.fad
  BY DEF Good, InPlace
<1>4. Told(ReadSector(d))
  BY <1>1, <1>3 DEF Told, Ended, CheckEndMet
<1>5. ASSUME d.DrivePhase = "PLAY" PROVE Told(ReadSector(SectorTaken(d)))
  BY <1>1, <1>2, <1>5 DEF Told
<1> QED BY <1>4, <1>5

\* Only at the end, and only when it has played often enough, does the drive come
\* to a pause that it reports.
LEMMA ToldLooked ==
  ASSUME NEW d, Good(d), Told(d), d.DrivePhase \in {"PLAY", "PAUSE"}
  PROVE  Told(Looked(d))
<1> DEFINE e == Dropped(d)
           same(f) == /\ f.fad = d.fad /\ f.next = d.next /\ f.CurPlayEnd = d.CurPlayEnd
                      /\ f.CurPlayStart = d.CurPlayStart /\ f.repeated = d.repeated
                      /\ f.PlayRepeatCounter = d.PlayRepeatCounter
                      /\ f.CurPlayRepeat = d.CurPlayRepeat
<1>1. /\ IsDrive(e) /\ Told(e) /\ same(e) /\ e.PlayEndIRQType = d.PlayEndIRQType
      /\ e.DrivePhase = d.DrivePhase
  BY ClearLemma, ToldNothing DEF Good, IsDrive, Dropped
<1> HIDE DEF e
<1>2. ASSUME d.DrivePhase = "PAUSE" PROVE Told(InPause(e))
  <2>1. \/ /\ same(InPause(e)) /\ InPause(e).DrivePhase = "PAUSE"
           /\ InPause(e).PlayEndIRQType \in {"none", d.PlayEndIRQType}
        \/ InPause(e) = Resume(e)
    BY <1>1, <1>2 DEF InPause, IsDrive
  <2>2. ASSUME same(InPause(e)), InPause(e).DrivePhase = "PAUSE",
               InPause(e).PlayEndIRQType \in {"none", d.PlayEndIRQType}
        PROVE  Told(InPause(e))
    BY <1>1, <1>2, <2>2 DEF Told, Ended, CheckEndMet, Reports
  <2> QED BY <1>1, <2>1, <2>2, ToldResume
<1>3. ASSUME d.DrivePhase = "PLAY" PROVE Told(AtTheEnd(e))
  <2> DEFINE p == [e EXCEPT !.CurSector = e.fad, !.DrivePhase = "PAUSE",
                            !.PauseCounter = IF e.PlayEndIRQType # "none" THEN 0 ELSE 1]
             q == [e EXCEPT !.PlayRepeatCounter = IF @ < RepeatForever - 1 THEN @ + 1 ELSE @,
                            !.repeated = TRUE]
  <2>1. same(p) /\ p.PlayEndIRQType = d.PlayEndIRQType
    BY <1>1 DEF IsDrive
  <2>2. e.repeated \/ e.PlayRepeatCounter >= e.CurPlayRepeat => Told(p)
    BY <1>1, <1>3, <2>1 DEF Told, Ended, Good, InPlace
  <2>3. IsDrive(q) /\ q.PlayEndIRQType = e.PlayEndIRQType /\ q.DrivePhase # "PAUSE"
    BY <1>1, <1>3 DEF IsDrive
  <2> HIDE DEF p, q
  <2>4. Told(SeekStart2(SeekStart1(q)))
    BY <1>1, <2>3, ToldElsewhere, ToldSeekStart
  <2> QED BY <2>2, <2>4 DEF AtTheEnd, p, q
<1>4. ASSUME d.DrivePhase = "PLAY", ~ CheckEndMet(d)
      PROVE  Told([e EXCEPT !.DrivePhase = "PAUSE", !.PauseCounter = 0])
  <2> DEFINE p == [e EXCEPT !.DrivePhase = "PAUSE", !.PauseCounter = 0]
  <2>1. same(p) /\ p.PlayEndIRQType = d.PlayEndIRQType
    BY <1>1 DEF IsDrive
  <2> QED BY <1>4, <2>1 DEF Told, Ended, CheckEndMet, Good, InPlace
<1>5. ASSUME d.DrivePhase = "PLAY" PROVE Told([d EXCEPT !.repeated = FALSE])
  <2>1. LET p == [d EXCEPT !.repeated = FALSE]
        IN  p.DrivePhase = d.DrivePhase /\ p.PlayEndIRQType = d.PlayEndIRQType
    BY DEF Good, IsDrive
  <2> QED BY <1>5, <2>1, ToldElsewhere
<1> QED BY <1>2, <1>3, <1>4, <1>5 DEF Looked, e

LEMMA ToldDriveStep ==
  ASSUME Good(drive), Told(drive), DriveStep
  PROVE  Told(drive')
<1>1. CASE EjectedStep
  <2>1. CASE drive' = SeekTo(drive, DiscStart)
    BY <2>1, ToldSeekTo
  <2>2. ASSUME drive' # SeekTo(drive, DiscStart)
        PROVE  drive'.DrivePhase # "PAUSE" /\ drive'.PlayEndIRQType = drive.PlayEndIRQType
    BY <1>1, <2>2 DEF EjectedStep, Good, IsDrive
  <2> QED BY <2>1, <2>2, ToldElsewhere
<1>2. CASE SeekStep
  <2>1. CASE drive.DrivePhase \in {"SEEK_START1", "SEEK_START2"}
    BY <1>2, <2>1, ToldSeekStart DEF SeekStep, Good
  <2>2. ASSUME drive.DrivePhase \in {"SEEK_START3", "SEEK"}
        PROVE  drive'.DrivePhase # "PAUSE" /\ drive'.PlayEndIRQType = drive.PlayEndIRQType
    BY <1>2, <2>2 DEF SeekStep, Good, IsDrive
  <2> QED BY <1>2, <2>1, <2>2, ToldElsewhere DEF SeekStep
<1>3. CASE PlayStep
  BY <1>3, ToldReadSector DEF PlayStep
<1>4. CASE PauseStep
  BY <1>4, ToldReadSector DEF PauseStep
<1> QED BY <1>1, <1>2, <1>3, <1>4 DEF DriveStep

LEMMA ToldPeriodic ==
  ASSUME Good(drive), Told(drive), PeriodicCheck
  PROVE  Told(drive')
<1>1. PICK d : /\ IsDrive(d) /\ Told(d)
               /\ drive' = [d EXCEPT !.idle = IF d.DrivePhase \in {"PLAY", "PAUSE"}
                                              THEN "not" ELSE "may"]
  <2> DEFINE sector == drive.SecPreBuf_In # 0 /\ drive.DrivePhase \in {"PLAY", "PAUSE"}
             d == IF sector THEN Looked(drive) ELSE drive
  <2>1. IsDrive(d) /\ Told(d)
    BY LookedLemma, ToldLooked DEF Good
  <2>2. drive' = [d EXCEPT !.idle = IF d.DrivePhase \in {"PLAY", "PAUSE"} THEN "not" ELSE "may"]
    BY DEF PeriodicCheck
  <2> HIDE DEF d
  <2> QED BY <2>1, <2>2
<1>2. /\ drive'.DrivePhase = d.DrivePhase /\ drive'.PlayEndIRQType = d.PlayEndIRQType
      /\ drive'.fad = d.fad /\ drive'.next = d.next /\ drive'.CurPlayEnd = d.CurPlayEnd
      /\ drive'.CurPlayStart = d.CurPlayStart /\ drive'.repeated = d.repeated
      /\ drive'.PlayRepeatCounter = d.PlayRepeatCounter /\ drive'.CurPlayRepeat = d.CurPlayRepeat
  BY <1>1 DEF IsDrive
<1> QED BY <1>1, <1>2 DEF Told, Ended, CheckEndMet

LEMMA ToldDriveCommand ==
  ASSUME NEW c, c.op \in {"PLAY", "SEEK", "STOP", "PAUSE"}, Good(drive), Told(drive),
         DriveCommand(c)
  PROVE  Told(drive')
<1>1. CASE Play(c)
  BY <1>1, ToldStartSeek DEF Play, Reports
<1>2. CASE Seek(c)
  BY <1>2, ToldSeekTo DEF Seek
<1>3. CASE Stop(c)
  <2>1. LET e == ClearPendingSec(drive)
        IN  /\ IsDrive(e) /\ Told(e)
            /\ drive' = [e EXCEPT !.fad = Off, !.DrivePhase = "STOPPED"]
    BY <1>3, ClearLemma, ToldNothing DEF Stop, Good
  <2> QED BY <2>1 DEF IsDrive, Told
<1>4. CASE Pause(c)
  <2>1. PICK d : /\ IsDrive(d) /\ Told(d)
                 /\ drive' = PauseSoon([d EXCEPT !.SecPreBuf_In = IF @ = 0 THEN 0 ELSE -1])
    BY <1>4, SeekToLemma, ToldSeekTo DEF Pause, Good
  <2> DEFINE e == [d EXCEPT !.SecPreBuf_In = IF @ = 0 THEN 0 ELSE -1]
  <2>2. /\ IsDrive(e) /\ e.DrivePhase = d.DrivePhase /\ e.PlayEndIRQType = d.PlayEndIRQType
        /\ e.fad = d.fad /\ e.next = d.next /\ e.CurPlayEnd = d.CurPlayEnd
        /\ e.CurPlayStart = d.CurPlayStart /\ e.repeated = d.repeated
        /\ e.PlayRepeatCounter = d.PlayRepeatCounter /\ e.CurPlayRepeat = d.CurPlayRepeat
    BY <2>1 DEF IsDrive
  <2>3. Told(e)
    BY <2>1, <2>2 DEF Told, Ended, CheckEndMet
  <2> HIDE DEF e
  <2> QED BY <2>1, <2>2, <2>3, ToldNothing DEF e
<1> QED BY <1>1, <1>2, <1>3, <1>4 DEF DriveCommand

LEMMA ToldCarry ==
  ASSUME NEW c, Good(drive), Told(drive), Carry(c) \/ Query(c)
  PROVE  Told(drive')
<1>1. CASE c.op \in {"PLAY", "SEEK", "STOP", "PAUSE"} /\ DriveCommand(c)
  BY <1>1, ToldDriveCommand
<1>2. CASE Initialize(c)
  BY <1>2, ToldNothing, ClearLemma DEF Initialize, Good
<1>3. CASE ReadFile(c)
  BY <1>3, ToldStartSeek DEF ReadFile, Reports
<1>4. CASE UNCHANGED drive
  BY <1>4
<1> QED
  BY <1>1, <1>2, <1>3, <1>4
  DEF Carry, Query, Rest, GetToc, EndDataXfer, AuthDevice, SetCDDevConn, SetFiltCond, SetFiltConn,
      ResetPartition, ResetSel, SetSecLen, GetSecData, DelSecData, PutSecData, CopyMoveSecData,
      ChangeDir, AbortFile

LEMMA ToldFLS ==
  ASSUME Good(drive), Told(drive), FLS_Run
  PROVE  Told(drive')
<1>1. \A n : LET d == Grabbed(n).d IN Good(d) /\ IsDrive(d) /\ Told(d)
  BY CheckBufPauseResumeLemma, ToldResume DEF Grabbed, Good
<1>2. ASSUME NEW d, NEW B, Good(d), Told(d), ReadDirStart(B, d) PROVE Told(drive')
  BY <1>2, ToldStartSeek DEF ReadDirStart, Reports
<1>3. CASE FlsAbort
  BY <1>3, ToldNothing DEF FlsAbort, Good
<1>4. CASE AuthStart
  BY <1>4, ToldStartSeek DEF AuthStart, Reports
<1>5. CASE AuthEnd
  <2>1. LET d == SeekTo(Grabbed(1).d, DiscStart) IN IsDrive(d) /\ Told(d)
    BY <1>1, SeekToLemma, ToldSeekTo DEF Good
  <2> QED BY <1>5, <2>1, ToldNothing DEF AuthEnd
<1>6. CASE DirStart
  <2>1. CASE RootDirInfoValid
    BY <1>2, <1>6, <2>1 DEF DirStart
  <2>2. CASE ~ RootDirInfoValid
    <3>1. drive' = StartSeek(drive, Pvd, NoEnd, 0, "none", FALSE)
      BY <1>6, <2>2 DEF DirStart
    <3> QED BY <3>1, ToldStartSeek DEF Reports
  <2> QED BY <2>1, <2>2
<1>7. CASE RootRead
  <2>1. CASE drive' = Grabbed(1).d
    BY <1>1, <2>1
  <2>2. CASE ReadDirStart(Grabbed(1).B, Grabbed(1).d)
    BY <1>1, <1>2, <2>2
  <2>3. CASE drive' = PauseSoon(Grabbed(1).d)
    BY <1>1, <2>3, ToldNothing
  <2> QED BY <1>7, <2>1, <2>2, <2>3 DEF RootRead
<1>8. CASE DirRead
  BY <1>1, <1>8, ToldNothing DEF DirRead
<1> QED BY <1>3, <1>4, <1>5, <1>6, <1>7, <1>8 DEF FLS_Run

LEMMA ToldInduction == ASSUME Good(drive), Told(drive), [Next]_vars PROVE Told(drive')
<1>1. CASE UNCHANGED drive
  BY <1>1
<1>2. CASE Exec
  BY <1>2, ToldCarry DEF Exec
<1>3. CASE CommandEnd
  <2>1. CASE AskedBeforeReset
    BY <1>3, <2>1 DEF CommandEnd
  <2>2. CASE ~ AskedBeforeReset
    <3>1. PICK d : /\ IsDrive(d) /\ Told(d)
                   /\ drive' \in {d, PauseSoon(ClearPendingSec(d))}
      BY <1>3, <2>2, CheckBufPauseResumeLemma, ToldResume DEF CommandEnd, Good
    <3> QED BY <3>1, ToldNothing, ClearLemma
  <2> QED BY <2>1, <2>2
<1>4. CASE ResetEnd
  <2> DEFINE e == PauseSoon(ClearPendingSec(drive))
  <2>1. IsDrive(e) /\ Told(e)
    BY ClearLemma, ToldNothing DEF Good
  <2>2. drive' = [e EXCEPT !.DrivePhase = "EJECTED_WAITING", !.idle = "may",
                    !.fad = Off, !.CurSector = 0, !.PlayRepeatCounter = 0, !.repeated = FALSE]
    BY <1>4 DEF ResetEnd
  <2> HIDE DEF e
  <2> QED BY <2>1, <2>2 DEF IsDrive, Told
<1>5. CASE FLS_Run
  BY <1>5, ToldFLS
<1>6. CASE DriveStep
  BY <1>6, ToldDriveStep
<1>7. CASE PeriodicCheck
  BY <1>7, ToldPeriodic
<1>8. CASE CDB_SetDisc \/ CDB_ResetCD
  <2>1. \/ drive' = drive
        \/ drive'.DrivePhase # "PAUSE" /\ drive'.PlayEndIRQType = drive.PlayEndIRQType
    BY <1>8 DEF CDB_SetDisc, CDB_ResetCD, Ejected, Good, IsDrive
  <2> QED BY <2>1, ToldElsewhere
<1> QED
  BY <1>1, <1>2, <1>3, <1>4, <1>5, <1>6, <1>7, <1>8
  DEF Next, CommandLoop, Latch, InitEnd, SWResetEnd, FileEnd, Yield, TransferWord, WriteCommand,
      ReadAnswer, vars

LEMMA ToldPrime == ASSUME Told(drive') PROVE Told(drive)'
BY DEF Told, Ended, CheckEndMet

THEOREM PausesTold == Spec => [](Good(drive) /\ Told(drive))
<1>1. Init => Good(drive) /\ Told(drive)
  BY DEF Init, Good, IsDrive, InPlace, WithDisc, Told, Reports
<1>2. ASSUME Good(drive) /\ Told(drive), [Next]_vars PROVE (Good(drive) /\ Told(drive))'
  BY <1>2, DriveInduction, ToldInduction, ToldPrime
<1> QED BY <1>1, <1>2, PTL DEF Spec

\* The interrupt at the end of a play means that the drive stands at its end, or
\* outside of it, and that it has been repeated as often as was asked for
\* (Drive_Run's periodic check).
THEOREM EndReported == Spec => PlayEndReported
<1> DEFINE A == PeriodicCheck /\ hirq' # hirq =>
                  /\ \/ drive.next >= LeadOut \/ drive.next < drive.CurPlayStart
                     \/ drive.CurPlayEnd # NoEnd /\ drive.next >= drive.CurPlayEnd
                  /\ drive.PlayRepeatCounter >= drive.CurPlayRepeat
<1>1. ASSUME Good(drive) /\ Told(drive), [Next]_vars PROVE [A]_vars
  BY <1>1 DEF PeriodicCheck, PlayEndDue, Told, Ended, CheckEndMet
<1> HIDE DEF A
<1>2. Spec => [][A]_vars
  BY <1>1, PausesTold, PTL DEF Spec
<1> QED BY <1>2 DEF PlayEndReported, A
-----------------------------------------------------------------------------
(* The answer to a command.                                                 *)

\* CMOK is away for as long as a command waits to be carried out; a program that
\* waits after that has an answer, or the news of a reset, that no report covers.
AnswerInv ==
  /\ DOMAIN cmd = {"phase", "CTR", "tail"}
  /\ CommandPending \in BOOLEAN
  /\ CommandPending => "CMOK" \notin hirq
  /\ cmd.phase = "reset" => drive.DrivePhase = "RESETTING" /\ Results = "none"
  /\ waiting /\ ~ CommandPending /\ cmd.phase # "reset" =>
       Results \in {"answer", "reset"} /\ ~ ResultsRead

LEMMA AnswerInit == Init => AnswerInv
<1> SUFFICES ASSUME Init PROVE AnswerInv
  OBVIOUS
<1>1. cmd = [phase |-> "reset", CTR |-> NoCommand, tail |-> {}]
  BY DEF Init
<1>2. drive.DrivePhase = "RESETTING" /\ Results = "none" /\ CommandPending = FALSE
  BY DEF Init
<1> QED BY <1>1, <1>2 DEF AnswerInv

\* What happens between commands, and while one waits, leaves the answer alone.
LEMMA AnswerAside ==
  ASSUME AnswerInv, UNCHANGED <<CommandPending, Results, ResultsRead, waiting>>,
         DOMAIN cmd' = {"phase", "CTR", "tail"}, cmd.phase # "reset", cmd'.phase # "reset",
         CommandPending /\ "CMOK" \in hirq' => "CMOK" \in hirq
  PROVE  AnswerInv'
BY DEF AnswerInv

LEMMA GoesLemma ==
  ASSUME NEW phase, NEW tail, Goes(phase, tail)
  PROVE  DOMAIN cmd' = {"phase", "CTR", "tail"} /\ cmd'.phase = phase
BY DEF Goes

\* No command sets off the long reset.
LEMMA CarryGoes ==
  ASSUME NEW c, Carry(c) \/ Query(c)
  PROVE  DOMAIN cmd' = {"phase", "CTR", "tail"} /\ cmd'.phase # "reset"
<1>1. \E tail : \E phase \in {"tail", "now", "init", "resetsel"} : Goes(phase, tail)
  BY DEF Carry, Query, GetToc, Initialize, EndDataXfer, DriveCommand, AuthDevice, SetCDDevConn,
         SetFiltCond, SetFiltConn, ResetPartition, ResetSel, SetSecLen, GetSecData, DelSecData,
         PutSecData, CopyMoveSecData, ChangeDir, ReadFile, AbortFile, Then, Now
<1> QED BY <1>1, GoesLemma

LEMMA FLSGoes ==
  ASSUME FLS_Run, DOMAIN cmd = {"phase", "CTR", "tail"}
  PROVE  DOMAIN cmd' = {"phase", "CTR", "tail"} /\ cmd'.phase # "reset"
<1>1. Finished => DOMAIN cmd' = {"phase", "CTR", "tail"} /\ cmd'.phase # "reset"
  BY GoesLemma DEF Finished
<1>2. cmd.phase # "reset" /\ (Finished \/ UNCHANGED cmd)
  BY DEF FLS_Run, FlsAbort, AuthStart, AuthEnd, DirStart, RootRead, DirRead, ReadDirStart,
         StillRunning
<1> QED BY <1>1, <1>2

LEMMA AnswerStep ==
  ASSUME AnswerInv, Good(drive), Told(drive), [Next]_vars
  PROVE  AnswerInv'
<1> USE DEF AnswerInv
<1>1. CASE Latch
  BY <1>1 DEF Latch, answerVars
<1>2. CASE Exec
  <2>1. DOMAIN cmd' = {"phase", "CTR", "tail"} /\ cmd'.phase # "reset"
    BY <1>2, CarryGoes DEF Exec
  <2> QED BY <1>2, <2>1 DEF Exec, Answer
<1>3. CASE InitEnd
  <2>1. DOMAIN cmd' = {"phase", "CTR", "tail"} /\ cmd'.phase # "reset"
    BY <1>3, GoesLemma DEF InitEnd
  <2> QED BY <1>3, <2>1, AnswerAside DEF InitEnd, hostVars, answerVars
<1>4. CASE CommandEnd
  <2>1. DOMAIN cmd' = {"phase", "CTR", "tail"} /\ cmd'.phase # "reset"
    BY <1>4, GoesLemma DEF CommandEnd
  <2> QED BY <1>4, <2>1, AnswerAside DEF CommandEnd, hostVars
<1>5. CASE SWResetEnd
  <2>1. DOMAIN cmd' = {"phase", "CTR", "tail"} /\ cmd'.phase # "reset"
    BY <1>5, GoesLemma DEF SWResetEnd
  <2> QED BY <1>5, <2>1, AnswerAside DEF SWResetEnd, Overtaken, hostVars
<1>6. CASE ResetEnd
  <2>1. DOMAIN cmd' = {"phase", "CTR", "tail"} /\ cmd'.phase # "reset"
    BY <1>6, GoesLemma DEF ResetEnd
  <2> QED BY <1>6, <2>1 DEF ResetEnd
<1>7. CASE FileEnd
  <2>1. DOMAIN cmd' = {"phase", "CTR", "tail"} /\ cmd'.phase # "reset"
    BY <1>7, GoesLemma DEF FileEnd
  <2> QED BY <1>7, <2>1, AnswerAside DEF FileEnd, hostVars
<1>8. CASE FLS_Run
  BY <1>8, FLSGoes, AnswerAside DEF FLS_Run, hostVars, answerVars
<1>9. CASE Yield
  <2>1. DOMAIN cmd' = {"phase", "CTR", "tail"} /\ cmd'.phase # "reset"
    BY <1>9, GoesLemma DEF Yield
  <2> QED BY <1>9, <2>1, AnswerAside DEF Yield, hostVars, answerVars
<1>10. CASE DriveStep
  <2>1. cmd.phase # "reset" /\ ("CMOK" \in hirq' => "CMOK" \in hirq)
    BY <1>10 DEF DriveStep, EjectedStep, SeekStep, PlayStep, PauseStep
  <2> QED BY <1>10, <2>1, AnswerAside DEF DriveStep, hostVars
<1>11. CASE PeriodicCheck
  <2>1. cmd.phase # "reset" /\ ("CMOK" \in hirq' => "CMOK" \in hirq)
    BY <1>11 DEF PeriodicCheck, Told, Reports
  <2> QED BY <1>11, <2>1 DEF PeriodicCheck, hostVars
<1>12. CASE TransferWord \/ UNCHANGED vars
  BY <1>12 DEF TransferWord, hostVars, answerVars, vars
<1>13. CASE WriteCommand
  BY <1>13 DEF WriteCommand
<1>14. CASE ReadAnswer
  BY <1>14 DEF ReadAnswer
<1>15. CASE CDB_SetDisc
  BY <1>15 DEF CDB_SetDisc, hostVars, answerVars
<1>16. CASE CDB_ResetCD
  <2>1. DOMAIN cmd' = {"phase", "CTR", "tail"} /\ cmd'.phase = "reset"
    BY <1>16, GoesLemma DEF CDB_ResetCD
  <2>2. drive'.DrivePhase = "RESETTING"
    BY <1>16 DEF CDB_ResetCD, Good, IsDrive
  <2> QED BY <1>16, <2>1, <2>2 DEF CDB_ResetCD, hostVars
<1> QED
  BY <1>1, <1>2, <1>3, <1>4, <1>5, <1>6, <1>7, <1>8, <1>9, <1>10, <1>11, <1>12, <1>13, <1>14,
     <1>15, <1>16 DEF Next, CommandLoop

\* The program never takes a report, or the answer to the command before, for the
\* answer that it waits for (the command loop and the periodic report).
THEOREM AnswersTheCommand == Spec => []AnswerIsForCommand
<1>1. AnswerInv => AnswerIsForCommand
  BY DEF AnswerInv, AnswerIsForCommand
<1>2. ASSUME AnswerInv, Good(drive) /\ Told(drive), [Next]_vars PROVE AnswerInv'
  BY <1>2, AnswerStep
<1> QED BY <1>1, <1>2, AnswerInit, PausesTold, PTL DEF Spec
-----------------------------------------------------------------------------
(* Induction over numbers, and the values that a fold goes through.          *)

\* A set of numbers that is not empty has a least one.
LEMMA NatLeast ==
  ASSUME NEW T, T \subseteq Nat, T # {}
  PROVE  \E n \in T : \A m \in T : n <= m
<1> DEFINE R == OpToRel(<, Nat)
<1>1. R = {ss \in Nat \X Nat : ss[1] < ss[2]}
  BY DEF OpToRel
<1>2. IsWellFoundedOn(R, Nat)
  BY NatLessThanWellFounded
<1> HIDE DEF R
<1>3. PICK n \in T : \A m \in T : ~ (<<m, n>> \in R)
  BY <1>2, WFMin
<1>4. ASSUME NEW m \in T, m < n PROVE <<m, n>> \in R
  <2> DEFINE p == <<m, n>>
  <2>1. p \in Nat \X Nat /\ p[1] = m /\ p[2] = n
    OBVIOUS
  <2> HIDE DEF p
  <2>2. p \in R
    BY <2>1, <1>1, <1>4
  <2> QED BY <2>2 DEF p
<1>5. ASSUME NEW m \in T PROVE n <= m
  <2>1. ~ (m < n)
    BY <1>3, <1>4
  <2> QED BY <2>1
<1> QED BY <1>5

\* A set that has 0 and with n also n + 1 has every number.
LEMMA NatAll ==
  ASSUME NEW T, T \subseteq Nat, 0 \in T, \A n \in T : n + 1 \in T
  PROVE  T = Nat
<1>1. SUFFICES ASSUME Nat \ T # {} PROVE FALSE
  OBVIOUS
<1>2. PICK n \in Nat \ T : \A m \in Nat \ T : n <= m
  BY <1>1, NatLeast
<1>3. n - 1 \in Nat \ T
  BY <1>2
<1> QED BY <1>2, <1>3

\* What one step of each fold of the model does with B and b: how names the fold,
\* and p and f are what the step uses besides (for "filter" and "settle" the outputs
\* of the filters are one of them).
Does(how, p, f, B, b) ==
  CASE how = "free" -> Buffer_Free(B, b)
    [] how = "clear" -> UnlinkAndFree(B, p, b)
    [] how = "unlink" -> Partition_UnlinkBuffer(B, p, b)
    [] how = "move" -> MoveSector(B, p, f, b)
    [] how = "copy" -> CopySector(B, f, b)
    [] how = "filter" -> FilterBuf(B, p, f, b)
    [] how = "all" -> Partition_Clear(B, b)
    [] how = "settle" -> (IF B = None \/ TestFilterCond(B, p) THEN B ELSE f[B])
    [] how = "lend" -> [B |-> Buffer_Allocate([B.B EXCEPT !.Data[B.B.FirstFreeBuf] = Written]),
                                         l |-> Append(B.l, B.B.FirstFreeBuf)]

Fold(how, p, f, base, s) == FoldLeft(LAMBDA B, b : Does(how, p, f, B, b), base, s)

\* Some positions, and the last of them.
LEMMA MaxLemma ==
  ASSUME NEW n \in Nat, NEW t \in SUBSET (1 .. n), t # {}
  PROVE  Max(t) \in t /\ \A y \in t : Max(t) >= y
<1> DEFINE T == {n - i : i \in t}
<1>1. T \subseteq Nat /\ T # {}
  <2>1. \A i \in t : i \in 1 .. n /\ n - i \in Nat
    OBVIOUS
  <2>2. PICK i \in t : TRUE
    OBVIOUS
  <2>3. n - i \in T
    BY <2>2
  <2> QED BY <2>1, <2>3
<1>2. PICK d \in T : \A m \in T : d <= m
  BY <1>1, NatLeast
<1>3. PICK x \in t : d = n - x
  BY <1>2
<1>4. \A y \in t : x >= y
  <2>1. SUFFICES ASSUME NEW y \in t PROVE x >= y
    OBVIOUS
  <2>2. \E i \in t : n - y = n - i
    BY <2>1
  <2>3. n - y \in T
    BY <2>2
  <2> QED BY <2>3, <1>2, <1>3
<1> QED BY <1>3, <1>4 DEF Max

\* What FoldLeft is defined by: a function on the sets of positions.
IsIter(how, p, f, base, s, g, S) ==
  g = [t \in SUBSET S |-> IF t = {} THEN base ELSE Does(how, p, f, g[t \ {Max(t)}], s[Max(t)])]

\* There is such a function, for as many positions as there may be.
LEMMA IterExists ==
  ASSUME NEW how, NEW p, NEW f, NEW base, NEW n \in Nat, NEW s
  PROVE  \E g : IsIter(how, p, f, base, s, g, 1 .. n)
<1> DEFINE T == {k \in Nat : \E g : IsIter(how, p, f, base, s, g, 1 .. k)}
<1>1. 0 \in T
  <2> DEFINE g == [t \in SUBSET (1 .. 0) |-> base]
  <2>1. \A t \in SUBSET (1 .. 0) : t = {}
    OBVIOUS
  <2>2. IsIter(how, p, f, base, s, g, 1 .. 0)
    BY <2>1 DEF IsIter
  <2> QED BY <2>2
<1>2. ASSUME NEW k \in T PROVE k + 1 \in T
  <2>1. PICK g : IsIter(how, p, f, base, s, g, 1 .. k)
    OBVIOUS
  <2> DEFINE h == [t \in SUBSET (1 .. (k + 1)) |->
                    IF t = {} THEN base ELSE Does(how, p, f, g[t \ {Max(t)}], s[Max(t)])]
  <2>2. \A t \in SUBSET (1 .. k) : h[t] = g[t]
    <3>1. SUFFICES ASSUME NEW t \in SUBSET (1 .. k) PROVE h[t] = g[t]
      OBVIOUS
    <3>2. t \in SUBSET (1 .. (k + 1))
      OBVIOUS
    <3>3. h[t] = IF t = {} THEN base ELSE Does(how, p, f, g[t \ {Max(t)}], s[Max(t)])
      BY <3>2
    <3>4. g[t] = IF t = {} THEN base ELSE Does(how, p, f, g[t \ {Max(t)}], s[Max(t)])
      BY <2>1 DEF IsIter
    <3> QED BY <3>3, <3>4
  <2>3. \A t \in SUBSET (1 .. (k + 1)) : t # {} => h[t \ {Max(t)}] = g[t \ {Max(t)}]
    <3>1. SUFFICES ASSUME NEW t \in SUBSET (1 .. (k + 1)), t # {}
                   PROVE  t \ {Max(t)} \in SUBSET (1 .. k)
      BY <2>2
    <3>2. k + 1 \in Nat /\ k \in Nat
      OBVIOUS
    <3>3. Max(t) \in t /\ \A y \in t : Max(t) >= y
      BY <3>1, <3>2, MaxLemma
    <3>4. ASSUME NEW y \in t, y # Max(t) PROVE y \in 1 .. k
      <4>1. y \in 1 .. (k + 1) /\ Max(t) \in 1 .. (k + 1) /\ Max(t) >= y
        BY <3>1, <3>3
      <4> QED BY <4>1, <3>2, <3>4
    <3> QED BY <3>4
  <2>4. h = [t \in SUBSET (1 .. (k + 1)) |->
              IF t = {} THEN base ELSE Does(how, p, f, h[t \ {Max(t)}], s[Max(t)])]
    <3> DEFINE h2 == [t \in SUBSET (1 .. (k + 1)) |->
              IF t = {} THEN base ELSE Does(how, p, f, h[t \ {Max(t)}], s[Max(t)])]
    <3>1. ASSUME NEW t \in SUBSET (1 .. (k + 1)) PROVE h[t] = h2[t]
      <4>1. CASE t = {}
        BY <4>1
      <4>2. CASE t # {}
        <5>1. h[t] = Does(how, p, f, g[t \ {Max(t)}], s[Max(t)])
          BY <4>2
        <5>2. h2[t] = Does(how, p, f, h[t \ {Max(t)}], s[Max(t)])
          BY <4>2
        <5>3. h[t \ {Max(t)}] = g[t \ {Max(t)}]
          BY <2>3, <4>2
        <5> HIDE DEF h, h2
        <5> QED BY <5>1, <5>2, <5>3
      <4> QED BY <4>1, <4>2
    <3> QED BY <3>1
  <2>5. IsIter(how, p, f, base, s, h, 1 .. (k + 1))
    BY <2>4 DEF IsIter
  <2>6. k + 1 \in Nat
    OBVIOUS
  <2> HIDE DEF h
  <2> QED BY <2>5, <2>6
<1> HIDE DEF T
<1>3. T = Nat
  BY <1>1, <1>2, NatAll DEF T
<1> QED BY <1>3 DEF T

\* A fold over s goes from one value to the next.
Traced(how, p, f, base, s, n) ==
  \E r : /\ r[0] = base
         /\ \A k \in 1 .. n : r[k] = Does(how, p, f, r[k - 1], s[k])
         /\ Fold(how, p, f, base, s) = r[n]

LEMMA FoldTrace ==
  ASSUME NEW how, NEW p, NEW f, NEW base, NEW n, n \in Nat, NEW s, DOMAIN s = 1 .. n
  PROVE  Traced(how, p, f, base, s, n)
<1> DEFINE g == CHOOSE g : IsIter(how, p, f, base, s, g, 1 .. n)
<1>1. IsIter(how, p, f, base, s, g, 1 .. n)
  BY IterExists
<1>2. Fold(how, p, f, base, s) = g[1 .. n]
  BY DEF Fold, FoldLeft, MapThenFoldSet, IsIter
<1> HIDE DEF g
<1> DEFINE r == [k \in 0 .. n |-> g[1 .. k]]
<1>3. r[0] = base
  <2>1. 1 .. 0 = {} /\ {} \in SUBSET (1 .. n)
    OBVIOUS
  <2> QED BY <2>1, <1>1 DEF IsIter
<1>4. ASSUME NEW k \in 1 .. n PROVE r[k] = Does(how, p, f, r[k - 1], s[k])
  <2>0. k \in Nat /\ k >= 1 /\ k <= n
    OBVIOUS
  <2>1. /\ 1 .. k \in SUBSET (1 .. n)
        /\ k \in 1 .. k /\ k \in 0 .. n /\ k - 1 \in 0 .. n
    BY <2>0
  <2>2. Max(1 .. k) = k
    <3>1. Max(1 .. k) \in 1 .. k /\ \A y \in 1 .. k : Max(1 .. k) >= y
      BY <2>0, <2>1, MaxLemma
    <3> QED BY <3>1, <2>0, <2>1
  <2>3. (1 .. k) \ {k} = 1 .. (k - 1)
    BY <2>1
  <2>4. g[1 .. k] = Does(how, p, f, g[1 .. (k - 1)], s[k])
    BY <2>1, <2>2, <2>3, <1>1 DEF IsIter
  <2> QED BY <2>1, <2>4
<1>5. r[n] = g[1 .. n]
  OBVIOUS
<1> HIDE DEF r
<1> QED BY <1>2, <1>3, <1>4, <1>5 DEF Traced

\* The folds of the model are of this kind.
LEMMA FreeFold ==
  ASSUME NEW B, NEW s, NEW p, NEW f
  PROVE  FoldLeft(Buffer_Free, B, s) = Fold("free", p, f, B, s)
BY DEF FoldLeft, MapThenFoldSet, Does, Fold

LEMMA ClearFold ==
  ASSUME NEW B, NEW s, NEW p, NEW f
  PROVE  FoldLeft(LAMBDA C, b : UnlinkAndFree(C, p, b), B, s) = Fold("clear", p, f, B, s)
BY DEF FoldLeft, MapThenFoldSet, Does, Fold

LEMMA UnlinkFold ==
  ASSUME NEW B, NEW s, NEW p, NEW f
  PROVE  FoldLeft(LAMBDA C, b : Partition_UnlinkBuffer(C, p, b), B, s) = Fold("unlink", p, f, B, s)
BY DEF FoldLeft, MapThenFoldSet, Does, Fold

LEMMA MoveFold ==
  ASSUME NEW B, NEW s, NEW c, c.op = "MOVE_SECDATA"
  PROVE  FoldLeft(LAMBDA C, b : IF c.op = "MOVE_SECDATA" THEN MoveSector(C, c.part, c.filter, b)
                                ELSE CopySector(C, c.filter, b), B, s)
           = Fold("move", c.part, c.filter, B, s)
BY DEF FoldLeft, MapThenFoldSet, Does, Fold

LEMMA CopyFold ==
  ASSUME NEW B, NEW s, NEW c, c.op = "COPY_SECDATA"
  PROVE  FoldLeft(LAMBDA C, b : IF c.op = "MOVE_SECDATA" THEN MoveSector(C, c.part, c.filter, b)
                                ELSE CopySector(C, c.filter, b), B, s)
           = Fold("copy", c.part, c.filter, B, s)
BY DEF FoldLeft, MapThenFoldSet, Does, Fold

LEMMA FilterFold ==
  ASSUME NEW B, NEW s, NEW false, NEW f
  PROVE  FoldLeft(LAMBDA C, b : FilterBuf(C, false, f, b), B, s) = Fold("filter", false, f, B, s)
BY DEF FoldLeft, MapThenFoldSet, Does, Fold

LEMMA ClearAllFold ==
  ASSUME NEW B, NEW s, NEW p, NEW f
  PROVE  FoldLeft(Partition_Clear, B, s) = Fold("all", p, f, B, s)
BY DEF FoldLeft, MapThenFoldSet, Does, Fold

LEMMA SettleFold ==
  ASSUME NEW s, NEW false, NEW f, NEW l
  PROVE  FoldLeft(LAMBDA cur, i : IF cur = None \/ TestFilterCond(cur, s) THEN cur ELSE false[cur],
                  f, l) = Fold("settle", s, false, f, l)
BY DEF FoldLeft, MapThenFoldSet, Does, Fold

LEMMA LendFold ==
  ASSUME NEW base, NEW l, NEW p, NEW f
  PROVE  FoldLeft(LAMBDA acc, i :
                    [B |-> Buffer_Allocate([acc.B EXCEPT !.Data[acc.B.FirstFreeBuf] = Written]),
                     l |-> Append(acc.l, acc.B.FirstFreeBuf)], base, l)
           = Fold("lend", p, f, base, l)
BY DEF FoldLeft, MapThenFoldSet, Does, Fold

-----------------------------------------------------------------------------
(* The buffers: which list each is in.  L has the free buffers (at None) and *)
(* those of every partition, in order; U those that are in no list.          *)

\* Where a list is kept: the partitions, and None for the free buffers.
Places == Filters \cup {None}

\* Every buffer is in one place.
OneEach(L, U) ==
  /\ \A x, y \in Places : \A i \in 1 .. Len(L[x]), j \in 1 .. Len(L[y]) :
       L[x][i] = L[y][j] => x = y /\ i = j
  /\ \A x \in Places : \A i \in 1 .. Len(L[x]) : L[x][i] \notin U
  /\ \A b \in Bufs : b \in U \/ \E x \in Places : \E i \in 1 .. Len(L[x]) : L[x][i] = b

\* Next and Prev lead through the list s.
Linked(N, P, s) ==
  \A i \in 1 .. Len(s) : /\ N[s[i]] = IF i = Len(s) THEN None ELSE s[i + 1]
                         /\ P[s[i]] = IF i = 1 THEN None ELSE s[i - 1]

\* The links N and P lead through all of the lists.
Chains(N, P, L, U) ==
  /\ N \in [Bufs -> Bufs \cup {None}] /\ P \in [Bufs -> Bufs \cup {None}]
  /\ L \in [Places -> Seq(Bufs)] /\ U \in SUBSET Bufs
  /\ OneEach(L, U)
  /\ \A x \in Places : Linked(N, P, L[x])

\* A list without its k-th buffer, with b behind the others, with b before them.
Cut(s, k) == [i \in 1 .. (Len(s) - 1) |-> IF i < k THEN s[i] ELSE s[i + 1]]
Behind(s, b) == [i \in 1 .. (Len(s) + 1) |-> IF i <= Len(s) THEN s[i] ELSE b]
Before(s, b) == [i \in 1 .. (Len(s) + 1) |-> IF i = 1 THEN b ELSE s[i - 1]]

First(s) == IF Len(s) = 0 THEN None ELSE s[1]
LastOf(s) == IF Len(s) = 0 THEN None ELSE s[Len(s)]

LEMMA BufsLemma == None \notin Bufs /\ None \notin Filters /\ Bufs \subseteq Nat
BY SelectorAssumption DEF Bufs, Filters, None

\* What these are.
LEMMA CutLemma ==
  ASSUME NEW s \in Seq(Bufs), NEW k \in 1 .. Len(s)
  PROVE  /\ Cut(s, k) \in Seq(Bufs) /\ Len(Cut(s, k)) = Len(s) - 1
         /\ \A i \in 1 .. (Len(s) - 1) : Cut(s, k)[i] = IF i < k THEN s[i] ELSE s[i + 1]
<1>1. Cut(s, k) \in [1 .. (Len(s) - 1) -> Bufs] /\ Len(s) - 1 \in Nat
  BY DEF Cut
<1> QED BY <1>1 DEF Cut

LEMMA BehindLemma ==
  ASSUME NEW s \in Seq(Bufs), NEW b \in Bufs
  PROVE  /\ Behind(s, b) \in Seq(Bufs) /\ Len(Behind(s, b)) = Len(s) + 1
         /\ \A i \in 1 .. (Len(s) + 1) : Behind(s, b)[i] = IF i <= Len(s) THEN s[i] ELSE b
<1>1. Behind(s, b) \in [1 .. (Len(s) + 1) -> Bufs] /\ Len(s) + 1 \in Nat
  BY DEF Behind
<1> QED BY <1>1 DEF Behind

LEMMA BeforeLemma ==
  ASSUME NEW s \in Seq(Bufs), NEW b \in Bufs
  PROVE  /\ Before(s, b) \in Seq(Bufs) /\ Len(Before(s, b)) = Len(s) + 1
         /\ \A i \in 1 .. (Len(s) + 1) : Before(s, b)[i] = IF i = 1 THEN b ELSE s[i - 1]
<1>1. Before(s, b) \in [1 .. (Len(s) + 1) -> Bufs] /\ Len(s) + 1 \in Nat
  BY DEF Before
<1> QED BY <1>1 DEF Before

\* A link set at a buffer, or at None, where it sets nothing.
LEMMA SetLinkLemma ==
  ASSUME NEW g \in [Bufs -> Bufs \cup {None}], NEW i, NEW v \in Bufs \cup {None}
  PROVE  /\ SetLink(g, i, v) \in [Bufs -> Bufs \cup {None}]
         /\ \A b \in Bufs : SetLink(g, i, v)[b] = IF b = i THEN v ELSE g[b]
BY DEF SetLink

\* A buffer is taken out of a list.
LEMMA CutChains ==
  ASSUME NEW N, NEW P, NEW L, NEW U, Chains(N, P, L, U),
         NEW x \in Places, NEW k \in 1 .. Len(L[x]), NEW b, b = L[x][k]
  PROVE  Chains(SetLink(SetLink(N, P[b], N[b]), b, None),
                SetLink(SetLink(P, N[b], P[b]), b, None),
                [L EXCEPT ![x] = Cut(L[x], k)], U \cup {b})
<1> DEFINE s == L[x]
           c == Cut(s, k)
           M == [L EXCEPT ![x] = c]
           N1 == SetLink(N, P[b], N[b])
           P1 == SetLink(P, N[b], P[b])
           N2 == SetLink(N1, b, None)
           P2 == SetLink(P1, b, None)
<1>1. s \in Seq(Bufs) /\ k \in 1 .. Len(s) /\ b = s[k] /\ b \in Bufs /\ Len(s) \in Nat
  BY DEF Chains
<1>2. /\ c \in Seq(Bufs) /\ Len(c) = Len(s) - 1
      /\ \A i \in 1 .. (Len(s) - 1) : c[i] = IF i < k THEN s[i] ELSE s[i + 1]
  BY <1>1, CutLemma
<1>3. /\ M \in [Places -> Seq(Bufs)]
      /\ M[x] = c /\ \A y \in Places : y # x => M[y] = L[y]
  BY <1>2 DEF Chains
<1>4. /\ N2 \in [Bufs -> Bufs \cup {None}]
      /\ \A d \in Bufs : N2[d] = IF d = b THEN None ELSE IF d = P[b] THEN N[b] ELSE N[d]
  <2>1. N \in [Bufs -> Bufs \cup {None}] /\ N[b] \in Bufs \cup {None}
    BY <1>1 DEF Chains
  <2>2. /\ N1 \in [Bufs -> Bufs \cup {None}]
        /\ \A d \in Bufs : N1[d] = IF d = P[b] THEN N[b] ELSE N[d]
    BY <2>1, SetLinkLemma
  <2> HIDE DEF N1
  <2>3. None \in Bufs \cup {None}
    OBVIOUS
  <2> QED BY <2>2, <2>3, SetLinkLemma
<1>5. /\ P2 \in [Bufs -> Bufs \cup {None}]
      /\ \A d \in Bufs : P2[d] = IF d = b THEN None ELSE IF d = N[b] THEN P[b] ELSE P[d]
  <2>1. P \in [Bufs -> Bufs \cup {None}] /\ P[b] \in Bufs \cup {None}
    BY <1>1 DEF Chains
  <2>2. /\ P1 \in [Bufs -> Bufs \cup {None}]
        /\ \A d \in Bufs : P1[d] = IF d = N[b] THEN P[b] ELSE P[d]
    BY <2>1, SetLinkLemma
  <2> HIDE DEF P1
  <2>3. None \in Bufs \cup {None}
    OBVIOUS
  <2> QED BY <2>2, <2>3, SetLinkLemma
<1>6. /\ \A i, j \in 1 .. Len(s) : s[i] = s[j] => i = j
      /\ \A y \in Places : y # x => \A i \in 1 .. Len(s), j \in 1 .. Len(L[y]) : s[i] # L[y][j]
      /\ \A i \in 1 .. Len(s) : s[i] \notin U
  BY DEF Chains, OneEach
<1>7. Linked(N, P, s)
  BY DEF Chains
<1>8. /\ N[b] = IF k = Len(s) THEN None ELSE s[k + 1]
      /\ P[b] = IF k = 1 THEN None ELSE s[k - 1]
  BY <1>1, <1>7 DEF Linked
<1> HIDE DEF s, c, M, N1, P1, N2, P2
<1>9. Linked(N2, P2, c)
  <2> SUFFICES ASSUME NEW i \in 1 .. (Len(s) - 1)
               PROVE  /\ N2[c[i]] = IF i = Len(s) - 1 THEN None ELSE c[i + 1]
                      /\ P2[c[i]] = IF i = 1 THEN None ELSE c[i - 1]
    BY <1>2 DEF Linked
  <2>1. CASE i < k
    <3>1. c[i] = s[i] /\ i \in 1 .. Len(s) /\ s[i] # b /\ s[i] \in Bufs
      BY <1>1, <1>2, <1>6, <2>1
    <3>2. /\ N[s[i]] = IF i = Len(s) THEN None ELSE s[i + 1]
          /\ P[s[i]] = IF i = 1 THEN None ELSE s[i - 1]
      BY <1>7, <3>1 DEF Linked
    <3>3. N2[c[i]] = IF s[i] = P[b] THEN N[b] ELSE N[s[i]]
      BY <1>4, <3>1
    <3>4. P2[c[i]] = IF s[i] = N[b] THEN P[b] ELSE P[s[i]]
      BY <1>5, <3>1
    <3>5. s[i] = P[b] <=> i = k - 1
      BY <1>1, <1>6, <1>8, <3>1, <2>1, BufsLemma
    <3>6. s[i] # N[b]
      BY <1>1, <1>6, <1>8, <3>1, <2>1, BufsLemma
    <3>7. i + 1 < k => c[i + 1] = s[i + 1]
      BY <1>1, <1>2
    <3>8. i = k - 1 /\ k # Len(s) => c[i + 1] = s[k + 1]
      BY <1>1, <1>2
    <3>9. i # 1 => c[i - 1] = s[i - 1]
      BY <1>1, <1>2, <2>1
    <3> QED BY <1>1, <1>8, <2>1, <3>2, <3>3, <3>4, <3>5, <3>6, <3>7, <3>8, <3>9
  <2>2. CASE i >= k
    <3>1. c[i] = s[i + 1] /\ i + 1 \in 1 .. Len(s) /\ s[i + 1] # b /\ s[i + 1] \in Bufs
      BY <1>1, <1>2, <1>6, <2>2
    <3>2. /\ N[s[i + 1]] = IF i + 1 = Len(s) THEN None ELSE s[i + 2]
          /\ P[s[i + 1]] = s[i]
      <4>1. (i + 1) + 1 = i + 2 /\ (i + 1) - 1 = i /\ i + 1 # 1
        OBVIOUS
      <4> DEFINE j == i + 1
      <4>2. /\ N[s[j]] = IF j = Len(s) THEN None ELSE s[j + 1]
            /\ P[s[j]] = IF j = 1 THEN None ELSE s[j - 1]
        BY <1>7, <3>1 DEF Linked
      <4> QED BY <4>1, <4>2
    <3>3. N2[c[i]] = IF s[i + 1] = P[b] THEN N[b] ELSE N[s[i + 1]]
      BY <1>4, <3>1
    <3>4. P2[c[i]] = IF s[i + 1] = N[b] THEN P[b] ELSE P[s[i + 1]]
      BY <1>5, <3>1
    <3>5. s[i + 1] = N[b] <=> i = k
      BY <1>1, <1>6, <1>8, <3>1, <2>2, BufsLemma
    <3>6. s[i + 1] # P[b]
      BY <1>1, <1>6, <1>8, <3>1, <2>2, BufsLemma
    <3>7. i # Len(s) - 1 => c[i + 1] = s[i + 2]
      <4>1. i # Len(s) - 1 => i + 1 \in 1 .. (Len(s) - 1) /\ ~ (i + 1 < k) /\ (i + 1) + 1 = i + 2
        BY <1>1, <2>2
      <4> QED BY <1>2, <4>1
    <3>8. i # 1 /\ i # k => c[i - 1] = s[i]
      <4>1. i # 1 /\ i # k => i - 1 \in 1 .. (Len(s) - 1) /\ ~ (i - 1 < k) /\ (i - 1) + 1 = i
        BY <1>1, <2>2
      <4> QED BY <1>2, <4>1
    <3>9. i # 1 /\ i = k => c[i - 1] = s[k - 1]
      <4>1. i # 1 /\ i = k => i - 1 \in 1 .. (Len(s) - 1) /\ i - 1 < k
        BY <1>1, <2>2
      <4> QED BY <1>2, <4>1
    <3> QED BY <1>1, <1>8, <2>2, <3>2, <3>3, <3>4, <3>5, <3>6, <3>7, <3>8, <3>9
  <2> QED BY <1>1, <2>1, <2>2
<1>10. \A y \in Places : Linked(N2, P2, M[y])
  <2> SUFFICES ASSUME NEW y \in Places, y # x PROVE Linked(N2, P2, L[y])
    BY <1>3, <1>9
  <2>1. Linked(N, P, L[y]) /\ L[y] \in Seq(Bufs)
    BY DEF Chains
  <2>2. \A i \in 1 .. Len(L[y]) : L[y][i] \in Bufs /\ L[y][i] # b /\ L[y][i] # N[b] /\ L[y][i] # P[b]
    BY <1>1, <1>6, <1>8, <2>1, BufsLemma
  <2> QED BY <1>4, <1>5, <2>1, <2>2 DEF Linked
<1>11. OneEach(M, U \cup {b})
  <2>1. \A y \in Places : \A i \in 1 .. Len(M[y]) : \E j \in 1 .. Len(L[y]) :
          M[y][i] = L[y][j] /\ (y # x => i = j) /\ (y = x => j # k /\ j = IF i < k THEN i ELSE i + 1)
    <3> SUFFICES ASSUME NEW y \in Places, NEW i \in 1 .. Len(M[y])
                 PROVE  \E j \in 1 .. Len(L[y]) :
          M[y][i] = L[y][j] /\ (y # x => i = j) /\ (y = x => j # k /\ j = IF i < k THEN i ELSE i + 1)
      OBVIOUS
    <3>1. CASE y # x
      BY <3>1, <1>3
    <3>2. CASE y = x
      <4>1. i \in 1 .. (Len(s) - 1) /\ M[y][i] = c[i] /\ L[y] = s
        BY <3>2, <1>2, <1>3 DEF s
      <4>2. CASE i < k
        <5>1. i \in 1 .. Len(s) /\ i # k
          BY <4>1, <4>2, <1>1
        <5> QED BY <4>1, <4>2, <5>1, <3>2, <1>2
      <4>3. CASE ~ (i < k)
        <5>1. i + 1 \in 1 .. Len(s) /\ i + 1 # k
          BY <4>1, <4>3, <1>1
        <5> QED BY <4>1, <4>3, <5>1, <3>2, <1>2
      <4> QED BY <4>2, <4>3
    <3> QED BY <3>1, <3>2
  <2>2. \A y, z \in Places : \A i \in 1 .. Len(M[y]), j \in 1 .. Len(M[z]) :
          M[y][i] = M[z][j] => y = z /\ i = j
    <3> SUFFICES ASSUME NEW y \in Places, NEW z \in Places, NEW i \in 1 .. Len(M[y]),
                        NEW j \in 1 .. Len(M[z]), M[y][i] = M[z][j]
                 PROVE  y = z /\ i = j
      OBVIOUS
    <3>1. PICK i1 \in 1 .. Len(L[y]) :
            M[y][i] = L[y][i1] /\ (y # x => i = i1) /\ (y = x => i1 # k /\ i1 = IF i < k THEN i ELSE i + 1)
      BY <2>1
    <3>2. PICK j1 \in 1 .. Len(L[z]) :
            M[z][j] = L[z][j1] /\ (z # x => j = j1) /\ (z = x => j1 # k /\ j1 = IF j < k THEN j ELSE j + 1)
      BY <2>1
    <3>3. y = z /\ i1 = j1
      <4>1. L[y][i1] = L[z][j1]
        BY <3>1, <3>2
      <4>2. \A i2 \in 1 .. Len(L[y]), j2 \in 1 .. Len(L[z]) : L[y][i2] = L[z][j2] => y = z /\ i2 = j2
        BY DEF Chains, OneEach
      <4> QED BY <4>1, <4>2
    <3>4. i \in Int /\ j \in Int /\ k \in Int
      BY <1>1
    <3> QED BY <3>1, <3>2, <3>3, <3>4
  <2>3. \A y \in Places : \A i \in 1 .. Len(M[y]) : M[y][i] \notin U \cup {b}
    <3> SUFFICES ASSUME NEW y \in Places, NEW i \in 1 .. Len(M[y]) PROVE M[y][i] \notin U \cup {b}
      OBVIOUS
    <3>1. PICK i1 \in 1 .. Len(L[y]) : M[y][i] = L[y][i1] /\ (y = x => i1 # k)
      BY <2>1
    <3>2. L[y][i1] \notin U
      BY DEF Chains, OneEach
    <3>3. L[y][i1] # b
      BY <3>1, <1>1, <1>6 DEF s
    <3> QED BY <3>1, <3>2, <3>3
  <2>4. \A d \in Bufs : d \in U \cup {b} \/ \E y \in Places : \E i \in 1 .. Len(M[y]) : M[y][i] = d
    <3> SUFFICES ASSUME NEW d \in Bufs, d \notin U, d # b
                 PROVE  \E y \in Places : \E i \in 1 .. Len(M[y]) : M[y][i] = d
      OBVIOUS
    <3>1. PICK y \in Places : \E i \in 1 .. Len(L[y]) : L[y][i] = d
      BY DEF Chains, OneEach
    <3>2. PICK j \in 1 .. Len(L[y]) : L[y][j] = d
      BY <3>1
    <3>3. CASE y # x
      BY <3>2, <3>3, <1>3
    <3>4. CASE y = x
      <4>1. L[y] = s /\ M[y] = c /\ j # k
        BY <3>2, <3>4, <1>1, <1>3 DEF s
      <4>2. CASE j < k
        <5>1. j \in 1 .. Len(c) /\ c[j] = d
          BY <4>1, <4>2, <3>2, <1>1, <1>2
        <5> QED BY <5>1, <4>1
      <4>3. CASE j > k
        <5>1. j - 1 \in 1 .. Len(c) /\ ~ (j - 1 < k) /\ (j - 1) + 1 = j
          BY <4>1, <4>3, <3>2, <1>1, <1>2
        <5>2. c[j - 1] = d
          BY <5>1, <4>1, <3>2, <1>2
        <5> QED BY <5>1, <5>2, <4>1
      <4> QED BY <4>1, <4>2, <4>3, <1>1
    <3> QED BY <3>3, <3>4
  <2> QED BY <2>2, <2>3, <2>4 DEF OneEach
<1>12. U \cup {b} \in SUBSET Bufs
  BY <1>1 DEF Chains
<1>13. Chains(N2, P2, M, U \cup {b})
  BY <1>3, <1>4, <1>5, <1>10, <1>11, <1>12 DEF Chains
<1> QED BY <1>13 DEF M, N2, P2, N1, P1, c, s

\* A list that has b and what it had before, each once: at Spot(i) of the new list
\* is what was at i of the old one.
Widened(s, c, b) ==
  \/ /\ Len(c) = Len(s) + 1
     /\ \A i \in 1 .. (Len(s) + 1) : c[i] = IF i <= Len(s) THEN s[i] ELSE b
  \/ /\ Len(c) = Len(s) + 1
     /\ \A i \in 1 .. (Len(s) + 1) : c[i] = IF i = 1 THEN b ELSE s[i - 1]

\* A loose buffer that gets into one list is in one place.
LEMMA InOnePlace ==
  ASSUME NEW L, NEW M, NEW U, NEW x \in Places, NEW b \in U, OneEach(L, U),
         \A y \in Places : Len(L[y]) \in Nat,
         Widened(L[x], M[x], b), \A y \in Places : y # x => M[y] = L[y]
  PROVE  OneEach(M, U \ {b})
<1> DEFINE s == L[x]
           c == M[x]
<1> DEFINE Old(y, i, j) == j \in 1 .. Len(L[y]) /\ M[y][i] = L[y][j]
<1>0. Len(s) \in Nat /\ Len(c) = Len(s) + 1
  BY DEF Widened
<1>1. \E e \in {0, 1}, at \in {1, Len(s) + 1} :
        /\ c[at] = b /\ at \in 1 .. Len(c)
        /\ \A i \in 1 .. Len(c) : i # at => c[i] = s[i - e] /\ i - e \in 1 .. Len(s)
        /\ \A i \in 1 .. Len(s) : i + e \in 1 .. Len(c) /\ i + e # at /\ c[i + e] = s[i]
  <2>1. CASE \A i \in 1 .. (Len(s) + 1) : c[i] = IF i <= Len(s) THEN s[i] ELSE b
    <3> DEFINE at == Len(s) + 1
               e == 0
    <3>1. c[at] = b /\ at \in 1 .. Len(c)
      BY <1>0, <2>1
    <3>2. \A i \in 1 .. Len(c) : i # at => c[i] = s[i - e] /\ i - e \in 1 .. Len(s)
      BY <1>0, <2>1
    <3>3. \A i \in 1 .. Len(s) : i + e \in 1 .. Len(c) /\ i + e # at /\ c[i + e] = s[i]
      BY <1>0, <2>1
    <3> HIDE DEF s, c
    <3> QED BY <3>1, <3>2, <3>3
  <2>2. CASE \A i \in 1 .. (Len(s) + 1) : c[i] = IF i = 1 THEN b ELSE s[i - 1]
    <3> DEFINE at == 1
               e == 1
    <3>1. c[at] = b /\ at \in 1 .. Len(c)
      BY <1>0, <2>2
    <3>2. \A i \in 1 .. Len(c) : i # at => c[i] = s[i - e] /\ i - e \in 1 .. Len(s)
      BY <1>0, <2>2
    <3>3. \A i \in 1 .. Len(s) : i + e \in 1 .. Len(c) /\ i + e # at /\ c[i + e] = s[i]
      <4> SUFFICES ASSUME NEW i \in 1 .. Len(s)
                   PROVE  i + e \in 1 .. Len(c) /\ i + e # at /\ c[i + e] = s[i]
        OBVIOUS
      <4>1. i + 1 \in 1 .. (Len(s) + 1) /\ i + 1 # 1 /\ (i + 1) - 1 = i
        BY <1>0
      <4> QED BY <1>0, <2>2, <4>1
    <3> HIDE DEF s, c
    <3> QED BY <3>1, <3>2, <3>3
  <2> QED BY <2>1, <2>2 DEF Widened
<1>2. PICK e \in {0, 1}, at \in {1, Len(s) + 1} :
        /\ c[at] = b /\ at \in 1 .. Len(c)
        /\ \A i \in 1 .. Len(c) : i # at => c[i] = s[i - e] /\ i - e \in 1 .. Len(s)
        /\ \A i \in 1 .. Len(s) : i + e \in 1 .. Len(c) /\ i + e # at /\ c[i + e] = s[i]
  BY <1>1
<1>3. \A y \in Places : \A i \in 1 .. Len(L[y]) : L[y][i] # b
  BY DEF OneEach
<1>4. \A y, z \in Places : \A i \in 1 .. Len(L[y]), j \in 1 .. Len(L[z]) :
        L[y][i] = L[z][j] => y = z /\ i = j
  BY DEF OneEach
<1> HIDE DEF s, c
<1>5. ASSUME NEW y \in Places, NEW z \in Places, NEW i \in 1 .. Len(M[y]),
             NEW j \in 1 .. Len(M[z]), M[y][i] = M[z][j]
      PROVE  y = z /\ i = j
  <2>1. CASE y # x /\ z # x
    BY <2>1, <1>4, <1>5
  <2>2. CASE y = x /\ z # x
    <3>1. M[z] = L[z] /\ M[z][j] # b /\ L[y] = s /\ i \in 1 .. Len(c) /\ M[y] = c
      BY <2>2, <1>3 DEF s, c
    <3>2. i # at
      BY <3>1, <1>2, <1>5
    <3> DEFINE k == i - e
    <3>3. k \in 1 .. Len(s) /\ c[i] = s[k]
      BY <3>1, <3>2, <1>2
    <3> HIDE DEF k
    <3> QED BY <3>1, <3>3, <1>4, <1>5, <2>2
  <2>3. CASE y # x /\ z = x
    <3>1. M[y] = L[y] /\ M[y][i] # b /\ L[z] = s /\ j \in 1 .. Len(c) /\ M[z] = c
      BY <2>3, <1>3 DEF s, c
    <3>2. j # at
      BY <3>1, <1>2, <1>5
    <3> DEFINE k == j - e
    <3>3. k \in 1 .. Len(s) /\ c[j] = s[k]
      BY <3>1, <3>2, <1>2
    <3> HIDE DEF k
    <3> QED BY <3>1, <3>3, <1>4, <1>5, <2>3
  <2>4. CASE y = x /\ z = x
    <3>1. i \in 1 .. Len(c) /\ j \in 1 .. Len(c) /\ c[i] = c[j]
      BY <2>4, <1>5 DEF c
    <3>2. \A k \in 1 .. Len(s) : s[k] # b
      BY <1>3 DEF s
    <3>3. \A k, l \in 1 .. Len(s) : s[k] = s[l] => k = l
      BY <1>4 DEF s
    <3>4. CASE i = at \/ j = at
      BY <3>1, <3>2, <3>4, <1>2, <2>4
    <3>5. CASE i # at /\ j # at
      <4> DEFINE k == i - e
                 l == j - e
      <4>1. k \in 1 .. Len(s) /\ l \in 1 .. Len(s) /\ c[i] = s[k] /\ c[j] = s[l]
        BY <3>1, <3>5, <1>2
      <4>2. k = l => i = j
        OBVIOUS
      <4> HIDE DEF k, l
      <4> QED BY <4>1, <4>2, <3>1, <3>3, <2>4
    <3> QED BY <3>4, <3>5
  <2> QED BY <2>1, <2>2, <2>3, <2>4
<1>6. ASSUME NEW y \in Places, NEW i \in 1 .. Len(M[y]) PROVE M[y][i] \notin U \ {b}
  <2>1. \A z \in Places : \A k \in 1 .. Len(L[z]) : L[z][k] \notin U
    BY DEF OneEach
  <2>2. CASE y # x
    BY <2>1, <2>2
  <2>3. CASE y = x
    <3>1. i \in 1 .. Len(c) /\ M[y] = c
      BY <2>3 DEF c
    <3>2. \A k \in 1 .. Len(s) : s[k] \notin U
      BY <2>1 DEF s
    <3>3. CASE i = at
      BY <3>1, <3>3, <1>2
    <3>4. CASE i # at
      <4> DEFINE k == i - e
      <4>1. k \in 1 .. Len(s) /\ c[i] = s[k]
        BY <3>1, <3>4, <1>2
      <4> HIDE DEF k
      <4> QED BY <4>1, <3>1, <3>2
    <3> QED BY <3>3, <3>4
  <2> QED BY <2>2, <2>3
<1>7. ASSUME NEW d \in Bufs, d \notin U \ {b}
      PROVE  \E y \in Places : \E i \in 1 .. Len(M[y]) : M[y][i] = d
  <2>1. CASE d = b
    <3>1. at \in 1 .. Len(M[x]) /\ M[x][at] = d
      BY <2>1, <1>2 DEF c
    <3> QED BY <3>1
  <2>2. CASE d # b
    <3>1. PICK y \in Places : \E i \in 1 .. Len(L[y]) : L[y][i] = d
      BY <2>2, <1>7 DEF OneEach
    <3>2. PICK i \in 1 .. Len(L[y]) : L[y][i] = d
      BY <3>1
    <3>3. CASE y # x
      BY <3>2, <3>3
    <3>4. CASE y = x
      <4>1. i \in 1 .. Len(s) /\ s[i] = d
        BY <3>2, <3>4 DEF s
      <4> DEFINE k == i + e
      <4>2. k \in 1 .. Len(c) /\ c[k] = d
        BY <4>1, <1>2
      <4> HIDE DEF k
      <4>3. M[x][k] = d /\ k \in 1 .. Len(M[x])
        BY <4>2 DEF c
      <4> QED BY <4>3
    <3> QED BY <3>3, <3>4
  <2> QED BY <2>1, <2>2
<1> QED BY <1>5, <1>6, <1>7 DEF OneEach

\* A loose buffer goes to the end of a list.
LEMMA BehindChains ==
  ASSUME NEW N, NEW P, NEW L, NEW U, Chains(N, P, L, U),
         NEW x \in Places, NEW b \in U
  PROVE  Chains(SetLink(SetLink(N, b, None), LastOf(L[x]), b),
                [P EXCEPT ![b] = LastOf(L[x])],
                [L EXCEPT ![x] = Behind(L[x], b)], U \ {b})
<1> DEFINE s == L[x]
           c == Behind(s, b)
           M == [L EXCEPT ![x] = c]
           last == LastOf(s)
           N1 == SetLink(N, b, None)
           N2 == SetLink(N1, last, b)
           P2 == [P EXCEPT ![b] = last]
<1>1. s \in Seq(Bufs) /\ b \in Bufs /\ Len(s) \in Nat
  BY DEF Chains
<1>2. /\ c \in Seq(Bufs) /\ Len(c) = Len(s) + 1
      /\ \A i \in 1 .. (Len(s) + 1) : c[i] = IF i <= Len(s) THEN s[i] ELSE b
  BY <1>1, BehindLemma
<1>3. /\ M \in [Places -> Seq(Bufs)]
      /\ M[x] = c /\ \A y \in Places : y # x => M[y] = L[y]
  BY <1>2 DEF Chains
<1>4. last \in Bufs \cup {None} /\ (Len(s) # 0 => last = s[Len(s)]) /\ (Len(s) = 0 => last = None)
  BY <1>1 DEF LastOf
<1>5. /\ N2 \in [Bufs -> Bufs \cup {None}]
      /\ \A d \in Bufs : N2[d] = IF d = last THEN b ELSE IF d = b THEN None ELSE N[d]
  <2>1. N \in [Bufs -> Bufs \cup {None}] /\ None \in Bufs \cup {None} /\ b \in Bufs \cup {None}
    BY <1>1 DEF Chains
  <2>2. /\ N1 \in [Bufs -> Bufs \cup {None}]
        /\ \A d \in Bufs : N1[d] = IF d = b THEN None ELSE N[d]
    BY <2>1, SetLinkLemma
  <2> HIDE DEF N1, last
  <2> QED BY <2>1, <2>2, SetLinkLemma
<1>6. /\ P2 \in [Bufs -> Bufs \cup {None}]
      /\ \A d \in Bufs : P2[d] = IF d = b THEN last ELSE P[d]
  BY <1>1, <1>4 DEF Chains
<1>7. /\ \A i, j \in 1 .. Len(s) : s[i] = s[j] => i = j
      /\ \A y \in Places : y # x => \A i \in 1 .. Len(s), j \in 1 .. Len(L[y]) : s[i] # L[y][j]
      /\ \A y \in Places : \A i \in 1 .. Len(L[y]) : L[y][i] # b /\ L[y][i] \notin U
  BY DEF Chains, OneEach
<1>8. Linked(N, P, s)
  BY DEF Chains
<1>9. \A i \in 1 .. Len(s) : s[i] # b /\ s[i] \in Bufs
  BY <1>1, <1>7
<1> HIDE DEF s, c, M, last, N1, N2, P2
<1>10. Linked(N2, P2, c)
  <2> SUFFICES ASSUME NEW i \in 1 .. (Len(s) + 1)
               PROVE  /\ N2[c[i]] = IF i = Len(s) + 1 THEN None ELSE c[i + 1]
                      /\ P2[c[i]] = IF i = 1 THEN None ELSE c[i - 1]
    BY <1>2 DEF Linked
  <2>1. CASE i <= Len(s)
    <3>1. c[i] = s[i] /\ i \in 1 .. Len(s) /\ s[i] # b /\ s[i] \in Bufs
      BY <1>1, <1>2, <1>9, <2>1
    <3>2. /\ N[s[i]] = IF i = Len(s) THEN None ELSE s[i + 1]
          /\ P[s[i]] = IF i = 1 THEN None ELSE s[i - 1]
      BY <1>8, <3>1 DEF Linked
    <3>3. N2[c[i]] = IF s[i] = last THEN b ELSE N[s[i]]
      BY <1>5, <3>1
    <3>4. P2[c[i]] = P[s[i]]
      BY <1>6, <3>1
    <3>5. s[i] = last <=> i = Len(s)
      <4>1. Len(s) # 0 /\ Len(s) \in 1 .. Len(s)
        BY <1>1, <3>1
      <4> QED BY <1>4, <1>7, <3>1, <4>1
    <3>6. c[i + 1] = IF i = Len(s) THEN b ELSE s[i + 1]
      <4>1. i + 1 \in 1 .. (Len(s) + 1)
        BY <1>1, <2>1
      <4> QED BY <1>1, <1>2, <2>1, <4>1
    <3>7. i # 1 => c[i - 1] = s[i - 1]
      <4>1. i # 1 => i - 1 \in 1 .. (Len(s) + 1) /\ i - 1 <= Len(s)
        BY <1>1, <2>1
      <4> QED BY <1>2, <4>1
    <3> QED BY <1>1, <2>1, <3>2, <3>3, <3>4, <3>5, <3>6, <3>7
  <2>2. CASE i = Len(s) + 1
    <3>1. c[i] = b
      BY <1>1, <1>2, <2>2
    <3>2. b # last
      BY <1>1, <1>4, <1>9, BufsLemma
    <3>3. i # 1 => c[i - 1] = s[Len(s)]
      <4>1. i # 1 => i - 1 \in 1 .. (Len(s) + 1) /\ i - 1 <= Len(s) /\ i - 1 = Len(s)
        BY <1>1, <2>2
      <4> QED BY <1>2, <4>1
    <3> QED BY <1>1, <1>4, <1>5, <1>6, <2>2, <3>1, <3>2, <3>3
  <2> QED BY <1>1, <2>1, <2>2
<1>11. \A y \in Places : Linked(N2, P2, M[y])
  <2> SUFFICES ASSUME NEW y \in Places, y # x PROVE Linked(N2, P2, L[y])
    BY <1>3, <1>10
  <2>1. Linked(N, P, L[y]) /\ L[y] \in Seq(Bufs)
    BY DEF Chains
  <2>2. \A i \in 1 .. Len(L[y]) : L[y][i] \in Bufs /\ L[y][i] # b /\ L[y][i] # last
    <3> SUFFICES ASSUME NEW i \in 1 .. Len(L[y]) PROVE L[y][i] \in Bufs /\ L[y][i] # b /\ L[y][i] # last
      OBVIOUS
    <3>1. L[y][i] \in Bufs /\ L[y][i] # b
      BY <1>7, <2>1
    <3>2. CASE Len(s) = 0
      BY <3>1, <3>2, <1>4, BufsLemma
    <3>3. CASE Len(s) # 0
      <4>1. Len(s) \in 1 .. Len(s)
        BY <1>1, <3>3
      <4> QED BY <4>1, <3>1, <3>3, <1>4, <1>7
    <3> QED BY <3>2, <3>3
  <2> QED BY <1>5, <1>6, <2>1, <2>2 DEF Linked
<1>12. OneEach(M, U \ {b})
  <2>1. Widened(L[x], M[x], b)
    BY <1>2, <1>3 DEF Widened, s
  <2>2. OneEach(L, U) /\ \A y \in Places : Len(L[y]) \in Nat
    BY DEF Chains
  <2>3. \A y \in Places : y # x => M[y] = L[y]
    BY <1>3
  <2> QED BY ONLY <2>1, <2>2, <2>3, InOnePlace, x \in Places, b \in U
<1>13. U \ {b} \in SUBSET Bufs
  BY DEF Chains
<1>14. Chains(N2, P2, M, U \ {b})
  BY <1>3, <1>5, <1>6, <1>11, <1>12, <1>13 DEF Chains
<1> QED BY <1>14 DEF M, N2, P2, N1, last, c, s

\* A loose buffer goes before the first of a list.
LEMMA BeforeChains ==
  ASSUME NEW N, NEW P, NEW L, NEW U, Chains(N, P, L, U),
         NEW x \in Places, NEW b \in U
  PROVE  Chains([N EXCEPT ![b] = First(L[x])],
                SetLink(SetLink(P, b, None), First(L[x]), b),
                [L EXCEPT ![x] = Before(L[x], b)], U \ {b})
<1> DEFINE s == L[x]
           c == Before(s, b)
           M == [L EXCEPT ![x] = c]
           first == First(s)
           P1 == SetLink(P, b, None)
           P2 == SetLink(P1, first, b)
           N2 == [N EXCEPT ![b] = first]
<1>1. s \in Seq(Bufs) /\ b \in Bufs /\ Len(s) \in Nat
  BY DEF Chains
<1>2. /\ c \in Seq(Bufs) /\ Len(c) = Len(s) + 1
      /\ \A i \in 1 .. (Len(s) + 1) : c[i] = IF i = 1 THEN b ELSE s[i - 1]
  BY <1>1, BeforeLemma
<1>3. /\ M \in [Places -> Seq(Bufs)]
      /\ M[x] = c /\ \A y \in Places : y # x => M[y] = L[y]
  BY <1>2 DEF Chains
<1>4. first \in Bufs \cup {None} /\ (Len(s) # 0 => first = s[1]) /\ (Len(s) = 0 => first = None)
  BY <1>1 DEF First
<1>5. /\ P2 \in [Bufs -> Bufs \cup {None}]
      /\ \A d \in Bufs : P2[d] = IF d = first THEN b ELSE IF d = b THEN None ELSE P[d]
  <2>1. P \in [Bufs -> Bufs \cup {None}] /\ None \in Bufs \cup {None} /\ b \in Bufs \cup {None}
    BY <1>1 DEF Chains
  <2>2. /\ P1 \in [Bufs -> Bufs \cup {None}]
        /\ \A d \in Bufs : P1[d] = IF d = b THEN None ELSE P[d]
    BY <2>1, SetLinkLemma
  <2> HIDE DEF P1, first
  <2> QED BY <2>1, <2>2, SetLinkLemma
<1>6. /\ N2 \in [Bufs -> Bufs \cup {None}]
      /\ \A d \in Bufs : N2[d] = IF d = b THEN first ELSE N[d]
  BY <1>1, <1>4 DEF Chains
<1>7. /\ \A i, j \in 1 .. Len(s) : s[i] = s[j] => i = j
      /\ \A y \in Places : y # x => \A i \in 1 .. Len(s), j \in 1 .. Len(L[y]) : s[i] # L[y][j]
      /\ \A y \in Places : \A i \in 1 .. Len(L[y]) : L[y][i] # b /\ L[y][i] \notin U
  BY DEF Chains, OneEach
<1>8. Linked(N, P, s)
  BY DEF Chains
<1>9. \A i \in 1 .. Len(s) : s[i] # b /\ s[i] \in Bufs
  BY <1>1, <1>7
<1> HIDE DEF s, c, M, first, P1, N2, P2
<1>10. Linked(N2, P2, c)
  <2> SUFFICES ASSUME NEW i \in 1 .. (Len(s) + 1)
               PROVE  /\ N2[c[i]] = IF i = Len(s) + 1 THEN None ELSE c[i + 1]
                      /\ P2[c[i]] = IF i = 1 THEN None ELSE c[i - 1]
    BY <1>2 DEF Linked
  <2>1. CASE i # 1
    <3> DEFINE j == i - 1
    <3>0. j \in 1 .. Len(s) /\ i = j + 1
      BY <1>1, <2>1
    <3> HIDE DEF j
    <3>1. c[i] = s[j] /\ s[j] # b /\ s[j] \in Bufs
      BY <1>1, <1>2, <1>9, <2>1, <3>0
    <3>2. /\ N[s[j]] = IF j = Len(s) THEN None ELSE s[j + 1]
          /\ P[s[j]] = IF j = 1 THEN None ELSE s[j - 1]
      BY <1>8, <3>0 DEF Linked
    <3>3. P2[c[i]] = IF s[j] = first THEN b ELSE P[s[j]]
      BY <1>5, <3>1
    <3>4. N2[c[i]] = N[s[j]]
      BY <1>6, <3>1
    <3>5. s[j] = first <=> j = 1
      <4>1. Len(s) # 0 /\ 1 \in 1 .. Len(s)
        BY <1>1, <3>0
      <4> QED BY <1>4, <1>7, <3>0, <4>1
    <3>6. i # Len(s) + 1 => c[i + 1] = s[j + 1]
      <4>1. i # Len(s) + 1 => i + 1 \in 1 .. (Len(s) + 1) /\ i + 1 # 1 /\ (i + 1) - 1 = j + 1
        BY <1>1, <3>0
      <4> QED BY <1>2, <4>1
    <3>7. c[i - 1] = IF j = 1 THEN b ELSE s[j - 1]
      <4>1. i - 1 = j /\ j \in 1 .. (Len(s) + 1)
        BY <1>1, <3>0
      <4> QED BY <1>2, <4>1
    <3> QED BY <1>1, <2>1, <3>0, <3>2, <3>3, <3>4, <3>5, <3>6, <3>7
  <2>2. CASE i = 1
    <3>1. c[i] = b
      BY <1>1, <1>2, <2>2
    <3>2. b # first
      BY <1>1, <1>4, <1>9, BufsLemma
    <3>3. Len(s) # 0 => c[i + 1] = s[1]
      <4>1. Len(s) # 0 => i + 1 \in 1 .. (Len(s) + 1) /\ i + 1 # 1 /\ (i + 1) - 1 = 1
        BY <1>1, <2>2
      <4> QED BY <1>2, <4>1
    <3> QED BY <1>1, <1>4, <1>5, <1>6, <2>2, <3>1, <3>2, <3>3
  <2> QED BY <1>1, <2>1, <2>2
<1>11. \A y \in Places : Linked(N2, P2, M[y])
  <2> SUFFICES ASSUME NEW y \in Places, y # x PROVE Linked(N2, P2, L[y])
    BY <1>3, <1>10
  <2>1. Linked(N, P, L[y]) /\ L[y] \in Seq(Bufs)
    BY DEF Chains
  <2>2. \A i \in 1 .. Len(L[y]) : L[y][i] \in Bufs /\ L[y][i] # b /\ L[y][i] # first
    <3> SUFFICES ASSUME NEW i \in 1 .. Len(L[y]) PROVE L[y][i] \in Bufs /\ L[y][i] # b /\ L[y][i] # first
      OBVIOUS
    <3>1. L[y][i] \in Bufs /\ L[y][i] # b
      BY <1>7, <2>1
    <3>2. CASE Len(s) = 0
      BY <3>1, <3>2, <1>4, BufsLemma
    <3>3. CASE Len(s) # 0
      <4>1. 1 \in 1 .. Len(s)
        BY <1>1, <3>3
      <4> QED BY <4>1, <3>1, <3>3, <1>4, <1>7
    <3> QED BY <3>2, <3>3
  <2> QED BY <1>5, <1>6, <2>1, <2>2 DEF Linked
<1>12. OneEach(M, U \ {b})
  <2>1. Widened(L[x], M[x], b)
    BY <1>2, <1>3 DEF Widened, s
  <2>2. OneEach(L, U) /\ \A y \in Places : Len(L[y]) \in Nat
    BY DEF Chains
  <2>3. \A y \in Places : y # x => M[y] = L[y]
    BY <1>3
  <2> QED BY ONLY <2>1, <2>2, <2>3, InOnePlace, x \in Places, b \in U
<1>13. U \ {b} \in SUBSET Bufs
  BY DEF Chains
<1>14. Chains(N2, P2, M, U \ {b})
  BY <1>3, <1>5, <1>6, <1>11, <1>12, <1>13 DEF Chains
<1> QED BY <1>14 DEF M, N2, P2, P1, first, c, s

-----------------------------------------------------------------------------
(* The operators on the pool.                                                *)

\* The arrays of the pool.
Shape(B) ==
  /\ DOMAIN B = {"Prev", "Next", "FirstFreeBuf", "FreeBufferCount", "FirstBuf", "LastBuf",
                 "Count", "Data"}
  /\ B.Prev \in [Bufs -> Bufs \cup {None}] /\ B.Next \in [Bufs -> Bufs \cup {None}]
  /\ DOMAIN B.FirstBuf = Filters /\ DOMAIN B.LastBuf = Filters /\ DOMAIN B.Count = Filters
  /\ DOMAIN B.Data = Bufs

\* The pool knows where its lists begin and end, and how long they are.
Ends(B, L) ==
  /\ B.FirstFreeBuf = First(L[None]) /\ B.FreeBufferCount = Len(L[None])
  /\ \A p \in Filters : /\ B.FirstBuf[p] = First(L[p]) /\ B.LastBuf[p] = LastOf(L[p])
                        /\ B.Count[p] = Len(L[p])

\* The lists of B are those of L, and the buffers of U are in none.
Filed(B, L, U) == Shape(B) /\ Chains(B.Next, B.Prev, L, U) /\ Ends(B, L)

LEMMA FiledList ==
  ASSUME NEW B, NEW L, NEW U, Filed(B, L, U), NEW x \in Places
  PROVE  /\ L[x] \in Seq(Bufs) /\ Len(L[x]) \in Nat
         /\ \A i \in 1 .. Len(L[x]) :
              /\ B.Next[L[x][i]] = IF i = Len(L[x]) THEN None ELSE L[x][i + 1]
              /\ B.Prev[L[x][i]] = IF i = 1 THEN None ELSE L[x][i - 1]
BY DEF Filed, Chains, Linked

LEMMA CutEnds ==
  ASSUME NEW s \in Seq(Bufs), NEW k \in 1 .. Len(s)
  PROVE  /\ First(Cut(s, k)) = IF k = 1 THEN (IF Len(s) = 1 THEN None ELSE s[2]) ELSE First(s)
         /\ LastOf(Cut(s, k)) = IF k = Len(s) THEN (IF Len(s) = 1 THEN None ELSE s[k - 1]) ELSE LastOf(s)
<1> DEFINE c == Cut(s, k)
<1>1. /\ Len(c) = Len(s) - 1
      /\ \A i \in 1 .. (Len(s) - 1) : c[i] = IF i < k THEN s[i] ELSE s[i + 1]
  BY CutLemma
<1>2. Len(s) \in Nat /\ k \in Nat /\ 1 <= k /\ k <= Len(s)
  OBVIOUS
<1> HIDE DEF c
<1>3. First(c) = IF k = 1 THEN (IF Len(s) = 1 THEN None ELSE s[2]) ELSE First(s)
  <2>1. CASE Len(s) = 1
    BY <2>1, <1>1, <1>2 DEF First
  <2>2. CASE Len(s) # 1
    <3>1. 1 \in 1 .. (Len(s) - 1) /\ Len(c) # 0 /\ Len(s) # 0
      BY <2>2, <1>1, <1>2
    <3> QED BY <3>1, <2>2, <1>1, <1>2 DEF First
  <2> QED BY <2>1, <2>2
<1>4. LastOf(c) = IF k = Len(s) THEN (IF Len(s) = 1 THEN None ELSE s[k - 1]) ELSE LastOf(s)
  <2>1. CASE Len(s) = 1
    BY <2>1, <1>1, <1>2 DEF LastOf
  <2>2. CASE Len(s) # 1
    <3>1. Len(s) - 1 \in 1 .. (Len(s) - 1) /\ Len(c) # 0 /\ Len(s) # 0 /\ (Len(s) - 1) + 1 = Len(s)
      BY <2>2, <1>1, <1>2
    <3>2. c[Len(s) - 1] = IF k = Len(s) THEN s[k - 1] ELSE s[Len(s)]
      <4> DEFINE m == Len(s) - 1
      <4>1. m \in 1 .. (Len(s) - 1) /\ m + 1 = Len(s) /\ (m < k <=> k = Len(s))
        <5>1. k = Len(s) => m < k
          BY <1>2
        <5>2. k # Len(s) => ~ (m < k)
          BY <1>2
        <5>3. m \in 1 .. (Len(s) - 1) /\ m + 1 = Len(s)
          BY <3>1, <1>2
        <5> HIDE DEF m
        <5> QED BY <5>1, <5>2, <5>3
      <4>2. c[m] = IF m < k THEN s[m] ELSE s[m + 1]
        BY <4>1, <1>1
      <4>3. k = Len(s) => m = k - 1
        OBVIOUS
      <4> HIDE DEF m
      <4>4. c[m] = IF k = Len(s) THEN s[k - 1] ELSE s[Len(s)]
        BY <4>1, <4>2, <4>3
      <4> QED BY <4>4 DEF m
    <3> QED BY <3>1, <3>2, <2>2, <1>1, <1>2 DEF LastOf
  <2> QED BY <2>1, <2>2
<1> QED BY <1>3, <1>4 DEF c

\* Buffer_Allocate takes the first of the free buffers off their list.
LEMMA AllocateLemma ==
  ASSUME NEW B, NEW L, NEW U, Filed(B, L, U), B.FreeBufferCount > 0
  PROVE  /\ B.FirstFreeBuf = L[None][1] /\ Len(L[None]) > 0 /\ B.FirstFreeBuf \in Bufs
         /\ Filed(Buffer_Allocate(B), [L EXCEPT ![None] = Cut(L[None], 1)], U \cup {B.FirstFreeBuf})
         /\ Buffer_Allocate(B).Data = B.Data
<1> DEFINE s == L[None]
           b == B.FirstFreeBuf
           C == Buffer_Allocate(B)
           M == [L EXCEPT ![None] = Cut(s, 1)]
<1>1. None \in Places
  BY DEF Places
<1>2. s \in Seq(Bufs) /\ Len(s) \in Nat /\ Len(s) > 0 /\ 1 \in 1 .. Len(s) /\ b = s[1] /\ b \in Bufs
  <2>1. s \in Seq(Bufs) /\ Len(s) \in Nat
    BY <1>1, FiledList
  <2>2. B.FreeBufferCount = Len(s) /\ b = First(s)
    BY DEF Filed, Ends
  <2> HIDE DEF s, b
  <2>3. Len(s) > 0 /\ 1 \in 1 .. Len(s) /\ Len(s) # 0
    BY <2>1, <2>2
  <2> QED BY <2>1, <2>2, <2>3 DEF First
<1>3. B.Next[b] = (IF Len(s) = 1 THEN None ELSE s[2]) /\ B.Prev[b] = None
  <2>1. \A i \in 1 .. Len(s) : /\ B.Next[s[i]] = IF i = Len(s) THEN None ELSE s[i + 1]
                               /\ B.Prev[s[i]] = IF i = 1 THEN None ELSE s[i - 1]
    BY <1>1, FiledList
  <2> HIDE DEF s, b
  <2>2. /\ B.Next[s[1]] = IF 1 = Len(s) THEN None ELSE s[1 + 1]
        /\ B.Prev[s[1]] = IF 1 = 1 THEN None ELSE s[1 - 1]
    BY <2>1, <1>2
  <2> QED BY <2>2, <1>2
<1> HIDE DEF s, b
<1>4. /\ C.Next = SetLink(SetLink(B.Next, B.Prev[b], B.Next[b]), b, None)
      /\ C.Prev = SetLink(SetLink(B.Prev, B.Next[b], B.Prev[b]), b, None)
      /\ C.FirstFreeBuf = B.Next[b] /\ C.FreeBufferCount = B.FreeBufferCount - 1
      /\ C.FirstBuf = B.FirstBuf /\ C.LastBuf = B.LastBuf /\ C.Count = B.Count /\ C.Data = B.Data
      /\ DOMAIN C = DOMAIN B
  BY <1>3 DEF Buffer_Allocate, Excise, Filed, Shape, b
<1>5. Chains(C.Next, C.Prev, M, U \cup {b})
  <2>1. Chains(B.Next, B.Prev, L, U)
    BY DEF Filed
  <2>2. 1 \in 1 .. Len(L[None]) /\ b = L[None][1]
    BY <1>2 DEF s
  <2>3. M = [L EXCEPT ![None] = Cut(L[None], 1)]
    BY DEF s
  <2> HIDE DEF C, M
  <2>4. Chains(SetLink(SetLink(B.Next, B.Prev[b], B.Next[b]), b, None),
               SetLink(SetLink(B.Prev, B.Next[b], B.Prev[b]), b, None),
               [L EXCEPT ![None] = Cut(L[None], 1)], U \cup {b})
    BY ONLY <1>1, <2>1, <2>2, CutChains
  <2> QED BY ONLY <1>4, <2>3, <2>4
<1>6. Shape(C)
  BY <1>4, <1>5 DEF Filed, Shape, Chains
<1>7. M[None] = Cut(s, 1) /\ \A p \in Filters : M[p] = L[p]
  BY <1>1, BufsLemma DEF Filed, Chains, Places
<1>8. Ends(C, M)
  <2>1. C.FirstFreeBuf = First(M[None]) /\ C.FreeBufferCount = Len(M[None])
    BY <1>2, <1>3, <1>4, <1>7, CutEnds, CutLemma DEF Filed, Ends, s
  <2> QED BY <2>1, <1>4, <1>7 DEF Filed, Ends
<1> HIDE DEF C, M
<1>9. Filed(C, M, U \cup {b})
  BY <1>5, <1>6, <1>8 DEF Filed
<1> QED BY <1>2, <1>4, <1>9 DEF C, M, s, b

\* Partition_UnlinkBuffer takes any buffer of a partition off its list.
LEMMA UnlinkLemma ==
  ASSUME NEW B, NEW L, NEW U, Filed(B, L, U), NEW p \in Filters, NEW k \in 1 .. Len(L[p]),
         NEW b, b = L[p][k]
  PROVE  /\ Filed(Partition_UnlinkBuffer(B, p, b), [L EXCEPT ![p] = Cut(L[p], k)], U \cup {b})
         /\ Partition_UnlinkBuffer(B, p, b).Data = B.Data /\ b \in Bufs
<1> DEFINE s == L[p]
           C == Partition_UnlinkBuffer(B, p, b)
           M == [L EXCEPT ![p] = Cut(s, k)]
<1>1. p \in Places
  BY DEF Places
<1>2. s \in Seq(Bufs) /\ Len(s) \in Nat /\ k \in 1 .. Len(s) /\ b = s[k] /\ b \in Bufs
  BY <1>1, FiledList
<1>3. /\ B.Next[b] = IF k = Len(s) THEN None ELSE s[k + 1]
      /\ B.Prev[b] = IF k = 1 THEN None ELSE s[k - 1]
  BY <1>1, <1>2, FiledList
<1> HIDE DEF s
<1>4. /\ C.Next = SetLink(SetLink(B.Next, B.Prev[b], B.Next[b]), b, None)
      /\ C.Prev = SetLink(SetLink(B.Prev, B.Next[b], B.Prev[b]), b, None)
      /\ C.FirstFreeBuf = B.FirstFreeBuf /\ C.FreeBufferCount = B.FreeBufferCount
      /\ C.FirstBuf = [B.FirstBuf EXCEPT ![p] = IF B.Prev[b] = None THEN B.Next[b] ELSE B.FirstBuf[p]]
      /\ C.LastBuf = [B.LastBuf EXCEPT ![p] = IF B.Next[b] = None THEN B.Prev[b] ELSE B.LastBuf[p]]
      /\ C.Count = [B.Count EXCEPT ![p] = B.Count[p] - 1] /\ C.Data = B.Data
      /\ DOMAIN C = DOMAIN B
  BY DEF Partition_UnlinkBuffer, Excise, Filed, Shape
<1>5. Chains(C.Next, C.Prev, M, U \cup {b})
  <2>1. Chains(B.Next, B.Prev, L, U)
    BY DEF Filed
  <2>2. k \in 1 .. Len(L[p]) /\ b = L[p][k]
    BY <1>2 DEF s
  <2>3. M = [L EXCEPT ![p] = Cut(L[p], k)]
    BY DEF s
  <2> HIDE DEF C, M
  <2>4. Chains(SetLink(SetLink(B.Next, B.Prev[b], B.Next[b]), b, None),
               SetLink(SetLink(B.Prev, B.Next[b], B.Prev[b]), b, None),
               [L EXCEPT ![p] = Cut(L[p], k)], U \cup {b})
    BY ONLY <1>1, <2>1, <2>2, CutChains
  <2> QED BY ONLY <1>4, <2>3, <2>4
<1>6. Shape(C)
  BY <1>4, <1>5 DEF Filed, Shape, Chains
<1>7. M[p] = Cut(s, k) /\ \A x \in Places : x # p => M[x] = L[x]
  BY <1>1 DEF Filed, Chains
<1>8. Ends(C, M)
  <2>1. /\ C.FirstBuf[p] = IF B.Prev[b] = None THEN B.Next[b] ELSE B.FirstBuf[p]
        /\ C.LastBuf[p] = IF B.Next[b] = None THEN B.Prev[b] ELSE B.LastBuf[p]
        /\ C.Count[p] = B.Count[p] - 1
    BY <1>4 DEF Filed, Shape
  <2>2. \A i \in 1 .. Len(s) : s[i] # None
    BY <1>2, BufsLemma
  <2>3. B.Prev[b] = None <=> k = 1
    BY <1>2, <1>3, <2>2
  <2>4. B.Next[b] = None <=> k = Len(s)
    BY <1>2, <1>3, <2>2
  <2>5. B.FirstBuf[p] = First(s) /\ B.LastBuf[p] = LastOf(s) /\ B.Count[p] = Len(s)
    BY DEF Filed, Ends, s
  <2>6a. /\ First(Cut(s, k)) = IF k = 1 THEN (IF Len(s) = 1 THEN None ELSE s[2]) ELSE First(s)
         /\ LastOf(Cut(s, k)) = IF k = Len(s) THEN (IF Len(s) = 1 THEN None ELSE s[k - 1]) ELSE LastOf(s)
    BY <1>2, CutEnds
  <2>6. C.FirstBuf[p] = First(Cut(s, k))
    <3>1. k = 1 => k + 1 = 2
      OBVIOUS
    <3> QED BY <1>2, <1>3, <2>1, <2>3, <2>5, <2>6a, <3>1
  <2>7. C.LastBuf[p] = LastOf(Cut(s, k))
    BY <1>2, <1>3, <2>1, <2>4, <2>5, <2>6a
  <2>8. C.Count[p] = Len(Cut(s, k))
    BY <1>2, <2>1, <2>5, CutLemma
  <2>9. \A q \in Filters : q # p => /\ C.FirstBuf[q] = B.FirstBuf[q] /\ C.LastBuf[q] = B.LastBuf[q]
                                    /\ C.Count[q] = B.Count[q] /\ M[q] = L[q]
    BY <1>4, <1>7 DEF Filed, Shape, Places
  <2>10. M[None] = L[None]
    BY <1>7, BufsLemma DEF Places
  <2> QED BY <1>4, <1>7, <2>6, <2>7, <2>8, <2>9, <2>10 DEF Filed, Ends
<1> HIDE DEF C, M
<1>9. Filed(C, M, U \cup {b})
  BY <1>5, <1>6, <1>8 DEF Filed
<1> QED BY <1>2, <1>4, <1>9 DEF C, M, s

\* Partition_LinkBuffer adds a loose buffer behind the others.
LEMMA LinkLemma ==
  ASSUME NEW B, NEW L, NEW U, Filed(B, L, U), NEW p \in Filters, NEW b \in U
  PROVE  /\ Filed(Partition_LinkBuffer(B, p, b), [L EXCEPT ![p] = Behind(L[p], b)], U \ {b})
         /\ Partition_LinkBuffer(B, p, b).Data = B.Data
<1> DEFINE s == L[p]
           C == Partition_LinkBuffer(B, p, b)
           M == [L EXCEPT ![p] = Behind(s, b)]
<1>1. p \in Places
  BY DEF Places
<1>2. s \in Seq(Bufs) /\ Len(s) \in Nat /\ b \in Bufs
  BY <1>1, FiledList DEF Filed, Chains
<1>3. B.FirstBuf[p] = First(s) /\ B.LastBuf[p] = LastOf(s) /\ B.Count[p] = Len(s)
  BY DEF Filed, Ends
<1> HIDE DEF s
<1>4. /\ C.Next = SetLink(SetLink(B.Next, b, None), LastOf(s), b)
      /\ C.Prev = [B.Prev EXCEPT ![b] = LastOf(s)]
      /\ C.FirstFreeBuf = B.FirstFreeBuf /\ C.FreeBufferCount = B.FreeBufferCount
      /\ C.FirstBuf = [B.FirstBuf EXCEPT ![p] = IF B.FirstBuf[p] = None THEN b ELSE B.FirstBuf[p]]
      /\ C.LastBuf = [B.LastBuf EXCEPT ![p] = b]
      /\ C.Count = [B.Count EXCEPT ![p] = B.Count[p] + 1] /\ C.Data = B.Data
      /\ DOMAIN C = DOMAIN B
  BY <1>3 DEF Partition_LinkBuffer, Filed, Shape
<1>5. Chains(C.Next, C.Prev, M, U \ {b})
  <2>1. Chains(B.Next, B.Prev, L, U) /\ b \in U
    BY DEF Filed
  <2>2. M = [L EXCEPT ![p] = Behind(L[p], b)] /\ s = L[p]
    BY DEF s
  <2> HIDE DEF C, M
  <2>3. Chains(SetLink(SetLink(B.Next, b, None), LastOf(L[p]), b),
               [B.Prev EXCEPT ![b] = LastOf(L[p])],
               [L EXCEPT ![p] = Behind(L[p], b)], U \ {b})
    BY ONLY <1>1, <2>1, BehindChains
  <2> QED BY ONLY <1>4, <2>2, <2>3
<1>6. Shape(C)
  BY <1>4, <1>5 DEF Filed, Shape, Chains
<1>7. M[p] = Behind(s, b) /\ \A x \in Places : x # p => M[x] = L[x]
  BY <1>1 DEF Filed, Chains
<1>8. Ends(C, M)
  <2>1. /\ C.FirstBuf[p] = IF First(s) = None THEN b ELSE First(s)
        /\ C.LastBuf[p] = b
        /\ C.Count[p] = Len(s) + 1
    BY <1>3, <1>4 DEF Filed, Shape
  <2>2. /\ Len(Behind(s, b)) = Len(s) + 1
        /\ \A i \in 1 .. (Len(s) + 1) : Behind(s, b)[i] = IF i <= Len(s) THEN s[i] ELSE b
    BY <1>2, BehindLemma
  <2>3. First(s) = None <=> Len(s) = 0
    BY <1>2, BufsLemma DEF First
  <2>4. C.FirstBuf[p] = First(Behind(s, b))
    <3>1. 1 \in 1 .. (Len(s) + 1) /\ Len(s) + 1 # 0
      BY <1>2
    <3> QED BY <3>1, <1>2, <2>1, <2>2, <2>3 DEF First
  <2>5. C.LastBuf[p] = LastOf(Behind(s, b))
    <3>1. Len(s) + 1 \in 1 .. (Len(s) + 1) /\ Len(s) + 1 # 0 /\ ~ (Len(s) + 1 <= Len(s))
      BY <1>2
    <3> QED BY <3>1, <2>1, <2>2 DEF LastOf
  <2>6. \A q \in Filters : q # p => /\ C.FirstBuf[q] = B.FirstBuf[q] /\ C.LastBuf[q] = B.LastBuf[q]
                                    /\ C.Count[q] = B.Count[q] /\ M[q] = L[q]
    BY <1>4, <1>7 DEF Filed, Shape, Places
  <2>7. M[None] = L[None]
    BY <1>7, BufsLemma DEF Places
  <2> QED BY <1>4, <1>7, <2>1, <2>2, <2>4, <2>5, <2>6, <2>7 DEF Filed, Ends
<1> HIDE DEF C, M
<1>9. Filed(C, M, U \ {b})
  BY <1>5, <1>6, <1>8 DEF Filed
<1> QED BY <1>4, <1>9 DEF C, M, s

\* Buffer_Free adds a loose buffer before the other free ones.
LEMMA FreeLemma ==
  ASSUME NEW B, NEW L, NEW U, Filed(B, L, U), NEW b \in U
  PROVE  /\ Filed(Buffer_Free(B, b), [L EXCEPT ![None] = Before(L[None], b)], U \ {b})
         /\ Buffer_Free(B, b).Data = B.Data
<1> DEFINE s == L[None]
           C == Buffer_Free(B, b)
           M == [L EXCEPT ![None] = Before(s, b)]
<1>1. None \in Places
  BY DEF Places
<1>2. s \in Seq(Bufs) /\ Len(s) \in Nat /\ b \in Bufs
  BY <1>1, FiledList DEF Filed, Chains
<1>3. B.FirstFreeBuf = First(s) /\ B.FreeBufferCount = Len(s)
  BY DEF Filed, Ends
<1> HIDE DEF s
<1>4. /\ C.Next = [B.Next EXCEPT ![b] = First(s)]
      /\ C.Prev = SetLink(SetLink(B.Prev, b, None), First(s), b)
      /\ C.FirstFreeBuf = b /\ C.FreeBufferCount = B.FreeBufferCount + 1
      /\ C.FirstBuf = B.FirstBuf /\ C.LastBuf = B.LastBuf /\ C.Count = B.Count /\ C.Data = B.Data
      /\ DOMAIN C = DOMAIN B
  BY <1>3 DEF Buffer_Free, Filed, Shape
<1>5. Chains(C.Next, C.Prev, M, U \ {b})
  <2>1. Chains(B.Next, B.Prev, L, U) /\ b \in U
    BY DEF Filed
  <2>2. M = [L EXCEPT ![None] = Before(L[None], b)] /\ s = L[None]
    BY DEF s
  <2> HIDE DEF C, M
  <2>3. Chains([B.Next EXCEPT ![b] = First(L[None])],
               SetLink(SetLink(B.Prev, b, None), First(L[None]), b),
               [L EXCEPT ![None] = Before(L[None], b)], U \ {b})
    BY ONLY <1>1, <2>1, BeforeChains
  <2> QED BY ONLY <1>4, <2>2, <2>3
<1>6. Shape(C)
  BY <1>4, <1>5 DEF Filed, Shape, Chains
<1>7. M[None] = Before(s, b) /\ \A p \in Filters : M[p] = L[p]
  BY <1>1, BufsLemma DEF Filed, Chains, Places
<1>8. Ends(C, M)
  <2>1. /\ Len(Before(s, b)) = Len(s) + 1
        /\ \A i \in 1 .. (Len(s) + 1) : Before(s, b)[i] = IF i = 1 THEN b ELSE s[i - 1]
    BY <1>2, BeforeLemma
  <2>2. 1 \in 1 .. (Len(s) + 1) /\ Len(s) + 1 # 0
    BY <1>2
  <2> QED BY <1>3, <1>4, <1>7, <2>1, <2>2 DEF Filed, Ends, First
<1> HIDE DEF C, M
<1>9. Filed(C, M, U \ {b})
  BY <1>5, <1>6, <1>8 DEF Filed
<1> QED BY <1>4, <1>9 DEF C, M, s

\* What is in a buffer is of no matter.
LEMMA DataLemma ==
  ASSUME NEW B, NEW L, NEW U, Filed(B, L, U), NEW b, NEW v
  PROVE  Filed([B EXCEPT !.Data[b] = v], L, U)
<1> DEFINE C == [B EXCEPT !.Data[b] = v]
<1>1. /\ C.Next = B.Next /\ C.Prev = B.Prev /\ C.FirstFreeBuf = B.FirstFreeBuf
      /\ C.FreeBufferCount = B.FreeBufferCount
      /\ C.FirstBuf = B.FirstBuf /\ C.LastBuf = B.LastBuf /\ C.Count = B.Count
      /\ DOMAIN C.Data = DOMAIN B.Data /\ DOMAIN C = DOMAIN B
  BY DEF Filed, Shape
<1> HIDE DEF C
<1>2. Filed(C, L, U)
  BY <1>1 DEF Filed, Shape, Ends
<1> QED BY <1>2 DEF C

-----------------------------------------------------------------------------
(* The lists, as the code walks along them.                                  *)

\* Induction up to n.
LEMMA UpTo ==
  ASSUME NEW n \in Nat, NEW T, 0 \in T, \A k \in 1 .. n : k - 1 \in T => k \in T
  PROVE  \A k \in 0 .. n : k \in T
<1> DEFINE S == {k \in Nat : k <= n => k \in T}
<1>1. S \subseteq Nat /\ 0 \in S
  OBVIOUS
<1>2. ASSUME NEW k \in S PROVE k + 1 \in S
  <2>1. CASE k + 1 <= n
    <3>1. k \in T /\ k + 1 \in 1 .. n /\ (k + 1) - 1 = k
      BY <2>1
    <3>2. k + 1 \in T
      BY <3>1
    <3> QED BY <3>2
  <2>2. CASE ~ (k + 1 <= n)
    BY <2>2
  <2> QED BY <2>1, <2>2
<1> HIDE DEF S
<1>3. S = Nat
  BY <1>1, <1>2, NatAll
<1> QED BY <1>3 DEF S

\* n buffers from the i-th of a list on.
Stretch(s, i, n) == [j \in 1 .. n |-> s[i + j - 1]]

\* From walks along the list.
LEMMA FromLemma ==
  ASSUME NEW B, NEW L, NEW U, Filed(B, L, U), NEW x \in Places, NEW i \in 1 .. Len(L[x]),
         NEW n \in Nat, i + n - 1 <= Len(L[x])
  PROVE  From(B, L[x][i], n) = Stretch(L[x], i, n)
<1> DEFINE s == L[x]
           b == s[i]
           Is(f) == f = [j \in 1 .. n |-> IF j = 1 THEN b ELSE B.Next[f[j - 1]]]
           g == Stretch(s, i, n)
<1>1. /\ s \in Seq(Bufs) /\ Len(s) \in Nat
      /\ \A j \in 1 .. Len(s) : B.Next[s[j]] = IF j = Len(s) THEN None ELSE s[j + 1]
  BY FiledList
<1>2. \A j \in 1 .. n : g[j] = IF j = 1 THEN b ELSE B.Next[g[j - 1]]
  <2> SUFFICES ASSUME NEW j \in 1 .. n PROVE g[j] = IF j = 1 THEN b ELSE B.Next[g[j - 1]]
    OBVIOUS
  <2>1. CASE j = 1
    BY <2>1 DEF Stretch
  <2>2. CASE j # 1
    <3> DEFINE k == i + j - 2
    <3>0. n \in Nat /\ i + n - 1 <= Len(s) /\ Len(s) \in Nat /\ i \in 1 .. Len(s)
      BY <1>1
    <3> HIDE DEF s, b
    <3>1. k \in 1 .. Len(s) /\ k # Len(s) /\ i + j - 1 = k + 1 /\ i + (j - 1) - 1 = k
      BY <3>0, <2>2
    <3>2. g[j] = s[i + j - 1] /\ g[j - 1] = s[i + (j - 1) - 1]
      <4>1. j - 1 \in 1 .. n
        BY <3>0, <2>2
      <4> QED BY <4>1 DEF Stretch
    <3>3. g[j] = s[k + 1] /\ g[j - 1] = s[k]
      BY <3>1, <3>2
    <3> HIDE DEF k, g
    <3>4. B.Next[s[k]] = s[k + 1]
      BY <1>1, <3>1
    <3> QED BY <2>2, <3>3, <3>4
  <2> QED BY <2>1, <2>2
<1>3. g = [j \in 1 .. n |-> g[j]]
  BY DEF Stretch
<1>4. Is(g)
  <2> HIDE DEF g, b
  <2>1. g = [j \in 1 .. n |-> IF j = 1 THEN b ELSE B.Next[g[j - 1]]]
    BY <1>2, <1>3
  <2> QED BY <2>1
<1>5. ASSUME NEW f, Is(f) PROVE f = g
  <2> DEFINE T == {j \in 0 .. n : j # 0 => f[j] = g[j]}
  <2>1. ASSUME NEW j \in 1 .. n, j - 1 \in T PROVE j \in T
    <3>0. f[j] = IF j = 1 THEN b ELSE B.Next[f[j - 1]]
      BY <1>5
    <3> HIDE DEF g, b, Is
    <3>1. f[j] = g[j]
      BY <3>0, <1>2, <2>1
    <3> QED BY <3>1
  <2>2. 0 \in T
    OBVIOUS
  <2> HIDE DEF T
  <2>3. \A j \in 0 .. n : j \in T
    BY <2>1, <2>2, UpTo
  <2>4. \A j \in 1 .. n : f[j] = g[j]
    BY <2>3 DEF T
  <2>5. f = [j \in 1 .. n |-> f[j]]
    BY <1>5
  <2> HIDE DEF g, b, Is
  <2> QED BY <1>3, <2>4, <2>5
<1>6. From(B, b, n) = CHOOSE f : Is(f)
  BY DEF From
<1> HIDE DEF Is, g, b
<1>7. From(B, b, n) = g
  BY <1>4, <1>5, <1>6
<1> QED BY <1>7 DEF g, b, s

\* So the buffers of a partition are its list.
LEMMA InPartitionLemma ==
  ASSUME NEW B, NEW L, NEW U, Filed(B, L, U), NEW p \in Filters
  PROVE  InPartition(B, p) = L[p]
<1>1. p \in Places /\ B.FirstBuf[p] = First(L[p]) /\ B.Count[p] = Len(L[p])
  BY DEF Filed, Ends, Places
<1>2. L[p] \in Seq(Bufs) /\ Len(L[p]) \in Nat
  BY <1>1, FiledList
<1>3. CASE Len(L[p]) > 0
  <2>1. 1 \in 1 .. Len(L[p]) /\ 1 + Len(L[p]) - 1 <= Len(L[p]) /\ First(L[p]) = L[p][1]
    BY <1>2, <1>3 DEF First
  <2>2. From(B, L[p][1], Len(L[p])) = Stretch(L[p], 1, Len(L[p]))
    BY <1>1, <1>2, <2>1, FromLemma
  <2>3. Stretch(L[p], 1, Len(L[p])) = L[p]
    <3>1. \A j \in 1 .. Len(L[p]) : 1 + j - 1 = j
      OBVIOUS
    <3> QED BY <1>2, <3>1 DEF Stretch
  <2> QED BY <1>1, <2>1, <2>2, <2>3 DEF InPartition
<1>4. CASE Len(L[p]) = 0
  <2>1. L[p] = <<>>
    BY <1>2, <1>4
  <2> DEFINE Is(f) == f = [i \in 1 .. 0 |-> IF i = 1 THEN B.FirstBuf[p] ELSE B.Next[f[i - 1]]]
  <2>2. \A f : Is(f) <=> f = <<>>
    OBVIOUS
  <2>3. From(B, B.FirstBuf[p], 0) = CHOOSE f : Is(f)
    BY DEF From
  <2> HIDE DEF Is
  <2>4. From(B, B.FirstBuf[p], 0) = <<>>
    BY <2>2, <2>3
  <2> QED BY <1>1, <1>4, <2>1, <2>4 DEF InPartition
<1> QED BY <1>2, <1>3, <1>4

\* No list is longer than there are buffers.
LEMMA ShortLemma ==
  ASSUME NEW s \in Seq(Bufs), \A i, j \in 1 .. Len(s) : s[i] = s[j] => i = j
  PROVE  Len(s) <= NumBuffers
<1>1. NumBuffers \in Nat /\ Len(s) \in Nat
  BY SelectorAssumption
<1>2. IsFiniteSet(Bufs) /\ Cardinality(Bufs) = NumBuffers
  <2>1. 0 \in Int /\ NumBuffers - 1 \in Int
    BY <1>1
  <2>2. /\ IsFiniteSet(0 .. (NumBuffers - 1))
        /\ Cardinality(0 .. (NumBuffers - 1)) = IF 0 > NumBuffers - 1 THEN 0 ELSE NumBuffers - 1 - 0 + 1
    BY <2>1, FS_Interval
  <2>3. (IF 0 > NumBuffers - 1 THEN 0 ELSE NumBuffers - 1 - 0 + 1) = NumBuffers
    BY <1>1
  <2> QED BY <2>2, <2>3 DEF Bufs
<1>3. IsFiniteSet(1 .. Len(s)) /\ Cardinality(1 .. Len(s)) = Len(s)
  <2>1. 1 \in Int /\ Len(s) \in Int
    BY <1>1
  <2>2. /\ IsFiniteSet(1 .. Len(s))
        /\ Cardinality(1 .. Len(s)) = IF 1 > Len(s) THEN 0 ELSE Len(s) - 1 + 1
    BY <2>1, FS_Interval
  <2>3. (IF 1 > Len(s) THEN 0 ELSE Len(s) - 1 + 1) = Len(s)
    BY <1>1
  <2> QED BY <2>2, <2>3
<1>4. s \in [1 .. Len(s) -> Bufs]
  OBVIOUS
<1>5. CASE Len(s) > NumBuffers
  <2>1. \E i, j \in 1 .. Len(s) : i # j /\ s[i] = s[j]
    BY <1>2, <1>3, <1>4, <1>5, FS_PigeonHole
  <2> QED BY <2>1
<1> QED BY <1>1, <1>5

LEMMA FiledShort ==
  ASSUME NEW B, NEW L, NEW U, Filed(B, L, U), NEW x \in Places
  PROVE  Len(L[x]) <= NumBuffers
BY FiledList, ShortLemma DEF Filed, Chains, OneEach

\* Followed to its end, a list is all there.
LEMMA ListFromLemma ==
  ASSUME NEW B, NEW L, NEW U, Filed(B, L, U), NEW x \in Places
  PROVE  ListFrom(B, First(L[x])) = L[x]
<1> DEFINE s == L[x]
           b == First(s)
           Is(f) == f = [i \in 0 .. NumBuffers |-> IF i = 0 THEN b
                                   ELSE IF f[i - 1] = None THEN None ELSE B.Next[f[i - 1]]]
           g == [i \in 0 .. NumBuffers |-> IF i < Len(s) THEN s[i + 1] ELSE None]
<1>0. NumBuffers \in Nat
  BY SelectorAssumption
<1>1. /\ s \in Seq(Bufs) /\ Len(s) \in Nat /\ Len(s) <= NumBuffers
      /\ \A j \in 1 .. Len(s) : s[j] # None /\ B.Next[s[j]] = IF j = Len(s) THEN None ELSE s[j + 1]
  BY FiledList, FiledShort, BufsLemma
<1>2. b = IF Len(s) = 0 THEN None ELSE s[1]
  BY DEF First
<1> HIDE DEF s, b
<1>3. \A i \in 0 .. NumBuffers : g[i] = IF i = 0 THEN b
                                   ELSE IF g[i - 1] = None THEN None ELSE B.Next[g[i - 1]]
  <2> SUFFICES ASSUME NEW i \in 0 .. NumBuffers
               PROVE  g[i] = IF i = 0 THEN b ELSE IF g[i - 1] = None THEN None ELSE B.Next[g[i - 1]]
    OBVIOUS
  <2>1. CASE i = 0
    BY <1>0, <1>1, <1>2, <2>1
  <2>2. CASE i # 0 /\ i - 1 < Len(s)
    <3>1. i - 1 \in 0 .. NumBuffers /\ (i - 1) + 1 = i /\ i \in 1 .. Len(s)
      BY <1>0, <1>1, <2>2
    <3>2. g[i - 1] = s[i]
      BY <3>1, <2>2
    <3>3. g[i] = IF i = Len(s) THEN None ELSE s[i + 1]
      <4>1. i < Len(s) <=> i # Len(s)
        BY <3>1, <1>1
      <4> QED BY <4>1
    <3> HIDE DEF g
    <3> QED BY <1>1, <2>2, <3>1, <3>2, <3>3
  <2>3. CASE i # 0 /\ ~ (i - 1 < Len(s))
    <3>1. i - 1 \in 0 .. NumBuffers /\ ~ (i < Len(s))
      BY <1>0, <1>1, <2>3
    <3> QED BY <3>1, <2>3
  <2> QED BY <2>1, <2>2, <2>3
<1>4. g = [i \in 0 .. NumBuffers |-> g[i]]
  OBVIOUS
<1>4a. \A i \in 0 .. NumBuffers : g[i] = IF i < Len(s) THEN s[i + 1] ELSE None
  OBVIOUS
<1> HIDE DEF g
<1>5. Is(g)
  <2>1. g = [i \in 0 .. NumBuffers |-> IF i = 0 THEN b
                                   ELSE IF g[i - 1] = None THEN None ELSE B.Next[g[i - 1]]]
    BY <1>3, <1>4
  <2> QED BY <2>1
<1>6. ASSUME NEW f, Is(f) PROVE f = g
  <2> DEFINE T == {j \in 0 .. NumBuffers : f[j] = g[j]}
  <2>0. \A i \in 0 .. NumBuffers : f[i] = IF i = 0 THEN b
                                   ELSE IF f[i - 1] = None THEN None ELSE B.Next[f[i - 1]]
    BY <1>6
  <2>1. ASSUME NEW j \in 1 .. NumBuffers, j - 1 \in T PROVE j \in T
    <3>0. j \in 0 .. NumBuffers /\ f[j - 1] = g[j - 1] /\ j # 0
      BY <2>1, <1>0
    <3>1. f[j] = g[j]
      BY <3>0, <1>3, <2>0
    <3> QED BY <3>0, <3>1
  <2>2. 0 \in T
    BY <2>0, <1>3, <1>0
  <2> HIDE DEF T
  <2>3. \A j \in 0 .. NumBuffers : j \in T
    BY <2>1, <2>2, <1>0, UpTo
  <2>4. \A j \in 0 .. NumBuffers : f[j] = g[j]
    BY <2>3 DEF T
  <2>5. f = [j \in 0 .. NumBuffers |-> f[j]]
    BY <1>6
  <2> HIDE DEF Is
  <2> QED BY <1>4, <2>4, <2>5
<1> DEFINE at == CHOOSE f : Is(f)
           n == Cardinality({i \in 0 .. NumBuffers : at[i] # None})
<1>7. at = g
  <2> HIDE DEF Is
  <2> QED BY <1>5, <1>6
<1>8. ListFrom(B, b) = [i \in 1 .. n |-> at[i - 1]]
  BY DEF ListFrom
<1> HIDE DEF Is, at
<1>9. n = Len(s)
  <2>1. {i \in 0 .. NumBuffers : at[i] # None} = 0 .. (Len(s) - 1)
    <3>1. ASSUME NEW i \in 0 .. NumBuffers PROVE at[i] # None <=> i \in 0 .. (Len(s) - 1)
      <4>1. CASE i < Len(s)
        <5>1. i + 1 \in 1 .. Len(s) /\ i \in 0 .. (Len(s) - 1)
          BY <4>1, <1>1
        <5> QED BY <5>1, <4>1, <1>1, <1>4a, <1>7
      <4>2. CASE ~ (i < Len(s))
        <5>1. i \notin 0 .. (Len(s) - 1)
          BY <4>2, <1>1
        <5> QED BY <5>1, <4>2, <1>4a, <1>7
      <4> QED BY <4>1, <4>2
    <3>2. 0 .. (Len(s) - 1) \subseteq 0 .. NumBuffers
      BY <1>0, <1>1
    <3> QED BY <3>1, <3>2
  <2>2. 0 \in Int /\ Len(s) - 1 \in Int
    BY <1>1
  <2>3. Cardinality(0 .. (Len(s) - 1)) = IF 0 > Len(s) - 1 THEN 0 ELSE Len(s) - 1 - 0 + 1
    BY <2>2, FS_Interval
  <2>4. (IF 0 > Len(s) - 1 THEN 0 ELSE Len(s) - 1 - 0 + 1) = Len(s)
    BY <1>1
  <2> QED BY <2>1, <2>3, <2>4
<1> HIDE DEF n
<1>10. \A i \in 1 .. Len(s) : at[i - 1] = s[i]
  <2> SUFFICES ASSUME NEW i \in 1 .. Len(s) PROVE at[i - 1] = s[i]
    OBVIOUS
  <2>1. i - 1 \in 0 .. NumBuffers /\ i - 1 < Len(s) /\ (i - 1) + 1 = i
    BY <1>0, <1>1
  <2> QED BY <2>1, <1>4a, <1>7
<1>11. ListFrom(B, b) = [i \in 1 .. Len(s) |-> s[i]]
  BY <1>8, <1>9, <1>10
<1>12. s = [i \in 1 .. Len(s) |-> s[i]]
  BY <1>1
<1>13. ListFrom(B, b) = s
  BY <1>11, <1>12
<1> QED BY <1>13 DEF b, s

-----------------------------------------------------------------------------
(* Folds over buffers.                                                       *)

\* An output of every filter is connected to one there is, or to none.
Wired(g) == g \in [Filters -> Filters \cup {None}]

\* A sector gets into a partition or nowhere, after however many filters.
LEMMA DestinationLemma ==
  ASSUME Wired(TrueConn), NEW false, Wired(false), NEW f \in Filters \cup {None}, NEW s
  PROVE  Destination(false, f, s) \in Filters \cup {None}
<1> DEFINE n == NumFilters - 1
           l == [i \in 1 .. (NumFilters - 1) |-> i]
<1>1. n \in Nat
  BY SelectorAssumption
<1>2. Settles(false, f, s) = Fold("settle", s, false, f, l)
  BY SettleFold DEF Settles
<1>3. DOMAIN l = 1 .. n
  OBVIOUS
<1> HIDE DEF l, n
<1>4t. Traced("settle", s, false, f, l, n)
  BY <1>1, <1>3, FoldTrace
<1>4. PICK r : /\ r[0] = f
               /\ \A k \in 1 .. n : r[k] = Does("settle", s, false, r[k - 1], l[k])
               /\ Fold("settle", s, false, f, l) = r[n]
  BY ONLY <1>4t DEF Traced
<1> DEFINE T == {k \in 0 .. n : r[k] \in Filters \cup {None}}
<1>5. ASSUME NEW k \in 1 .. n, k - 1 \in T PROVE k \in T
  <2>1. r[k] = IF r[k - 1] = None \/ TestFilterCond(r[k - 1], s) THEN r[k - 1] ELSE false[r[k - 1]]
    BY <1>4 DEF Does
  <2>2. r[k - 1] \in Filters \cup {None}
    BY <1>5
  <2>3. r[k] \in Filters \cup {None}
    BY <2>1, <2>2 DEF Wired
  <2> QED BY <2>3, <1>1
<1>6. 0 \in T
  BY <1>1, <1>4
<1> HIDE DEF T
<1>7. \A k \in 0 .. n : k \in T
  BY <1>1, <1>5, <1>6, UpTo
<1>8. n \in T
  BY <1>1, <1>7
<1>9. Settles(false, f, s) \in Filters \cup {None}
  BY <1>2, <1>4, <1>8 DEF T
<1> QED BY <1>9 DEF Destination, Wired

\* A loose buffer goes to the end of a partition, or is freed.
Put(L, p, b) == IF p = None THEN [L EXCEPT ![None] = Before(L[None], b)]
                ELSE [L EXCEPT ![p] = Behind(L[p], b)]

\* D is C with the loose buffer b in the place q.
PutAway(C, M, V, b, q, D) ==
  /\ Filed(D, Put(M, q, b), V \ {b})
  /\ D.Data = C.Data
  /\ q \in Filters \cup {None}

\* The filters put a loose buffer into a partition, or free it.
LEMMA FilterBufLemma ==
  ASSUME NEW B, NEW L, NEW U, Filed(B, L, U), NEW b, b \in U,
         Wired(TrueConn), NEW false, Wired(false), NEW f, f \in Filters \cup {None}
  PROVE  PutAway(B, L, U, b, Destination(false, f, B.Data[b]), FilterBuf(B, false, f, b))
<1> DEFINE p == Destination(false, f, B.Data[b])
<1>1. p \in Filters \cup {None}
  BY DestinationLemma
<1> HIDE DEF p
<1>2. FilterBuf(B, false, f, b) = IF p # None THEN Partition_LinkBuffer(B, p, b) ELSE Buffer_Free(B, b)
  BY DEF FilterBuf, p
<1>3. CASE p = None
  BY <1>1, <1>2, <1>3, FreeLemma DEF Put, PutAway, p
<1>4. CASE p # None
  <2>1. p \in Filters
    BY <1>1, <1>4
  <2> QED BY <1>2, <1>4, <2>1, LinkLemma DEF Put, PutAway, p
<1> QED BY <1>3, <1>4

\* b is in the list s.
In(b, s) == \E i \in 1 .. Len(s) : s[i] = b
Once(s) == \A i, j \in 1 .. Len(s) : s[i] = s[j] => i = j
RangeOf(s) == {s[i] : i \in 1 .. Len(s)}

\* What is left after the first k.
Later(s, k) == {s[i] : i \in (k + 1) .. Len(s)}
Earlier(s, k) == {s[i] : i \in 1 .. k}

\* What is left of a list grows smaller by one at each step.
LEMMA LaterLemma ==
  ASSUME NEW s \in Seq(Bufs), Once(s)
  PROVE  /\ Later(s, 0) = RangeOf(s) /\ Later(s, Len(s)) = {}
         /\ \A k \in 1 .. Len(s) : /\ s[k] \in Later(s, k - 1) /\ Later(s, k) = Later(s, k - 1) \ {s[k]}
<1>0. Len(s) \in Nat
  OBVIOUS
<1>1. Later(s, 0) = RangeOf(s)
  <2>1. 0 + 1 = 1
    OBVIOUS
  <2> QED BY <2>1 DEF Later, RangeOf
<1>2. Later(s, Len(s)) = {}
  <2>1. (Len(s) + 1) .. Len(s) = {}
    BY <1>0
  <2> QED BY <2>1 DEF Later
<1>3. ASSUME NEW k \in 1 .. Len(s)
      PROVE  s[k] \in Later(s, k - 1) /\ Later(s, k) = Later(s, k - 1) \ {s[k]}
  <2>1. (k - 1) + 1 = k /\ k \in k .. Len(s)
    BY <1>0
  <2>2. Later(s, k - 1) = {s[i] : i \in k .. Len(s)}
    BY <2>1 DEF Later
  <2>3. \A i \in (k + 1) .. Len(s) : i \in k .. Len(s) /\ i # k /\ i \in 1 .. Len(s)
    BY <1>0
  <2>4. \A i \in k .. Len(s) : i # k => i \in (k + 1) .. Len(s)
    BY <1>0
  <2>5. \A i \in (k + 1) .. Len(s) : s[i] # s[k]
    BY <2>3 DEF Once
  <2> QED BY <2>1, <2>2, <2>3, <2>4, <2>5 DEF Later
<1> QED BY <1>1, <1>2, <1>3

\* Each step finds a place for one loose buffer.
FilesEach(how, p, f) ==
  \A C, M, V : \A b \in V : Filed(C, M, V) =>
    /\ \E K : Filed(Does(how, p, f, C, b), K, V \ {b})
    /\ Does(how, p, f, C, b).Data = C.Data

\* What each step does with one loose buffer, the fold does with them all.
LEMMA FoldLoose ==
  ASSUME NEW how, NEW p, NEW f, FilesEach(how, p, f),
         NEW B, NEW L, NEW s \in Seq(Bufs), Once(s), Filed(B, L, RangeOf(s))
  PROVE  /\ \E K : Filed(Fold(how, p, f, B, s), K, {})
         /\ Fold(how, p, f, B, s).Data = B.Data
<1> DEFINE n == Len(s)
<1>1. n \in Nat /\ DOMAIN s = 1 .. n
  OBVIOUS
<1>2t. Traced(how, p, f, B, s, n)
  BY ONLY <1>1, FoldTrace
<1>2. PICK r : /\ r[0] = B
               /\ \A k \in 1 .. n : r[k] = Does(how, p, f, r[k - 1], s[k])
               /\ Fold(how, p, f, B, s) = r[n]
  BY ONLY <1>2t DEF Traced
<1> DEFINE T == {k \in 0 .. n : (\E K : Filed(r[k], K, Later(s, k))) /\ r[k].Data = B.Data}
<1>3. 0 \in T
  BY <1>1, <1>2, LaterLemma
<1>4. ASSUME NEW k \in 1 .. n, k - 1 \in T PROVE k \in T
  <2>1. s[k] \in Later(s, k - 1) /\ Later(s, k) = Later(s, k - 1) \ {s[k]}
    BY LaterLemma
  <2>2. PICK M : Filed(r[k - 1], M, Later(s, k - 1))
    BY <1>4
  <2>3. /\ \E K : Filed(Does(how, p, f, r[k - 1], s[k]), K, Later(s, k - 1) \ {s[k]})
        /\ Does(how, p, f, r[k - 1], s[k]).Data = r[k - 1].Data
    BY <2>1, <2>2 DEF FilesEach
  <2>4. r[k - 1].Data = B.Data
    BY <1>4
  <2>5. r[k] = Does(how, p, f, r[k - 1], s[k])
    BY <1>2
  <2>6. PICK K : Filed(r[k], K, Later(s, k - 1) \ {s[k]})
    BY <2>3, <2>5
  <2>7. Filed(r[k], K, Later(s, k))
    BY <2>1, <2>6
  <2>8. r[k].Data = B.Data /\ k \in 0 .. n
    BY <1>1, <2>3, <2>4, <2>5
  <2> QED BY <2>7, <2>8
<1> HIDE DEF T
<1>5. \A k \in 0 .. n : k \in T
  BY <1>1, <1>3, <1>4, UpTo
<1>6. n \in T /\ Later(s, n) = {}
  BY <1>1, <1>5, LaterLemma
<1> QED BY <1>2, <1>6 DEF T

\* A step that takes a buffer out of a partition and leaves the others there is
\* repeated for buffers of that partition.
Looser(how, V, S) == IF how = "unlink" THEN V \cup S ELSE V

\* What D is to C, for a buffer b of partition p.
TakesOne(how, p, M, V, b, C, D) ==
  /\ \E K : /\ Filed(D, K, Looser(how, V, {b}))
            /\ \A d \in Bufs : In(d, M[p]) /\ d # b => In(d, K[p])
  /\ D.Data = C.Data

\* A step takes a buffer of p out of it, and leaves the other ones there.
TakesEach(how, p, f) ==
  \A C, M, V : \A b \in Bufs : Filed(C, M, V) /\ In(b, M[p]) =>
    TakesOne(how, p, M, V, b, C, Does(how, p, f, C, b))

\* Then the fold takes out all that it is to.
LEMMA FoldMembers ==
  ASSUME NEW how, NEW p, p \in Filters, NEW f, TakesEach(how, p, f),
         NEW B, NEW L, NEW U, Filed(B, L, U), NEW s \in Seq(Bufs), Once(s),
         \A i \in 1 .. Len(s) : In(s[i], L[p])
  PROVE  /\ \E K : Filed(Fold(how, p, f, B, s), K, Looser(how, U, RangeOf(s)))
         /\ Fold(how, p, f, B, s).Data = B.Data
<1> DEFINE n == Len(s)
<1>1. n \in Nat /\ DOMAIN s = 1 .. n
  OBVIOUS
<1>2t. Traced(how, p, f, B, s, n)
  BY ONLY <1>1, FoldTrace
<1>2. PICK r : /\ r[0] = B
               /\ \A k \in 1 .. n : r[k] = Does(how, p, f, r[k - 1], s[k])
               /\ Fold(how, p, f, B, s) = r[n]
  BY ONLY <1>2t DEF Traced
<1> DEFINE W(k) == Looser(how, U, Earlier(s, k))
           T == {k \in 0 .. n : /\ \E K : /\ Filed(r[k], K, W(k))
                                          /\ \A i \in (k + 1) .. n : In(s[i], K[p])
                                /\ r[k].Data = B.Data}
<1>3. 0 \in T
  <2>1. W(0) = U
    <3>1. 1 .. 0 = {}
      OBVIOUS
    <3>2. Earlier(s, 0) = {}
      BY <3>1 DEF Earlier
    <3> QED BY <3>2 DEF Looser
  <2>2. \A i \in (0 + 1) .. n : i \in 1 .. n
    OBVIOUS
  <2> HIDE DEF W
  <2> QED BY <1>1, <1>2, <2>1, <2>2
<1>4. ASSUME NEW k \in 1 .. n, k - 1 \in T PROVE k \in T
  <2>1. PICK M : Filed(r[k - 1], M, W(k - 1)) /\ \A i \in ((k - 1) + 1) .. n : In(s[i], M[p])
    BY <1>4
  <2>2. (k - 1) + 1 = k /\ k \in k .. n /\ s[k] \in Bufs
    BY <1>1
  <2>3. In(s[k], M[p])
    BY <2>1, <2>2
  <2>4. W(k) = Looser(how, W(k - 1), {s[k]})
    <3>1. 1 .. k = (1 .. (k - 1)) \cup {k}
      BY <1>1
    <3>2. Earlier(s, k) = Earlier(s, k - 1) \cup {s[k]}
      BY <3>1 DEF Earlier
    <3> QED BY <3>2 DEF Looser
  <2> HIDE DEF W
  <2>5. TakesOne(how, p, M, W(k - 1), s[k], r[k - 1], Does(how, p, f, r[k - 1], s[k]))
    BY <2>1, <2>2, <2>3 DEF TakesEach
  <2>5a. TakesOne(how, p, M, W(k - 1), s[k], r[k - 1], r[k])
    BY <1>2, <2>5
  <2>6. PICK K : /\ Filed(r[k], K, W(k))
                 /\ \A d \in Bufs : In(d, M[p]) /\ d # s[k] => In(d, K[p])
    BY <2>4, <2>5a DEF TakesOne
  <2>7. \A i \in (k + 1) .. n : i \in ((k - 1) + 1) .. n /\ i \in 1 .. n /\ i # k
    BY <1>1
  <2>8. \A i \in (k + 1) .. n : s[i] \in Bufs /\ s[i] # s[k] /\ In(s[i], M[p])
    BY <2>1, <2>7 DEF Once
  <2>9. \A i \in (k + 1) .. n : In(s[i], K[p])
    BY <2>6, <2>8
  <2>10. r[k].Data = B.Data
    BY <1>4, <2>5a DEF TakesOne
  <2>11. k \in 0 .. n
    BY <1>1
  <2> QED BY <2>6, <2>9, <2>10, <2>11
<1>5. RangeOf(s) = Earlier(s, n)
  BY DEF RangeOf, Earlier
<1> HIDE DEF T
<1>6. \A k \in 0 .. n : k \in T
  BY <1>1, <1>3, <1>4, UpTo
<1>7. n \in T
  BY <1>1, <1>6
<1> QED BY <1>2, <1>5, <1>7 DEF T

-----------------------------------------------------------------------------
(* What the operations do to the lists                                       *)

\* A list has a buffer once, and none that is loose.
LEMMA OnceLemma ==
  ASSUME NEW B, NEW L, NEW U, Filed(B, L, U), NEW x \in Places
  PROVE  L[x] \in Seq(Bufs) /\ Once(L[x]) /\ RangeOf(L[x]) \cap U = {}
BY DEF Filed, Chains, OneEach, Once, RangeOf

LEMMA PartPlaces == Filters \subseteq Places /\ None \in Places
BY DEF Places

\* What a transfer kept is freed.
LEMMA FreeAllLemma ==
  ASSUME NEW B, NEW L, NEW s \in Seq(Bufs), Once(s), Filed(B, L, RangeOf(s))
  PROVE  /\ \E K : Filed(FoldLeft(Buffer_Free, B, s), K, {})
         /\ FoldLeft(Buffer_Free, B, s).Data = B.Data
<1>0. ASSUME NEW C, NEW M, NEW V, NEW b \in V, Filed(C, M, V)
      PROVE  /\ \E K : Filed(Does("free", 0, 0, C, b), K, V \ {b})
             /\ Does("free", 0, 0, C, b).Data = C.Data
  <2>1. Does("free", 0, 0, C, b) = Buffer_Free(C, b)
    BY DEF Does
  <2>2. /\ Filed(Buffer_Free(C, b), [M EXCEPT ![None] = Before(M[None], b)], V \ {b})
        /\ Buffer_Free(C, b).Data = C.Data
    BY <1>0, FreeLemma
  <2> QED BY <2>1, <2>2
<1>1. FilesEach("free", 0, 0)
  BY <1>0 DEF FilesEach
<1>2. /\ \E K : Filed(Fold("free", 0, 0, B, s), K, {})
      /\ Fold("free", 0, 0, B, s).Data = B.Data
  BY <1>1, FoldLoose
<1>3. FoldLeft(Buffer_Free, B, s) = Fold("free", 0, 0, B, s)
  BY FreeFold
<1> QED BY <1>2, <1>3

\* The steps of the folds do what is asked of a step.
LEMMA FilterEach ==
  ASSUME Wired(TrueConn), NEW g, Wired(g), NEW f, f \in Filters \cup {None}
  PROVE  FilesEach("filter", g, f)
<1>1. SUFFICES ASSUME NEW C, NEW M, NEW V, NEW b \in V, Filed(C, M, V)
               PROVE  /\ \E K : Filed(Does("filter", g, f, C, b), K, V \ {b})
                      /\ Does("filter", g, f, C, b).Data = C.Data
  BY DEF FilesEach
<1> DEFINE D == FilterBuf(C, g, f, b)
           q == Destination(g, f, C.Data[b])
<1>2. Does("filter", g, f, C, b) = D
  BY DEF Does
<1>3. PutAway(C, M, V, b, q, D)
  BY <1>1, FilterBufLemma
<1> HIDE DEF D, q
<1> QED BY <1>2, <1>3 DEF PutAway

\* A buffer that is taken out of a list leaves the others there.
LEMMA CutOthers ==
  ASSUME NEW s \in Seq(Bufs), NEW k \in 1 .. Len(s), NEW d \in Bufs, In(d, s), d # s[k]
  PROVE  In(d, Cut(s, k))
<1>1. PICK i \in 1 .. Len(s) : s[i] = d
  BY DEF In
<1>2. i # k /\ Len(s) \in Nat
  BY <1>1
<1> DEFINE j == IF i < k THEN i ELSE i - 1
<1>3. j \in 1 .. (Len(s) - 1) /\ s[IF j < k THEN j ELSE j + 1] = d
  BY <1>1, <1>2
<1>4. Cut(s, k)[j] = d /\ Len(Cut(s, k)) = Len(s) - 1
  <2> HIDE DEF j
  <2> QED BY <1>3, CutLemma
<1> HIDE DEF j
<1> QED BY <1>3, <1>4 DEF In

LEMMA BehindOthers ==
  ASSUME NEW s \in Seq(Bufs), NEW b \in Bufs, NEW d \in Bufs, In(d, s)
  PROVE  In(d, Behind(s, b))
<1>1. PICK i \in 1 .. Len(s) : s[i] = d
  BY DEF In
<1>2. i \in 1 .. (Len(s) + 1) /\ i <= Len(s)
  BY <1>1
<1>3. Behind(s, b)[i] = d /\ Len(Behind(s, b)) = Len(s) + 1
  BY <1>1, <1>2, BehindLemma
<1> QED BY <1>2, <1>3 DEF In

\* D has b loose, and the other buffers of p where they were.
TakenOut(p, M, V, b, D) ==
  \E K : /\ Filed(D, K, V \cup {b}) /\ b \notin V
         /\ \A d \in Bufs : In(d, M[p]) /\ d # b => In(d, K[p])

LEMMA UnlinkTakes ==
  ASSUME NEW p, p \in Filters, NEW C, NEW M, NEW V, NEW b, b \in Bufs, Filed(C, M, V), In(b, M[p])
  PROVE  /\ TakenOut(p, M, V, b, Partition_UnlinkBuffer(C, p, b))
         /\ Partition_UnlinkBuffer(C, p, b).Data = C.Data
<1>1. PICK k \in 1 .. Len(M[p]) : M[p][k] = b
  BY DEF In
<1> DEFINE K == [M EXCEPT ![p] = Cut(M[p], k)]
           D == Partition_UnlinkBuffer(C, p, b)
<1>2. Filed(D, K, V \cup {b}) /\ D.Data = C.Data
  BY <1>1, UnlinkLemma
<1>3. M[p] \in Seq(Bufs) /\ RangeOf(M[p]) \cap V = {}
  BY OnceLemma, PartPlaces
<1>4. b \notin V
  BY <1>1, <1>3 DEF RangeOf
<1>5. K[p] = Cut(M[p], k)
  BY PartPlaces DEF Filed, Chains
<1>6. \A d \in Bufs : In(d, M[p]) /\ d # b => In(d, K[p])
  <2> HIDE DEF K
  <2> QED BY <1>1, <1>3, <1>5, CutOthers
<1> HIDE DEF K, D
<1>7. TakenOut(p, M, V, b, D)
  BY <1>2, <1>4, <1>6 DEF TakenOut
<1> QED BY <1>7, <1>2 DEF D

LEMMA UnlinkEach ==
  ASSUME NEW p \in Filters
  PROVE  TakesEach("unlink", p, 0)
<1>1. SUFFICES ASSUME NEW C, NEW M, NEW V, NEW b \in Bufs, Filed(C, M, V), In(b, M[p])
               PROVE  TakesOne("unlink", p, M, V, b, C, Does("unlink", p, 0, C, b))
  BY DEF TakesEach
<1>2. Does("unlink", p, 0, C, b) = Partition_UnlinkBuffer(C, p, b)
  BY DEF Does
<1>3. Looser("unlink", V, {b}) = V \cup {b}
  BY DEF Looser
<1> DEFINE D == Partition_UnlinkBuffer(C, p, b)
<1>4. TakenOut(p, M, V, b, D) /\ D.Data = C.Data
  BY <1>1, UnlinkTakes
<1> HIDE DEF D
<1>5. TakesOne("unlink", p, M, V, b, C, D)
  BY <1>3, <1>4 DEF TakesOne, TakenOut
<1> QED BY <1>2, <1>5 DEF D

LEMMA ClearEach ==
  ASSUME NEW p \in Filters
  PROVE  TakesEach("clear", p, 0)
<1>1. SUFFICES ASSUME NEW C, NEW M, NEW V, NEW b \in Bufs, Filed(C, M, V), In(b, M[p])
               PROVE  TakesOne("clear", p, M, V, b, C, Does("clear", p, 0, C, b))
  BY DEF TakesEach
<1> DEFINE D == Partition_UnlinkBuffer(C, p, b)
           E == Buffer_Free(D, b)
<1>2. Does("clear", p, 0, C, b) = E
  BY DEF Does, UnlinkAndFree
<1>3. D.Data = C.Data /\ TakenOut(p, M, V, b, D)
  BY <1>1, UnlinkTakes
<1>4. PICK K : /\ Filed(D, K, V \cup {b}) /\ b \notin V
               /\ \A d \in Bufs : In(d, M[p]) /\ d # b => In(d, K[p])
  BY <1>3 DEF TakenOut
<1> HIDE DEF D
<1> DEFINE J == [K EXCEPT ![None] = Before(K[None], b)]
<1>5. Filed(E, J, (V \cup {b}) \ {b}) /\ E.Data = D.Data
  BY <1>4, FreeLemma
<1>6. (V \cup {b}) \ {b} = V
  BY <1>4
<1>7. J[p] = K[p]
  BY <1>4, PartPlaces, BufsLemma DEF Filed, Chains
<1> HIDE DEF J, E
<1>8. Looser("clear", V, {b}) = V
  BY DEF Looser
<1>9. Filed(E, J, Looser("clear", V, {b})) /\ E.Data = C.Data
  BY <1>3, <1>5, <1>6, <1>8
<1>10. \A d \in Bufs : In(d, M[p]) /\ d # b => In(d, J[p])
  BY <1>4, <1>7
<1>11. TakesOne("clear", p, M, V, b, C, E)
  BY <1>9, <1>10 DEF TakesOne
<1> QED BY <1>2, <1>11

LEMMA MoveEach ==
  ASSUME NEW p \in Filters, NEW f \in Filters, Wired(TrueConn), Wired(FalseConn)
  PROVE  TakesEach("move", p, f)
<1>1. SUFFICES ASSUME NEW C, NEW M, NEW V, NEW b \in Bufs, Filed(C, M, V), In(b, M[p])
               PROVE  TakesOne("move", p, M, V, b, C, Does("move", p, f, C, b))
  BY DEF TakesEach
<1> DEFINE D == Partition_UnlinkBuffer(C, p, b)
           false == InputFreed(f).false
           E == FilterBuf(D, false, f, b)
<1>2. Does("move", p, f, C, b) = E
  BY DEF Does, MoveSector
<1>3. D.Data = C.Data /\ TakenOut(p, M, V, b, D)
  BY <1>1, UnlinkTakes
<1>4. PICK K : /\ Filed(D, K, V \cup {b}) /\ b \notin V
               /\ \A d \in Bufs : In(d, M[p]) /\ d # b => In(d, K[p])
  BY <1>3 DEF TakenOut
<1>5. Wired(false) /\ f \in Filters \cup {None}
  BY DEF Wired, InputFreed
<1> HIDE DEF D, false
<1> DEFINE q == Destination(false, f, D.Data[b])
           J == Put(K, q, b)
<1>5a. PutAway(D, K, V \cup {b}, b, q, E)
  <2>1. b \in V \cup {b}
    OBVIOUS
  <2> QED BY <2>1, <1>4, <1>5, FilterBufLemma
<1>6. Filed(E, J, (V \cup {b}) \ {b}) /\ E.Data = D.Data /\ q \in Filters \cup {None}
  BY <1>5a DEF PutAway
<1>7. (V \cup {b}) \ {b} = V
  BY <1>4
<1> HIDE DEF q
<1>8. K[p] \in Seq(Bufs) /\ (J[p] = K[p] \/ J[p] = Behind(K[p], b))
  BY <1>4, <1>6, PartPlaces, BufsLemma DEF Filed, Chains, Put
<1>9. \A d \in Bufs : In(d, M[p]) /\ d # b => In(d, J[p])
  <2> HIDE DEF J
  <2> QED BY <1>4, <1>8, BehindOthers
<1> HIDE DEF J, E
<1>10. Looser("move", V, {b}) = V
  BY DEF Looser
<1>11. Filed(E, J, Looser("move", V, {b})) /\ E.Data = C.Data
  BY <1>3, <1>6, <1>7, <1>10
<1>12. TakesOne("move", p, M, V, b, C, E)
  BY <1>9, <1>11 DEF TakesOne
<1> QED BY <1>2, <1>12

\* The buffers of s, once each, are in the list l.
Among(s, l) == s \in Seq(Bufs) /\ Once(s) /\ \A i \in 1 .. Len(s) : In(s[i], l)

\* D has its lists in order, the buffers of U are in none, and the data is B's.
Keeps(B, D, U) == (\E K : Filed(D, K, U)) /\ D.Data = B.Data

\* The folds of the commands, by name.
Sifted(B, g, f, s) == FoldLeft(LAMBDA C, b : FilterBuf(C, g, f, b), B, s)
Unlinked(B, p, s) == FoldLeft(LAMBDA C, b : Partition_UnlinkBuffer(C, p, b), B, s)
Deleted(B, p, s) == FoldLeft(LAMBDA C, b : UnlinkAndFree(C, p, b), B, s)
SentOn(B, c, s) ==
  FoldLeft(LAMBDA C, b : IF c.op = "MOVE_SECDATA" THEN MoveSector(C, c.part, c.filter, b)
                         ELSE CopySector(C, c.filter, b), B, s)

\* What the program has written goes through a filter.
LEMMA FilterAllLemma ==
  ASSUME NEW B, NEW L, NEW s \in Seq(Bufs), Once(s), Filed(B, L, RangeOf(s)),
         Wired(TrueConn), NEW g, Wired(g), NEW f, f \in Filters \cup {None}
  PROVE  Keeps(B, Sifted(B, g, f, s), {})
<1>1. FilesEach("filter", g, f)
  BY FilterEach
<1>2. /\ \E K : Filed(Fold("filter", g, f, B, s), K, {})
      /\ Fold("filter", g, f, B, s).Data = B.Data
  BY <1>1, FoldLoose
<1>3. Sifted(B, g, f, s) = Fold("filter", g, f, B, s)
  BY FilterFold DEF Sifted
<1> QED BY <1>2, <1>3 DEF Keeps

\* GETDEL_SECDATA takes the sectors that are asked for out of their partition.
LEMMA UnlinkAllLemma ==
  ASSUME NEW B, NEW L, NEW U, Filed(B, L, U), NEW p, p \in Filters, NEW s, Among(s, L[p])
  PROVE  Keeps(B, Unlinked(B, p, s), U \cup RangeOf(s))
<1>1. TakesEach("unlink", p, 0)
  BY UnlinkEach
<1>2. s \in Seq(Bufs) /\ Once(s) /\ \A i \in 1 .. Len(s) : In(s[i], L[p])
  BY DEF Among
<1>3. /\ \E K : Filed(Fold("unlink", p, 0, B, s), K, Looser("unlink", U, RangeOf(s)))
      /\ Fold("unlink", p, 0, B, s).Data = B.Data
  BY <1>1, <1>2, FoldMembers
<1>4. Looser("unlink", U, RangeOf(s)) = U \cup RangeOf(s)
  BY DEF Looser
<1>5. Keeps(B, Fold("unlink", p, 0, B, s), U \cup RangeOf(s))
  BY <1>3, <1>4 DEF Keeps
<1>6. Unlinked(B, p, s) = Fold("unlink", p, 0, B, s)
  BY UnlinkFold DEF Unlinked
<1> QED BY <1>5, <1>6

\* DEL_SECDATA and the file operations free them.
LEMMA DeleteAllLemma ==
  ASSUME NEW B, NEW L, NEW U, Filed(B, L, U), NEW p, p \in Filters, NEW s, Among(s, L[p])
  PROVE  Keeps(B, Deleted(B, p, s), U)
<1>1. TakesEach("clear", p, 0)
  BY ClearEach
<1>2. s \in Seq(Bufs) /\ Once(s) /\ \A i \in 1 .. Len(s) : In(s[i], L[p])
  BY DEF Among
<1>3. /\ \E K : Filed(Fold("clear", p, 0, B, s), K, Looser("clear", U, RangeOf(s)))
      /\ Fold("clear", p, 0, B, s).Data = B.Data
  BY <1>1, <1>2, FoldMembers
<1>4. Looser("clear", U, RangeOf(s)) = U
  BY DEF Looser
<1>5. Keeps(B, Fold("clear", p, 0, B, s), U)
  BY <1>3, <1>4 DEF Keeps
<1>6. Deleted(B, p, s) = Fold("clear", p, 0, B, s)
  BY ClearFold DEF Deleted
<1> QED BY <1>5, <1>6

\* MOVE_SECDATA sends them through the filters.
LEMMA MoveAllLemma ==
  ASSUME NEW B, NEW L, NEW U, Filed(B, L, U), NEW c, c.part \in Filters, c.filter \in Filters,
         c.op = "MOVE_SECDATA", Wired(TrueConn), Wired(FalseConn),
         NEW s, Among(s, L[c.part])
  PROVE  Keeps(B, SentOn(B, c, s), U)
<1> DEFINE p == c.part
           f == c.filter
<1>0. p \in Filters /\ f \in Filters /\ Among(s, L[p])
  OBVIOUS
<1>6. SentOn(B, c, s) = Fold("move", p, f, B, s)
  BY MoveFold DEF SentOn
<1> HIDE DEF p, f
<1>1. TakesEach("move", p, f)
  BY <1>0, MoveEach
<1>2. s \in Seq(Bufs) /\ Once(s) /\ \A i \in 1 .. Len(s) : In(s[i], L[p])
  BY <1>0 DEF Among
<1>3. /\ \E K : Filed(Fold("move", p, f, B, s), K, Looser("move", U, RangeOf(s)))
      /\ Fold("move", p, f, B, s).Data = B.Data
  BY <1>0, <1>1, <1>2, FoldMembers
<1>4. Looser("move", U, RangeOf(s)) = U
  BY DEF Looser
<1>5. Keeps(B, Fold("move", p, f, B, s), U)
  BY <1>3, <1>4 DEF Keeps
<1> QED BY <1>5, <1>6

\* A partition is emptied, and all of them are.
LEMMA PartitionClearLemma ==
  ASSUME NEW B, NEW L, NEW U, Filed(B, L, U), NEW p, p \in Filters
  PROVE  Keeps(B, Partition_Clear(B, p), U)
<1>1. InPartition(B, p) = L[p]
  BY InPartitionLemma
<1>2. Among(L[p], L[p])
  BY OnceLemma, PartPlaces DEF Among, In
<1>3. Keeps(B, Deleted(B, p, L[p]), U)
  BY <1>2, DeleteAllLemma
<1> QED BY <1>1, <1>3 DEF Partition_Clear, Deleted

LEMMA ClearAllLemma ==
  ASSUME NEW B, NEW U, \E L : Filed(B, L, U)
  PROVE  Keeps(B, ClearAll(B), U)
<1> DEFINE s == [i \in 1 .. NumFilters |-> i - 1]
           n == NumFilters
<1>1. n \in Nat /\ DOMAIN s = 1 .. n /\ \A k \in 1 .. n : s[k] \in Filters
  BY SelectorAssumption DEF Filters
<1>2. ClearAll(B) = Fold("all", 0, 0, B, s)
  BY ClearAllFold DEF ClearAll
<1> HIDE DEF s, n
<1>3t. Traced("all", 0, 0, B, s, n)
  BY ONLY <1>1, FoldTrace
<1>3. PICK r : /\ r[0] = B
               /\ \A k \in 1 .. n : r[k] = Does("all", 0, 0, r[k - 1], s[k])
               /\ Fold("all", 0, 0, B, s) = r[n]
  BY ONLY <1>3t DEF Traced
<1> DEFINE T == {k \in 0 .. n : Keeps(B, r[k], U)}
<1>4. 0 \in T
  BY <1>1, <1>3 DEF Keeps
<1>5. ASSUME NEW k \in 1 .. n, k - 1 \in T PROVE k \in T
  <2>1. PICK M : Filed(r[k - 1], M, U)
    BY <1>5 DEF Keeps
  <2>2. Keeps(r[k - 1], Partition_Clear(r[k - 1], s[k]), U)
    BY <2>1, <1>1, PartitionClearLemma
  <2>3. r[k] = Partition_Clear(r[k - 1], s[k])
    BY <1>3 DEF Does
  <2>4. r[k - 1].Data = B.Data
    BY <1>5 DEF Keeps
  <2>5. Keeps(B, r[k], U)
    BY <2>2, <2>3, <2>4 DEF Keeps
  <2> QED BY <2>5, <1>1
<1> HIDE DEF T
<1>6. \A k \in 0 .. n : k \in T
  BY <1>1, <1>4, <1>5, UpTo
<1>7. n \in T
  BY <1>1, <1>6
<1> QED BY <1>2, <1>3, <1>7 DEF T

\* The part of a partition that a command names is among its buffers.
LEMMA StretchLemma ==
  ASSUME NEW s \in Seq(Bufs), Once(s), NEW i \in 1 .. Len(s), NEW n \in Nat, i + n - 1 <= Len(s)
  PROVE  Among(Stretch(s, i, n), s)
<1>1. \A j \in 1 .. n : i + j - 1 \in 1 .. Len(s)
  OBVIOUS
<1> DEFINE t == Stretch(s, i, n)
<1>2. t \in Seq(Bufs) /\ Len(t) = n /\ \A j \in 1 .. n : t[j] = s[i + j - 1]
  BY <1>1 DEF Stretch
<1> HIDE DEF t
<1>3. Once(t)
  <2>1. SUFFICES ASSUME NEW j \in 1 .. n, NEW k \in 1 .. n, t[j] = t[k] PROVE j = k
    BY <1>2 DEF Once
  <2>2. i + j - 1 = i + k - 1
    BY <1>1, <1>2, <2>1 DEF Once
  <2> QED BY <2>2
<1>4. \A j \in 1 .. Len(t) : In(t[j], s)
  BY <1>1, <1>2 DEF In
<1> QED BY <1>2, <1>3, <1>4 DEF Among, t

Whole(x) == x \in Nat \cup {All}

\* The part of a partition that a command names is there.
LEMMA NamedLemma ==
  ASSUME NEW L, NEW U, Filed(pool, L, U), NEW c, c.part \in Filters,
         Whole(c.offs), Whole(c.n), InRange(c)
  PROVE  Among(Named(c), L[c.part]) /\ Len(Named(c)) = NumSec(c)
<1> DEFINE p == c.part
           o == Offset(c)
           n == NumSec(c)
           s == L[p]
<1>1. pool.Count[p] = Len(s) /\ s \in Seq(Bufs) /\ Once(s) /\ p \in Filters /\ p \in Places
  BY OnceLemma, PartPlaces DEF Filed, Ends
<1>2. o \in Int /\ n \in Int
  BY <1>1 DEF Whole, Offset, NumSec, All
<1>3. n > 0 /\ o >= 0 /\ o + n <= Len(s)
  BY <1>1 DEF InRange
<1>4. Partition_GetBuffer(pool, p, o) = s[o + 1]
  BY <1>1, InPartitionLemma DEF Partition_GetBuffer
<1>5. Named(c) = From(pool, s[o + 1], n)
  BY <1>4 DEF Named
<1> HIDE DEF p, o, n
<1>6. o + 1 \in 1 .. Len(s) /\ n \in Nat /\ (o + 1) + n - 1 <= Len(s)
  BY <1>1, <1>2, <1>3
<1>7. From(pool, s[o + 1], n) = Stretch(s, o + 1, n)
  BY <1>1, <1>6, FromLemma
<1>8. Among(Stretch(s, o + 1, n), s)
  <2> HIDE DEF s
  <2> QED BY <1>1, <1>6, StretchLemma
<1>9. Len(Stretch(s, o + 1, n)) = n
  BY <1>6 DEF Stretch
<1> QED BY <1>5, <1>7, <1>8, <1>9 DEF p, n

\* The first n of a partition.
LEMMA FirstsLemma ==
  ASSUME NEW B, NEW L, NEW U, Filed(B, L, U), NEW p, p \in Filters, NEW n \in Nat,
         B.Count[p] > 0, n <= B.Count[p]
  PROVE  Among(From(B, B.FirstBuf[p], n), L[p])
<1> DEFINE s == L[p]
<1>1. B.Count[p] = Len(s) /\ s \in Seq(Bufs) /\ Once(s) /\ p \in Places /\ B.FirstBuf[p] = First(s)
  BY OnceLemma, PartPlaces DEF Filed, Ends
<1>2. Len(s) \in Nat /\ Len(s) > 0 /\ 1 \in 1 .. Len(s) /\ 1 + n - 1 <= Len(s)
  BY <1>1
<1>3. First(s) = s[1]
  BY <1>2 DEF First
<1>4. From(B, s[1], n) = Stretch(s, 1, n)
  BY <1>1, <1>2, FromLemma
<1>5. Among(Stretch(s, 1, n), s)
  <2> HIDE DEF s
  <2> QED BY <1>1, <1>2, StretchLemma
<1> QED BY <1>1, <1>3, <1>4, <1>5

\* The first free buffer is given to sector v, which goes through filter f.
Received(C, v, g, f) ==
  FilterBuf([Buffer_Allocate(C) EXCEPT !.Data[C.FirstFreeBuf] = v], g, f, C.FirstFreeBuf)

Receives(C, U, v, D) ==
  /\ \E K : Filed(D, K, U)
  /\ D.FreeBufferCount \in Nat /\ D.FreeBufferCount >= C.FreeBufferCount - 1
  /\ C.FirstFreeBuf \in Bufs /\ C.FirstFreeBuf \notin U
  /\ D.Data = [C.Data EXCEPT ![C.FirstFreeBuf] = v]

LEMMA FreeCount ==
  ASSUME NEW B, NEW L, NEW U, Filed(B, L, U)
  PROVE  /\ B.FreeBufferCount = Len(L[None]) /\ B.FreeBufferCount \in Nat
         /\ L[None] \in Seq(Bufs) /\ \A i \in 1 .. Len(L[None]) : L[None][i] \notin U
         /\ U \subseteq Bufs /\ L \in [Places -> Seq(Bufs)]
BY PartPlaces DEF Filed, Ends, Chains, OneEach

\* A free buffer gets sector v and goes through the filters.
LEMMA ReceiveLemma ==
  ASSUME NEW C, NEW M, NEW U, Filed(C, M, U), C.FreeBufferCount > 0, NEW v,
         Wired(TrueConn), NEW g, Wired(g), NEW f, f \in Filters \cup {None}
  PROVE  Receives(C, U, v, Received(C, v, g, f))
<1> DEFINE a == C.FirstFreeBuf
           c == Cut(M[None], 1)
           K == [M EXCEPT ![None] = c]
           D == Buffer_Allocate(C)
           E == [D EXCEPT !.Data[a] = v]
           q == Destination(g, f, E.Data[a])
           F == FilterBuf(E, g, f, a)
           J == Put(K, q, a)
<1>1. /\ a = M[None][1] /\ Len(M[None]) > 0 /\ a \in Bufs
      /\ Filed(D, K, U \cup {a}) /\ D.Data = C.Data
  BY AllocateLemma
<1>2. Filed(E, K, U \cup {a})
  <2> HIDE DEF D, K
  <2> QED BY <1>1, DataLemma
<1>3. a \notin U
  <2>1. 1 \in 1 .. Len(M[None])
    BY <1>1, FreeCount
  <2> QED BY <1>1, <2>1, FreeCount
<1>4. PutAway(E, K, U \cup {a}, a, q, F)
  <2> HIDE DEF E, K, a
  <2> QED BY <1>2, FilterBufLemma
<1>5. (U \cup {a}) \ {a} = U
  BY <1>3
<1>6. Filed(F, J, U) /\ F.Data = E.Data /\ q \in Filters \cup {None}
  <2> HIDE DEF E, K, J, F, q, a
  <2> QED BY <1>4, <1>5 DEF PutAway, J
<1>7. E.Data = [C.Data EXCEPT ![a] = v]
  <2>1. "Data" \in DOMAIN D
    BY <1>1 DEF Filed, Shape
  <2> HIDE DEF D
  <2> QED BY <1>1, <2>1
<1>8. /\ C.FreeBufferCount = Len(M[None]) /\ M[None] \in Seq(Bufs)
      /\ M \in [Places -> Seq(Bufs)]
  BY FreeCount
<1>9. c \in Seq(Bufs) /\ Len(c) = Len(M[None]) - 1
  <2>1. 1 \in 1 .. Len(M[None])
    BY <1>1, <1>8
  <2> QED BY <2>1, <1>8, CutLemma
<1>10. K[None] = c
  BY <1>8, PartPlaces
<1>11. J[None] = c \/ J[None] = Before(c, a)
  BY <1>8, <1>10, <1>6, PartPlaces, BufsLemma DEF Put
<1>12. Len(J[None]) >= Len(c)
  <2> HIDE DEF J, c, a
  <2>0. a \in Bufs /\ c \in Seq(Bufs)
    BY <1>1, <1>9
  <2>1. Len(Before(c, a)) = Len(c) + 1 /\ Len(c) \in Nat
    BY <2>0, BeforeLemma
  <2> QED BY <2>1, <1>11
<1>13. F.FreeBufferCount = Len(J[None]) /\ F.FreeBufferCount \in Nat
  <2> HIDE DEF F, J
  <2> QED BY <1>6, FreeCount
<1>14. F.FreeBufferCount >= C.FreeBufferCount - 1
  <2> HIDE DEF F, J, c
  <2> QED BY <1>8, <1>9, <1>12, <1>13
<1>15. F = Received(C, v, g, f)
  BY DEF Received
<1> HIDE DEF a, c, K, D, E, F, J, q
<1>16. Receives(C, U, v, F)
  BY <1>1, <1>3, <1>6, <1>7, <1>13, <1>14 DEF Receives, a
<1> QED BY <1>15, <1>16

\* Copies, each in a buffer of its own, for as long as there are any.
LEMMA CopyAllLemma ==
  ASSUME NEW B, NEW L, NEW U, Filed(B, L, U), NEW c, c.filter \in Filters,
         c.op = "COPY_SECDATA", Wired(TrueConn), Wired(FalseConn),
         NEW s \in Seq(Bufs), Len(s) <= B.FreeBufferCount
  PROVE  \E K : Filed(SentOn(B, c, s), K, U)
<1> DEFINE p == c.part
           f == c.filter
           n == Len(s)
           g == InputFreed(f).false
<1>0. f \in Filters \cup {None} /\ n \in Nat /\ DOMAIN s = 1 .. n /\ Wired(g)
  BY DEF Wired, InputFreed
<1>1. SentOn(B, c, s) = Fold("copy", p, f, B, s)
  BY CopyFold DEF SentOn
<1>2. \A C, b : Does("copy", p, f, C, b) = Received(C, C.Data[b], g, f)
  BY DEF Does, CopySector, Received
<1>3. n <= B.FreeBufferCount /\ B.FreeBufferCount \in Nat
  BY FreeCount
<1> HIDE DEF p, f, n, g
<1>3a. n \in Nat /\ DOMAIN s = 1 .. n
  BY <1>0
<1>4t. Traced("copy", p, f, B, s, n)
  BY ONLY <1>3a, FoldTrace
<1>4. PICK r : /\ r[0] = B
               /\ \A k \in 1 .. n : r[k] = Does("copy", p, f, r[k - 1], s[k])
               /\ Fold("copy", p, f, B, s) = r[n]
  BY ONLY <1>4t DEF Traced
<1> DEFINE T == {k \in 0 .. n : /\ \E K : Filed(r[k], K, U)
                                /\ r[k].FreeBufferCount \in Nat
                                /\ r[k].FreeBufferCount >= B.FreeBufferCount - k}
<1>5. 0 \in T
  BY <1>0, <1>3, <1>4
<1>6. ASSUME NEW k \in 1 .. n, k - 1 \in T PROVE k \in T
  <2> DEFINE C == r[k - 1]
             v == C.Data[s[k]]
  <2>1. PICK M : Filed(C, M, U)
    BY <1>6
  <2>2. C.FreeBufferCount \in Nat /\ C.FreeBufferCount >= B.FreeBufferCount - (k - 1)
    BY <1>6
  <2>3. k \in 0 .. n /\ k \in Int /\ k <= n
    BY <1>0
  <2>4. r[k] = Received(C, v, g, f)
    BY <1>2, <1>4
  <2> HIDE DEF C, v, T
  <2>5. C.FreeBufferCount > 0
    BY <1>0, <1>3, <2>2, <2>3
  <2>6. Receives(C, U, v, r[k])
    BY <1>0, <2>1, <2>4, <2>5, ReceiveLemma
  <2>7. r[k].FreeBufferCount \in Nat /\ r[k].FreeBufferCount >= B.FreeBufferCount - k
    <3>1. r[k].FreeBufferCount \in Nat /\ r[k].FreeBufferCount >= C.FreeBufferCount - 1
      BY <2>6 DEF Receives
    <3> QED BY <3>1, <1>3, <2>2, <2>3
  <2>8. \E K : Filed(r[k], K, U)
    BY <2>6 DEF Receives
  <2> QED BY <2>3, <2>7, <2>8 DEF T
<1> HIDE DEF T
<1>7. \A k \in 0 .. n : k \in T
  BY <1>0, <1>5, <1>6, UpTo
<1>8. n \in T
  BY <1>0, <1>7
<1> QED BY <1>1, <1>4, <1>8 DEF T

\* k buffers of B have been lent; acc has them and what is left.
Lent(B, acc, k) ==
  /\ \E K : Filed(acc.B, K, RangeOf(acc.l))
  /\ acc.l \in Seq(Bufs) /\ Once(acc.l) /\ Len(acc.l) = k
  /\ acc.B.FreeBufferCount = B.FreeBufferCount - k

LentOne(acc) == [B |-> Buffer_Allocate([acc.B EXCEPT !.Data[acc.B.FirstFreeBuf] = Written]),
                 l |-> Append(acc.l, acc.B.FirstFreeBuf)]

\* PUT_SECDATA takes one free buffer after the other.
LEMMA LendOneLemma ==
  ASSUME NEW B, NEW acc, NEW k \in Nat, Lent(B, acc, k), B.FreeBufferCount \in Nat, k < B.FreeBufferCount
  PROVE  Lent(B, LentOne(acc), k + 1)
<1> DEFINE C == acc.B
           l == acc.l
           a == C.FirstFreeBuf
           D == [C EXCEPT !.Data[a] = Written]
           E == Buffer_Allocate(D)
           m == Append(l, a)
<1>1. PICK K : Filed(C, K, RangeOf(l))
  BY DEF Lent
<1>2. l \in Seq(Bufs) /\ Once(l) /\ Len(l) = k /\ C.FreeBufferCount = B.FreeBufferCount - k
  BY DEF Lent
<1>3. Filed(D, K, RangeOf(l))
  <2> HIDE DEF C
  <2> QED BY <1>1, DataLemma
<1>4. D.FirstFreeBuf = a /\ D.FreeBufferCount = C.FreeBufferCount
  <2> HIDE DEF C
  <2> QED BY <1>1 DEF Filed, Shape
<1>5. D.FreeBufferCount > 0
  BY <1>2, <1>4
<1> HIDE DEF C, D, a
<1> DEFINE J == [K EXCEPT ![None] = Cut(K[None], 1)]
<1>6. /\ a = K[None][1] /\ Len(K[None]) > 0 /\ a \in Bufs
      /\ Filed(E, J, RangeOf(l) \cup {a})
  <2>1. /\ D.FirstFreeBuf = K[None][1] /\ Len(K[None]) > 0 /\ D.FirstFreeBuf \in Bufs
        /\ Filed(Buffer_Allocate(D), [K EXCEPT ![None] = Cut(K[None], 1)], RangeOf(l) \cup {D.FirstFreeBuf})
    BY <1>3, <1>5, AllocateLemma
  <2> QED BY <2>1, <1>4
<1>7. 1 \in 1 .. Len(K[None]) /\ K[None] \in Seq(Bufs) /\ K \in [Places -> Seq(Bufs)]
  BY <1>3, <1>6, FreeCount
<1>8. a \notin RangeOf(l)
  BY <1>3, <1>6, <1>7, FreeCount
<1>9. E.FreeBufferCount = D.FreeBufferCount - 1
  <2>1. D.FreeBufferCount = Len(K[None])
    BY <1>3, FreeCount
  <2>2. J[None] = Cut(K[None], 1)
    BY <1>7, PartPlaces
  <2>3. Len(Cut(K[None], 1)) = Len(K[None]) - 1
    BY <1>7, CutLemma
  <2> HIDE DEF E, J
  <2>4. E.FreeBufferCount = Len(J[None])
    BY <1>6, FreeCount
  <2> QED BY <2>1, <2>2, <2>3, <2>4
<1>10. /\ m \in Seq(Bufs) /\ Len(m) = k + 1
       /\ \A i \in 1 .. k : m[i] = l[i]
       /\ m[k + 1] = a
  BY <1>2, <1>6
<1>11. 1 .. (k + 1) = (1 .. k) \cup {k + 1}
  OBVIOUS
<1> HIDE DEF E, J, m, l
<1>12. RangeOf(m) = RangeOf(l) \cup {a}
  BY <1>2, <1>10, <1>11 DEF RangeOf
<1>13. Once(m)
  <2>1. SUFFICES ASSUME NEW i \in 1 .. (k + 1), NEW j \in 1 .. (k + 1), m[i] = m[j] PROVE i = j
    BY <1>10 DEF Once
  <2>2. \A h \in 1 .. k : m[h] \in RangeOf(l) /\ m[h] # a
    BY <1>2, <1>8, <1>10 DEF RangeOf
  <2>3. CASE i \in 1 .. k /\ j \in 1 .. k
    BY <2>1, <2>3, <1>2, <1>10 DEF Once
  <2>4. CASE ~ (i \in 1 .. k /\ j \in 1 .. k)
    BY <2>1, <2>2, <2>4, <1>10, <1>11
  <2> QED BY <2>3, <2>4
<1>14. Filed(E, J, RangeOf(m))
  BY <1>6, <1>12
<1>15. E.FreeBufferCount = B.FreeBufferCount - (k + 1)
  BY <1>2, <1>4, <1>9
<1> DEFINE r == [B |-> E, l |-> m]
<1>16. r.B = E /\ r.l = m
  OBVIOUS
<1>17. LentOne(acc) = r
  BY DEF LentOne, E, D, C, a, m, l
<1> HIDE DEF r
<1>18. Lent(B, r, k + 1)
  BY <1>10, <1>13, <1>14, <1>15, <1>16 DEF Lent
<1> QED BY <1>17, <1>18

\* What PUT_SECDATA takes.
LentAll(B, n) ==
  FoldLeft(LAMBDA acc, i : [B |-> Buffer_Allocate([acc.B EXCEPT !.Data[acc.B.FirstFreeBuf] = Written]),
                            l |-> Append(acc.l, acc.B.FirstFreeBuf)],
           [B |-> B, l |-> <<>>], [i \in 1 .. n |-> i])

LEMMA LendLemma ==
  ASSUME NEW B, \E L : Filed(B, L, {}), NEW n, n \in Nat, n <= B.FreeBufferCount
  PROVE  Lent(B, LentAll(B, n), n)
<1> DEFINE s == [i \in 1 .. n |-> i]
           base == [B |-> B, l |-> <<>>]
<1>1. B.FreeBufferCount \in Nat
  BY FreeCount
<1>2. LentAll(B, n) = Fold("lend", 0, 0, base, s)
  BY LendFold DEF LentAll
<1>3. DOMAIN s = 1 .. n
  OBVIOUS
<1>4. \A acc, i : Does("lend", 0, 0, acc, i) = LentOne(acc)
  BY DEF Does, LentOne
<1>5. Lent(B, base, 0)
  <2>1. base.B = B /\ base.l = <<>> /\ <<>> \in Seq(Bufs) /\ Len(<<>>) = 0 /\ 1 .. 0 = {}
    OBVIOUS
  <2>2. RangeOf(<<>>) = {} /\ Once(<<>>)
    BY <2>1 DEF RangeOf, Once
  <2>3. \E K : Filed(B, K, RangeOf(<<>>))
    BY <2>2
  <2> HIDE DEF base
  <2>4. B.FreeBufferCount = B.FreeBufferCount - 0
    BY <1>1
  <2>5. /\ \E K : Filed(base.B, K, RangeOf(base.l))
        /\ base.l \in Seq(Bufs) /\ Once(base.l) /\ Len(base.l) = 0
    BY <2>1, <2>2, <2>3
  <2> QED BY <2>1, <2>4, <2>5 DEF Lent
<1> HIDE DEF s, base
<1>6. Traced("lend", 0, 0, base, s, n)
  BY <1>3, FoldTrace
<1>7. PICK r : /\ r[0] = base
               /\ \A k \in 1 .. n : r[k] = Does("lend", 0, 0, r[k - 1], s[k])
               /\ Fold("lend", 0, 0, base, s) = r[n]
  BY ONLY <1>6 DEF Traced
<1> DEFINE T == {k \in 0 .. n : Lent(B, r[k], k)}
<1>8. 0 \in T
  BY <1>5, <1>7
<1>9. ASSUME NEW k \in 1 .. n, k - 1 \in T PROVE k \in T
  <2>1. k - 1 \in Nat /\ k - 1 < B.FreeBufferCount /\ (k - 1) + 1 = k /\ k \in 0 .. n
    BY <1>1
  <2>2. Lent(B, r[k - 1], k - 1)
    BY <1>9
  <2>3. Lent(B, LentOne(r[k - 1]), (k - 1) + 1)
    BY <1>1, <2>1, <2>2, LendOneLemma
  <2>4. r[k] = LentOne(r[k - 1])
    BY <1>4, <1>7
  <2> QED BY <2>1, <2>3, <2>4
<1> HIDE DEF T
<1>10. \A k \in 0 .. n : k \in T
  BY <1>8, <1>9, UpTo
<1>11. n \in T
  BY <1>10
<1> QED BY <1>2, <1>7, <1>11 DEF T

\* After a reset all buffers are free.
LEMMA ResetBuffersLemma ==
  ASSUME NEW B, Shape(B)
  PROVE  \E K : Filed(ResetBuffers(B), K, {})
<1> DEFINE C == ResetBuffers(B)
           s == [i \in 1 .. NumBuffers |-> i - 1]
           L == [x \in Places |-> IF x = None THEN s ELSE <<>>]
<1>0. NumBuffers \in Nat /\ NumBuffers > 0
  BY SelectorAssumption
<1>1. s \in Seq(Bufs) /\ Len(s) = NumBuffers /\ \A i \in 1 .. NumBuffers : s[i] = i - 1
  BY <1>0 DEF Bufs
<1>2. /\ L \in [Places -> Seq(Bufs)] /\ L[None] = s /\ \A p \in Filters : L[p] = <<>>
  <2>1. <<>> \in Seq(Bufs)
    OBVIOUS
  <2> HIDE DEF s
  <2> QED BY <1>1, <2>1, PartPlaces, BufsLemma
<1>3. /\ DOMAIN C = DOMAIN B /\ C.Data = B.Data
      /\ C.Prev = [b \in Bufs |-> b - 1]
      /\ C.Next = [b \in Bufs |-> IF b = NumBuffers - 1 THEN None ELSE b + 1]
      /\ C.FirstFreeBuf = 0 /\ C.FreeBufferCount = NumBuffers
      /\ C.FirstBuf = [p \in Filters |-> None] /\ C.LastBuf = [p \in Filters |-> None]
      /\ C.Count = [p \in Filters |-> 0]
  BY DEF ResetBuffers, Shape
<1>4. C.Prev \in [Bufs -> Bufs \cup {None}] /\ C.Next \in [Bufs -> Bufs \cup {None}]
  BY <1>0, <1>3 DEF Bufs, None
<1> HIDE DEF C
<1>5. Shape(C)
  BY <1>3, <1>4 DEF Shape
<1> HIDE DEF s, L
<1>6. OneEach(L, {})
  <2>1. \A x \in Places : x # None => Len(L[x]) = 0
    BY <1>2 DEF Places
  <2>2. \A x \in Places : \A i \in 1 .. Len(L[x]) : x = None
    BY <2>1
  <2>3. \A i, j \in 1 .. NumBuffers : s[i] = s[j] => i = j
    BY <1>0, <1>1
  <2>4. \A x, y \in Places : \A i \in 1 .. Len(L[x]), j \in 1 .. Len(L[y]) :
          L[x][i] = L[y][j] => x = y /\ i = j
    BY <1>1, <1>2, <2>2, <2>3
  <2>5. ASSUME NEW b \in Bufs PROVE \E x \in Places : \E i \in 1 .. Len(L[x]) : L[x][i] = b
    <3>1. b + 1 \in 1 .. NumBuffers /\ (b + 1) - 1 = b
      BY <1>0 DEF Bufs
    <3> QED BY <3>1, <1>1, <1>2, PartPlaces
  <2> QED BY <2>4, <2>5 DEF OneEach
<1>7. \A x \in Places : Linked(C.Next, C.Prev, L[x])
  <2>1. SUFFICES ASSUME NEW x \in Places, NEW i \in 1 .. Len(L[x])
                 PROVE  /\ C.Next[L[x][i]] = IF i = Len(L[x]) THEN None ELSE L[x][i + 1]
                        /\ C.Prev[L[x][i]] = IF i = 1 THEN None ELSE L[x][i - 1]
    BY DEF Linked
  <2>2. x = None /\ L[x] = s /\ i \in 1 .. NumBuffers
    <3>1. CASE x = None
      BY <3>1, <1>1, <1>2
    <3>2. CASE x # None
      BY <3>2, <1>2 DEF Places
    <3> QED BY <3>1, <3>2
  <2>3. s[i] = i - 1 /\ i - 1 \in Bufs
    BY <1>0, <1>1, <2>2 DEF Bufs
  <2>4. i < NumBuffers => s[i + 1] = i
    BY <1>0, <1>1, <2>2
  <2>5. i > 1 => s[i - 1] = i - 2
    BY <1>0, <1>1, <2>2
  <2>6. C.Next[i - 1] = IF i = NumBuffers THEN None ELSE i
    <3>1. C.Next[i - 1] = IF i - 1 = NumBuffers - 1 THEN None ELSE (i - 1) + 1
      BY <1>3, <2>3
    <3> QED BY <3>1, <2>2, <1>0
  <2>7. C.Prev[i - 1] = i - 2
    <3>1. C.Prev[i - 1] = (i - 1) - 1
      BY <1>3, <2>3
    <3> QED BY <3>1, <2>2, <1>0
  <2> QED BY <1>0, <1>1, <2>2, <2>3, <2>4, <2>5, <2>6, <2>7 DEF None
<1>8. Chains(C.Next, C.Prev, L, {})
  BY <1>2, <1>4, <1>6, <1>7 DEF Chains
<1>9. Ends(C, L)
  BY <1>0, <1>1, <1>2, <1>3 DEF Ends, First, LastOf
<1> QED BY <1>5, <1>8, <1>9 DEF Filed, C

-----------------------------------------------------------------------------
(* The transfer and the buffers it keeps                                     *)

\* The record of a transfer.
IsTransfer(t) ==
  t \in [Active : BOOLEAN, Writing : BOOLEAN, NeedBufFree : BOOLEAN, CurBufIndex : Nat \ {0},
         BufList : Seq(Bufs \cup {Toc}), InBufOffs : Nat, InBufCounter : Nat, FIFO_In : Nat,
         FNum : Filters]

\* The buffers that a transfer keeps to itself.
KeptBy(t) == IF t.Active /\ (t.Writing \/ t.NeedBufFree) THEN t.BufList ELSE <<>>

\* A transfer t of sectors, a of which are asked for, where data has the sectors.
OfSectors(t, a, data) ==
  /\ t.BufList \in Seq(Bufs)
  /\ t.InBufCounter > 0 => t.InBufOffs + t.InBufCounter <= SectorWords
  /\ DOMAIN a = 1 .. Len(t.BufList)
  /\ t.Writing => \A i \in DOMAIN a : a[i] = None
  /\ \A i \in DOMAIN a : a[i] # None => data[t.BufList[i]] = a[i]
  /\ t.Writing \/ t.NeedBufFree => Once(t.BufList)

\* A transfer of the table of contents.
OfToc(t, a) == t.BufList = <<Toc>> /\ a = <<None>> /\ ~ t.Writing /\ ~ t.NeedBufFree

\* A transfer inside its buffers, with what was asked for still to come.
Transferring(t, a, data) ==
  /\ IsTransfer(t)
  /\ t.Active => /\ t.FIFO_In <= Prefill + 1
                 /\ t.InBufCounter > 0 => t.CurBufIndex <= Len(t.BufList)
                 /\ OfToc(t, a) \/ OfSectors(t, a, data)

LEMMA KeptLemma ==
  ASSUME NEW t, NEW a, NEW data, Transferring(t, a, data)
  PROVE  KeptBy(t) \in Seq(Bufs) /\ Once(KeptBy(t))
<1>1. <<>> \in Seq(Bufs) /\ Once(<<>>)
  BY DEF Once
<1>2. CASE t.Active /\ (t.Writing \/ t.NeedBufFree)
  BY <1>2 DEF Transferring, OfToc, OfSectors, KeptBy
<1>3. CASE ~ (t.Active /\ (t.Writing \/ t.NeedBufFree))
  BY <1>1, <1>3 DEF KeptBy
<1> QED BY <1>2, <1>3

LEMMA NoTransferLemma ==
  ASSUME NEW a, NEW data
  PROVE  Transferring(NoTransfer, a, data) /\ KeptBy(NoTransfer) = <<>>
<1>1. 0 \in Filters
  BY SelectorAssumption DEF Filters
<1> QED BY <1>1 DEF Transferring, IsTransfer, NoTransfer, KeptBy

LEMMA IsSound == Transferring(dt, asked, pool.Data) => TransferSound
<1> SUFFICES ASSUME Transferring(dt, asked, pool.Data), dt.Active PROVE TransferSound
  BY DEF TransferSound
<1>1. /\ dt.FIFO_In \in Nat /\ dt.FIFO_In <= Prefill + 1 /\ Prefill \in Nat
      /\ dt.CurBufIndex \in Nat /\ dt.CurBufIndex > 0 /\ dt.InBufCounter \in Nat
      /\ dt.InBufCounter > 0 => dt.CurBufIndex <= Len(dt.BufList)
      /\ dt.BufList \in Seq(Bufs \cup {Toc})
  BY CDBlockAssumption DEF Transferring, IsTransfer
<1>2. dt.FIFO_In \in 0 .. (Prefill + 1)
  BY <1>1
<1>3. dt.InBufCounter > 0 => dt.CurBufIndex \in DOMAIN dt.BufList
  BY <1>1
<1>4. CASE OfToc(dt, asked)
  <2>1. Len(dt.BufList) = 1 /\ asked[1] = None /\ dt.BufList = <<Toc>>
    BY <1>4 DEF OfToc
  <2>2. \A i \in dt.CurBufIndex .. Len(dt.BufList) : i = 1
    BY <1>1, <2>1
  <2> QED BY <1>2, <1>3, <2>1, <2>2 DEF TransferSound
<1>5. CASE OfSectors(dt, asked, pool.Data)
  <2>1. \A i \in dt.CurBufIndex .. Len(dt.BufList) : i \in DOMAIN asked
    BY <1>1, <1>5 DEF OfSectors
  <2> QED BY <1>2, <1>3, <1>5, <2>1 DEF TransferSound, OfSectors
<1> QED BY <1>4, <1>5 DEF Transferring

\* The words of a sector, by its length.
LEMMA WordsLemma ==
  ASSUME NEW len
  PROVE  /\ Skipped(len) \in Nat /\ Words(len) \in Nat /\ SectorWords \in Nat
         /\ Skipped(len) + Words(len) = SectorWords /\ Prefill \in Nat /\ Prefill <= Words(len)
BY CDBlockAssumption DEF Words, Skipped

\* Where a transfer goes and comes from does not change on the way.
SameWay(t, u) == /\ u.Active = t.Active /\ u.Writing = t.Writing /\ u.NeedBufFree = t.NeedBufFree
                 /\ u.BufList = t.BufList /\ u.FNum = t.FNum

\* At the start of a buffer a transfer has the whole of it to go.
LEMMA OffsLemma ==
  ASSUME NEW t, IsTransfer(t)
  PROVE  /\ IsTransfer(DT_SetIBOffsCount(t)) /\ SameWay(t, DT_SetIBOffsCount(t))
         /\ DT_SetIBOffsCount(t).FIFO_In = t.FIFO_In
         /\ DT_SetIBOffsCount(t).CurBufIndex = t.CurBufIndex
         /\ DT_SetIBOffsCount(t).InBufOffs + DT_SetIBOffsCount(t).InBufCounter = SectorWords
         /\ Prefill <= DT_SetIBOffsCount(t).InBufCounter
<1> DEFINE len == IF t.Writing THEN secLen.put ELSE secLen.get
           u == DT_SetIBOffsCount(t)
<1>1. u = [t EXCEPT !.InBufOffs = Skipped(len), !.InBufCounter = Words(len)]
  BY DEF DT_SetIBOffsCount
<1>2. /\ Skipped(len) \in Nat /\ Words(len) \in Nat /\ SectorWords \in Nat
      /\ Skipped(len) + Words(len) = SectorWords /\ Prefill \in Nat /\ Prefill <= Words(len)
  BY WordsLemma
<1> HIDE DEF u, len
<1>3. /\ IsTransfer(u) /\ SameWay(t, u) /\ u.FIFO_In = t.FIFO_In /\ u.CurBufIndex = t.CurBufIndex
      /\ u.InBufOffs = Skipped(len) /\ u.InBufCounter = Words(len)
  BY <1>1, <1>2 DEF IsTransfer, SameWay
<1> QED BY <1>2, <1>3 DEF u

\* Words that are read or written leave a transfer sound.
LEMMA AdvanceLemma ==
  ASSUME NEW t, NEW a, NEW data, Transferring(t, a, data), t.Active,
         NEW n \in Nat, n <= t.InBufCounter
  PROVE  /\ Transferring(Advance(t, n), a, data) /\ SameWay(t, Advance(t, n))
         /\ Advance(t, n).FIFO_In = t.FIFO_In
<1> DEFINE u == [t EXCEPT !.InBufOffs = @ + n, !.InBufCounter = @ - n]
           v == [u EXCEPT !.CurBufIndex = @ + 1]
           w == DT_SetIBOffsCount(v)
<1>0. /\ IsTransfer(t) /\ t.InBufOffs \in Nat /\ t.InBufCounter \in Nat /\ t.FIFO_In \in Nat
      /\ t.CurBufIndex \in Nat \ {0} /\ t.FIFO_In <= Prefill + 1
      /\ (t.InBufCounter > 0 => t.CurBufIndex <= Len(t.BufList))
      /\ OfToc(t, a) \/ OfSectors(t, a, data)
  BY DEF Transferring, IsTransfer
<1>1. /\ IsTransfer(u) /\ SameWay(t, u) /\ u.FIFO_In = t.FIFO_In /\ u.CurBufIndex = t.CurBufIndex
      /\ u.InBufOffs = t.InBufOffs + n /\ u.InBufCounter = t.InBufCounter - n
  <2> DEFINE o == t.InBufOffs + n
             k == t.InBufCounter - n
  <2>1. o \in Nat /\ k \in Nat
    BY <1>0
  <2>2. u = [t EXCEPT !.InBufOffs = o, !.InBufCounter = k]
    OBVIOUS
  <2> HIDE DEF o, k, u
  <2>3. /\ IsTransfer(u) /\ SameWay(t, u) /\ u.FIFO_In = t.FIFO_In /\ u.CurBufIndex = t.CurBufIndex
        /\ u.InBufOffs = o /\ u.InBufCounter = k
    BY <1>0, <2>1, <2>2 DEF IsTransfer, SameWay
  <2> QED BY <2>3 DEF o, k
<1> HIDE DEF u
<1>2. /\ IsTransfer(v) /\ SameWay(t, v) /\ v.FIFO_In = t.FIFO_In /\ v.CurBufIndex = t.CurBufIndex + 1
      /\ v.InBufOffs = u.InBufOffs /\ v.InBufCounter = u.InBufCounter
  <2> DEFINE c == u.CurBufIndex + 1
  <2>1. c \in Nat \ {0} /\ c = t.CurBufIndex + 1 /\ IsTransfer(u) /\ SameWay(t, u)
        /\ u.FIFO_In = t.FIFO_In
    BY <1>0, <1>1
  <2>2. v = [u EXCEPT !.CurBufIndex = c]
    OBVIOUS
  <2> HIDE DEF c, v
  <2>3. /\ IsTransfer(v) /\ SameWay(u, v) /\ v.FIFO_In = u.FIFO_In /\ v.CurBufIndex = c
        /\ v.InBufOffs = u.InBufOffs /\ v.InBufCounter = u.InBufCounter
    BY <2>1, <2>2 DEF IsTransfer, SameWay
  <2> QED BY <2>1, <2>3 DEF SameWay
<1> HIDE DEF v
<1>3. /\ IsTransfer(w) /\ SameWay(v, w) /\ w.FIFO_In = v.FIFO_In /\ w.CurBufIndex = v.CurBufIndex
      /\ w.InBufOffs + w.InBufCounter = SectorWords
  BY <1>2, OffsLemma
<1> HIDE DEF w
<1>4. Advance(t, n) = IF u.InBufCounter > 0 THEN u
                      ELSE IF v.CurBufIndex <= Len(v.BufList) THEN w ELSE v
  BY DEF Advance, u, v, w
<1>5. SectorWords \in Nat
  BY CDBlockAssumption
<1>6. ASSUME NEW x, IsTransfer(x), SameWay(t, x), x.FIFO_In = t.FIFO_In,
             x.InBufCounter > 0 => /\ x.CurBufIndex <= Len(t.BufList)
                                   /\ OfSectors(t, a, data) => x.InBufOffs + x.InBufCounter <= SectorWords
      PROVE  Transferring(x, a, data)
  <2>1. OfToc(t, a) => OfToc(x, a)
    BY <1>6 DEF OfToc, SameWay
  <2>2. OfSectors(t, a, data) => OfSectors(x, a, data)
    BY <1>6 DEF OfSectors, SameWay
  <2>3. x.FIFO_In <= Prefill + 1 /\ (x.InBufCounter > 0 => x.CurBufIndex <= Len(x.BufList))
    BY <1>0, <1>6 DEF SameWay
  <2> QED BY <1>0, <1>6, <2>1, <2>2, <2>3 DEF Transferring
<1>7. CASE u.InBufCounter > 0
  <2>1. t.InBufCounter > 0
    BY <1>0, <1>1, <1>7
  <2>2. OfSectors(t, a, data) => u.InBufOffs + u.InBufCounter <= SectorWords
    BY <1>0, <1>1, <1>5, <2>1 DEF OfSectors
  <2>3. Transferring(u, a, data)
    BY <1>0, <1>1, <1>6, <2>1, <2>2
  <2> QED BY <1>1, <1>4, <1>7, <2>3
<1>8. CASE ~ (u.InBufCounter > 0) /\ v.CurBufIndex <= Len(v.BufList)
  <2>1. SameWay(t, w) /\ v.BufList = t.BufList
    BY <1>2, <1>3 DEF SameWay
  <2>2. w.CurBufIndex <= Len(t.BufList) /\ w.InBufOffs + w.InBufCounter <= SectorWords
    BY <1>3, <1>5, <1>8, <2>1
  <2>3. Transferring(w, a, data)
    BY <1>2, <1>3, <1>6, <2>1, <2>2
  <2> QED BY <1>2, <1>3, <1>4, <1>8, <2>1, <2>3
<1>9. CASE ~ (u.InBufCounter > 0) /\ ~ (v.CurBufIndex <= Len(v.BufList))
  <2>1. Transferring(v, a, data)
    BY <1>2, <1>6, <1>9
  <2> QED BY <1>2, <1>4, <1>9, <2>1
<1> QED BY <1>7, <1>8, <1>9

\* The buffers are in order but for those that the transfer keeps, and so is it.
Sorted(B, t) == \E L : Filed(B, L, RangeOf(KeptBy(t)))
Stored(B, t, a) == Sorted(B, t) /\ Transferring(t, a, B.Data)

\* Before the first reset, and while one lasts, only the arrays are there.
StoreInv == /\ Shape(pool) /\ Transferring(dt, asked, pool.Data)
            /\ cmd.phase # "reset" => Sorted(pool, dt)

\* The connections that the selector has.
Connected == Wired(TrueConn) /\ Wired(FalseConn) /\ CDDevConn \in Filters \cup {None}

LEMMA StoredShape ==
  ASSUME NEW B, NEW t, NEW a, Stored(B, t, a)
  PROVE  Shape(B)
BY DEF Stored, Sorted, Filed

\* To change the lists and not the data does the transfer no harm.
LEMMA KeepsLemma ==
  ASSUME NEW B, NEW t, NEW a, Stored(B, t, a), NEW C, Keeps(B, C, RangeOf(KeptBy(t)))
  PROVE  Stored(C, t, a)
BY DEF Stored, Sorted, Keeps

LEMMA NothingKept ==
  ASSUME NEW B, NEW t, NEW a, Stored(B, t, a), ~ t.Active
  PROVE  \E L : Filed(B, L, {})
<1>1. KeptBy(t) = <<>> /\ Len(<<>>) = 0 /\ 1 .. 0 = {}
  BY DEF KeptBy
<1>2. RangeOf(KeptBy(t)) = {}
  BY <1>1 DEF RangeOf
<1> QED BY <1>2 DEF Stored, Sorted

LEMMA NoneKept == RangeOf(<<>>) = {}
BY DEF RangeOf

\* A sector from the drive gets into a buffer that no transfer keeps.
LEMMA DeliverLemma ==
  ASSUME Stored(pool, dt, asked), Connected, pool.FreeBufferCount > 0, NEW s
  PROVE  Stored(Deliver(pool, s), dt, StillAsked(pool.FirstFreeBuf))
<1> DEFINE b == pool.FirstFreeBuf
           C == Deliver(pool, s)
           U == RangeOf(KeptBy(dt))
           a == StillAsked(b)
<1>1. PICK L : Filed(pool, L, U)
  BY DEF Stored, Sorted
<1>2. C = Received(pool, s, FalseConn, CDDevConn)
  BY DEF Deliver, Received
<1>3. Receives(pool, U, s, C)
  <2> HIDE DEF C, U
  <2> QED BY <1>1, <1>2, ReceiveLemma DEF Connected
<1>4. (\E K : Filed(C, K, U)) /\ b \notin U /\ C.Data = [pool.Data EXCEPT ![b] = s]
  <2> HIDE DEF C, U
  <2> QED BY <1>3 DEF Receives
<1>5. DOMAIN pool.Data = Bufs
  BY <1>1 DEF Filed, Shape
<1>6. /\ DOMAIN a = DOMAIN asked
      /\ \A i \in DOMAIN asked : a[i] = IF ~ dt.NeedBufFree /\ dt.BufList[i] = b THEN None ELSE asked[i]
  BY DEF StillAsked
<1> HIDE DEF a, b, C
<1>7. IsTransfer(dt) /\ Transferring(dt, asked, pool.Data)
  BY DEF Stored, Transferring
<1>8. ASSUME dt.Active, OfToc(dt, asked) PROVE OfToc(dt, a)
  <2>1. asked = <<None>>
    BY <1>8 DEF OfToc
  <2>2. DOMAIN a = 1 .. 1 /\ a[1] = None
    BY <1>6, <2>1
  <2>3. a = <<None>>
    <3>1. a = [i \in 1 .. 1 |-> None]
      BY <1>6, <2>2 DEF StillAsked, a
    <3> QED BY <3>1
  <2> QED BY <1>8, <2>3 DEF OfToc
<1>9. ASSUME dt.Active, OfSectors(dt, asked, pool.Data) PROVE OfSectors(dt, a, C.Data)
  <2>1. DOMAIN a = 1 .. Len(dt.BufList) /\ dt.BufList \in Seq(Bufs)
    BY <1>6, <1>9 DEF OfSectors
  <2>2. dt.Writing => \A i \in DOMAIN a : a[i] = None
    BY <1>6, <1>9 DEF OfSectors
  <2>3. ASSUME NEW i \in DOMAIN a, a[i] # None PROVE C.Data[dt.BufList[i]] = a[i]
    <3>1. a[i] = asked[i] /\ i \in DOMAIN asked /\ pool.Data[dt.BufList[i]] = asked[i] /\ ~ dt.Writing
      BY <1>6, <1>9, <2>2, <2>3 DEF OfSectors
    <3>2. dt.BufList[i] \in Bufs /\ i \in 1 .. Len(dt.BufList)
      BY <2>1
    <3>3. dt.BufList[i] # b
      <4>1. CASE dt.NeedBufFree
        <5>1. KeptBy(dt) = dt.BufList
          BY <1>9, <4>1 DEF KeptBy
        <5>2. dt.BufList[i] \in U
          BY <3>2, <5>1 DEF RangeOf
        <5> QED BY <5>2, <1>4
      <4>2. CASE ~ dt.NeedBufFree
        BY <1>6, <2>3, <4>2
      <4> QED BY <4>1, <4>2
    <3> QED BY <1>4, <1>5, <3>1, <3>2, <3>3
  <2> QED BY <1>9, <2>1, <2>2, <2>3 DEF OfSectors
<1>10. Transferring(dt, a, C.Data)
  BY <1>7, <1>8, <1>9 DEF Transferring
<1> QED BY <1>4, <1>10 DEF Stored, Sorted, a, b, C

\* A reset ends a transfer and frees all buffers.
LEMMA SWResetLemma ==
  ASSUME Shape(pool), SWReset
  PROVE  Stored(pool', dt', asked')
<1>1. pool' = ResetBuffers(pool) /\ dt' = NoTransfer /\ asked' = <<>>
  BY DEF SWReset
<1>2. \E K : Filed(ResetBuffers(pool), K, {})
  BY ResetBuffersLemma
<1>3. Transferring(dt', asked', pool'.Data) /\ KeptBy(dt') = <<>>
  BY <1>1, NoTransferLemma
<1> QED BY <1>1, <1>2, <1>3, NoneKept DEF Stored, Sorted

\* One word is transferred.
LEMMA TransferWordLemma ==
  ASSUME StoreInv, TransferWord
  PROVE  StoreInv'
<1>1. Transferring(dt, asked, pool.Data) /\ Shape(pool) /\ dt.Active /\ UNCHANGED <<asked, cmd>>
  BY DEF StoreInv, TransferWord, ReadWord, WriteWord
<1>2. /\ dt.InBufCounter \in Nat /\ dt.FIFO_In \in Nat /\ dt.FIFO_In <= Prefill + 1 /\ IsTransfer(dt)
      /\ 1 \in Nat
  BY <1>1 DEF Transferring, IsTransfer
<1> DEFINE w == Advance(dt, 1)
<1>3. dt.InBufCounter > 0 =>
        Transferring(w, asked, pool.Data) /\ SameWay(dt, w) /\ w.FIFO_In = dt.FIFO_In
  <2>1. dt.InBufCounter > 0 => 1 <= dt.InBufCounter
    BY <1>2
  <2> HIDE DEF w
  <2> QED BY <1>1, <1>2, <2>1, AdvanceLemma DEF w
<1> HIDE DEF w
<1>4. CASE ReadWord
  <2>1. UNCHANGED pool /\ dt.InBufCounter + dt.FIFO_In > 0
    BY <1>4 DEF ReadWord
  <2>2. CASE dt.InBufCounter > 0
    <3>1. dt' = [[w EXCEPT !.FIFO_In = @ + 1] EXCEPT !.FIFO_In = @ - 1]
      BY <1>4, <2>2 DEF ReadWord, DT_ReadIntoFIFO, w
    <3>2. IsTransfer(w) /\ w.FIFO_In \in Nat
      BY <1>3, <2>2 DEF Transferring, IsTransfer
    <3>3. dt' = w
      <4>1. (w.FIFO_In + 1) - 1 = w.FIFO_In
        BY <3>2
      <4> QED BY <3>1, <3>2, <4>1 DEF IsTransfer
    <3>4. KeptBy(dt') = KeptBy(dt)
      BY <1>3, <2>2, <3>3 DEF KeptBy, SameWay
    <3> QED BY <1>1, <1>3, <2>1, <2>2, <3>3, <3>4 DEF StoreInv, Sorted
  <2>3. CASE ~ (dt.InBufCounter > 0)
    <3>1. dt' = [dt EXCEPT !.FIFO_In = @ - 1]
      BY <1>4, <2>3 DEF ReadWord
    <3> DEFINE k == dt.FIFO_In - 1
    <3>2. k \in Nat /\ k <= Prefill + 1
      BY <1>2, <2>1, <2>3, CDBlockAssumption
    <3>3. dt' = [dt EXCEPT !.FIFO_In = k]
      BY <3>1
    <3> HIDE DEF k
    <3>4. /\ IsTransfer(dt') /\ SameWay(dt, dt') /\ dt'.FIFO_In = k /\ dt'.InBufCounter = dt.InBufCounter
          /\ dt'.InBufOffs = dt.InBufOffs /\ dt'.CurBufIndex = dt.CurBufIndex
      BY <1>2, <3>2, <3>3 DEF IsTransfer, SameWay
    <3>5. Transferring(dt', asked, pool.Data)
      BY <1>1, <3>2, <3>4 DEF Transferring, OfToc, OfSectors, SameWay
    <3>6. KeptBy(dt') = KeptBy(dt)
      BY <3>4 DEF KeptBy, SameWay
    <3> QED BY <1>1, <2>1, <3>5, <3>6 DEF StoreInv, Sorted
  <2> QED BY <2>2, <2>3
<1>5. CASE WriteWord
  <2> DEFINE b == dt.BufList[dt.CurBufIndex]
             C == [pool EXCEPT !.Data[b] = Written]
  <2>1. pool' = C /\ dt' = w /\ dt.InBufCounter > 0 /\ dt.Writing
    BY <1>5 DEF WriteWord, w
  <2>2. Shape(C)
    BY <1>1 DEF Shape
  <2>3. Sorted(pool, dt) => Sorted(C, dt)
    <3>1. SUFFICES ASSUME NEW L, Filed(pool, L, RangeOf(KeptBy(dt)))
                   PROVE  Filed(C, L, RangeOf(KeptBy(dt)))
      BY DEF Sorted
    <3> HIDE DEF b
    <3> QED BY <3>1, DataLemma
  <2> HIDE DEF C, b
  <2>4. KeptBy(dt') = KeptBy(dt)
    BY <1>3, <2>1 DEF KeptBy, SameWay
  <2>5. Transferring(w, asked, pool.Data) /\ w.Writing
    BY <1>3, <2>1 DEF SameWay
  <2>6. Transferring(w, asked, C.Data)
    BY <2>5 DEF Transferring, OfToc, OfSectors
  <2> QED BY <1>1, <2>1, <2>2, <2>3, <2>4, <2>6 DEF StoreInv, Sorted
<1> QED BY <1>4, <1>5 DEF TransferWord

-----------------------------------------------------------------------------
(* The commands                                                              *)

\* Commands that begin a transfer, end one, or take sectors from a partition.
LEMMA GetTocStored ==
  ASSUME Stored(pool, dt, asked), NEW c, GetToc(c), ~ dt.Active
  PROVE  Stored(pool', dt', asked')
<1>1. /\ UNCHANGED pool /\ asked' = <<None>>
      /\ dt' = [NewTransfer(<<Toc>>, FALSE) EXCEPT !.InBufCounter = TocWords]
  BY DEF GetToc
<1>2. <<Toc>> \in Seq(Bufs \cup {Toc}) /\ Len(<<Toc>>) = 1 /\ 0 \in Filters /\ Prefill \in Nat
  BY SelectorAssumption, CDBlockAssumption DEF Filters
<1>3. dt' = [Active |-> TRUE, Writing |-> FALSE, NeedBufFree |-> FALSE, CurBufIndex |-> 1,
             BufList |-> <<Toc>>, InBufOffs |-> 0, InBufCounter |-> 2, FIFO_In |-> 0, FNum |-> 0]
  BY <1>1 DEF NewTransfer, NoTransfer, TocWords
<1>4. /\ IsTransfer(dt') /\ dt'.FIFO_In = 0 /\ dt'.CurBufIndex = 1 /\ dt'.BufList = <<Toc>>
      /\ OfToc(dt', asked')
  <2>1. IsTransfer(dt')
    BY <1>2, <1>3 DEF IsTransfer
  <2>2. dt'.FIFO_In = 0 /\ dt'.CurBufIndex = 1 /\ dt'.BufList = <<Toc>>
    BY <1>3
  <2>3. ~ dt'.Writing /\ ~ dt'.NeedBufFree
    BY <1>3
  <2> QED BY <1>1, <2>1, <2>2, <2>3 DEF OfToc
<1>5. Transferring(dt', asked', pool'.Data)
  BY <1>2, <1>4 DEF Transferring
<1>6. KeptBy(dt') = <<>> /\ KeptBy(dt) = <<>>
  BY <1>3 DEF KeptBy
<1> QED BY <1>1, <1>5, <1>6 DEF Stored, Sorted

LEMMA EndStored ==
  ASSUME Stored(pool, dt, asked), Connected, NEW c, EndDataXfer(c), dt.Active
  PROVE  Stored(pool', dt', asked')
<1>1. dt' = NoTransfer /\ asked' = <<>>
  BY DEF EndDataXfer
<1>2. Transferring(dt', asked', pool'.Data) /\ KeptBy(dt') = <<>>
  BY <1>1, NoTransferLemma
<1> DEFINE s == KeptBy(dt)
<1>3. s \in Seq(Bufs) /\ Once(s)
  BY KeptLemma DEF Stored
<1>4. PICK L : Filed(pool, L, RangeOf(s))
  BY DEF Stored, Sorted
<1>5. IsTransfer(dt)
  BY DEF Stored, Transferring
<1>6. CASE dt.Writing
  <2> DEFINE f == dt.FNum
             g == InputFreed(dt.FNum).false
  <2>1. s = dt.BufList /\ f \in Filters \cup {None} /\ Wired(g)
    BY <1>5, <1>6 DEF KeptBy, IsTransfer, InputFreed, Wired, Connected
  <2>2. pool' = Sifted(pool, g, f, s)
    BY <1>6, <2>1 DEF EndDataXfer, Sifted
  <2> HIDE DEF f, g, s
  <2>3. Keeps(pool, Sifted(pool, g, f, s), {})
    BY <1>3, <1>4, <2>1, FilterAllLemma DEF Connected
  <2>4. \E K : Filed(pool', K, {})
    BY <2>2, <2>3 DEF Keeps
  <2> QED BY <1>2, <2>4, NoneKept DEF Stored, Sorted
<1>7. CASE ~ dt.Writing /\ dt.NeedBufFree
  <2>1. s = dt.BufList
    BY <1>7 DEF KeptBy
  <2>2. pool' = FoldLeft(Buffer_Free, pool, s)
    BY <1>7, <2>1 DEF EndDataXfer
  <2> HIDE DEF s
  <2>3. \E K : Filed(pool', K, {})
    BY <1>3, <1>4, <2>2, FreeAllLemma
  <2> QED BY <1>2, <2>3, NoneKept DEF Stored, Sorted
<1>8. CASE ~ dt.Writing /\ ~ dt.NeedBufFree
  <2>1. s = <<>> /\ pool' = pool
    BY <1>8 DEF KeptBy, EndDataXfer
  <2> QED BY <1>2, <1>4, <2>1 DEF Stored, Sorted
<1> QED BY <1>6, <1>7, <1>8

SecCommands == {"GET_SECDATA", "GETDEL_SECDATA", "DEL_SECDATA", "COPY_SECDATA", "MOVE_SECDATA"}

\* What a command that names a part of a partition is about.
LEMMA NamedHere ==
  ASSUME NEW L, NEW U, Filed(pool, L, U), NEW c, Valid(c), c.op \in SecCommands, InRange(c)
  PROVE  /\ c.part \in Filters /\ Among(Named(c), L[c.part]) /\ Len(Named(c)) = NumSec(c)
         /\ NumSec(c) > 0
<1>1. c.part \in Filters /\ Whole(c.offs) /\ Whole(c.n)
  BY DEF Valid, SecCommands, Whole
<1>2. NumSec(c) > 0
  BY DEF InRange
<1> QED BY <1>1, <1>2, NamedLemma

\* A transfer of the sectors of list begins.
LEMMA NewTransferLemma ==
  ASSUME NEW list \in Seq(Bufs), Len(list) > 0, Once(list), NEW del \in BOOLEAN, NEW a, NEW data,
         a = [i \in DOMAIN list |-> data[list[i]]]
  PROVE  LET u == DT_ReadIntoFIFO(DT_SetIBOffsCount(NewTransfer(list, del)), Prefill)
         IN  Transferring(u, a, data) /\ u.Active /\ u.BufList = list /\ u.NeedBufFree = del /\ ~ u.Writing
<1> DEFINE t == NewTransfer(list, del)
           v == DT_SetIBOffsCount(t)
           w == Advance(v, Prefill)
           u == DT_ReadIntoFIFO(v, Prefill)
<1>0. Prefill \in Nat /\ SectorWords \in Nat
  BY CDBlockAssumption
<1>1. 0 \in Filters /\ Len(list) \in Nat /\ list \in Seq(Bufs \cup {Toc})
  BY SelectorAssumption DEF Filters
<1>2. t = [NoTransfer EXCEPT !.Active = TRUE, !.NeedBufFree = del, !.BufList = list]
  BY DEF NewTransfer
<1>2a. /\ IsTransfer(NoTransfer) /\ ~ NoTransfer.Writing /\ NoTransfer.FIFO_In = 0
       /\ NoTransfer.CurBufIndex = 1
  BY <1>1 DEF IsTransfer, NoTransfer
<1>3. /\ IsTransfer(t) /\ t.Active /\ ~ t.Writing /\ t.NeedBufFree = del /\ t.BufList = list
      /\ t.FIFO_In = 0 /\ t.CurBufIndex = 1
  <2> HIDE DEF t
  <2> QED BY <1>1, <1>2, <1>2a DEF IsTransfer
<1> HIDE DEF t
<1>4. /\ IsTransfer(v) /\ SameWay(t, v) /\ v.FIFO_In = t.FIFO_In /\ v.CurBufIndex = t.CurBufIndex
      /\ v.InBufOffs + v.InBufCounter = SectorWords /\ Prefill <= v.InBufCounter
  BY <1>3, OffsLemma
<1> HIDE DEF v
<1>5. v.Active /\ ~ v.Writing /\ v.NeedBufFree = del /\ v.BufList = list
  BY <1>3, <1>4 DEF SameWay
<1>6. OfSectors(v, a, data)
  BY <1>0, <1>1, <1>4, <1>5 DEF OfSectors
<1>7. Transferring(v, a, data)
  <2>1. v.FIFO_In <= Prefill + 1 /\ v.CurBufIndex <= Len(v.BufList)
    BY <1>0, <1>1, <1>3, <1>4, <1>5
  <2> QED BY <1>4, <1>6, <2>1 DEF Transferring
<1>8. Transferring(w, a, data) /\ SameWay(v, w) /\ w.FIFO_In = v.FIFO_In
  BY <1>0, <1>4, <1>5, <1>7, AdvanceLemma
<1>9. u = [w EXCEPT !.FIFO_In = @ + Prefill]
  BY DEF DT_ReadIntoFIFO
<1> HIDE DEF w, u
<1>10. IsTransfer(w) /\ w.FIFO_In = 0
  BY <1>3, <1>4, <1>8 DEF Transferring
<1>11. u = [w EXCEPT !.FIFO_In = Prefill]
  BY <1>0, <1>9, <1>10
<1>12. /\ IsTransfer(u) /\ SameWay(w, u) /\ u.FIFO_In = Prefill /\ u.InBufCounter = w.InBufCounter
       /\ u.InBufOffs = w.InBufOffs /\ u.CurBufIndex = w.CurBufIndex
  BY <1>0, <1>10, <1>11 DEF IsTransfer, SameWay
<1>13. Transferring(u, a, data)
  <2>1. Prefill <= Prefill + 1
    BY <1>0
  <2> QED BY <1>8, <1>12, <2>1 DEF Transferring, OfToc, OfSectors, SameWay
<1>14. u.Active /\ u.BufList = list /\ u.NeedBufFree = del /\ ~ u.Writing
  BY <1>5, <1>8, <1>12 DEF SameWay
<1> QED BY <1>13, <1>14 DEF u, v, t

LEMMA GetStored ==
  ASSUME Stored(pool, dt, asked), NEW c, Valid(c), GetSecData(c), ~ dt.Active, InRange(c),
         c.op \in {"GET_SECDATA", "GETDEL_SECDATA"}
  PROVE  Stored(pool', dt', asked')
<1> DEFINE list == Named(c)
           del == c.op = "GETDEL_SECDATA"
           p == c.part
<1>1. PICK L : Filed(pool, L, {})
  BY NothingKept
<1>2. p \in Filters /\ Among(list, L[p]) /\ Len(list) > 0
  <2>1. c.op \in SecCommands
    BY DEF SecCommands
  <2> QED BY <1>1, <2>1, NamedHere
<1>3. list \in Seq(Bufs) /\ Once(list)
  BY <1>2 DEF Among
<1>4. /\ dt' = DT_ReadIntoFIFO(DT_SetIBOffsCount(NewTransfer(list, del)), Prefill)
      /\ asked' = [i \in DOMAIN list |-> pool.Data[list[i]]]
      /\ pool' = IF del THEN Unlinked(pool, p, list) ELSE pool
  BY DEF GetSecData, Unlinked
<1> HIDE DEF list, del, p
<1>5. del \in BOOLEAN
  BY DEF del
<1>6. /\ Transferring(dt', asked', pool.Data) /\ dt'.Active /\ dt'.BufList = list
      /\ dt'.NeedBufFree = del /\ ~ dt'.Writing
  BY <1>2, <1>3, <1>4, <1>5, NewTransferLemma
<1>7. CASE del
  <2>1. KeptBy(dt') = list
    BY <1>6, <1>7 DEF KeptBy
  <2>2. Keeps(pool, Unlinked(pool, p, list), {} \cup RangeOf(list))
    BY <1>1, <1>2, UnlinkAllLemma
  <2>3. {} \cup RangeOf(list) = RangeOf(list)
    OBVIOUS
  <2> QED BY <1>4, <1>6, <1>7, <2>1, <2>2, <2>3 DEF Keeps, Stored, Sorted
<1>8. CASE ~ del
  <2>1. KeptBy(dt') = <<>>
    BY <1>6, <1>8 DEF KeptBy
  <2> QED BY <1>1, <1>4, <1>6, <1>8, <2>1, NoneKept DEF Stored, Sorted
<1> QED BY <1>7, <1>8

LEMMA DelStored ==
  ASSUME Stored(pool, dt, asked), NEW c, Valid(c), DelSecData(c), InRange(c), c.op = "DEL_SECDATA"
  PROVE  Stored(pool', dt', asked')
<1>1. PICK L : Filed(pool, L, RangeOf(KeptBy(dt)))
  BY DEF Stored, Sorted
<1>2. c.part \in Filters /\ Among(Named(c), L[c.part])
  <2>1. c.op \in SecCommands
    BY DEF SecCommands
  <2> QED BY <1>1, <2>1, NamedHere
<1>3. pool' = Deleted(pool, c.part, Named(c)) /\ UNCHANGED <<dt, asked>>
  BY DEF DelSecData, Deleted, dtVars
<1>4. Keeps(pool, pool', RangeOf(KeptBy(dt)))
  BY <1>1, <1>2, <1>3, DeleteAllLemma
<1> QED BY <1>3, <1>4, KeepsLemma

LEMMA PutStored ==
  ASSUME Stored(pool, dt, asked), NEW c, Valid(c), PutSecData(c), Possible(c), c.op = "PUT_SECDATA"
  PROVE  Stored(pool', dt', asked')
<1>1. ~ dt.Active /\ c.n > 0 /\ c.n <= pool.FreeBufferCount
  BY DEF Possible
<1>2. c.filter \in Filters /\ c.n \in Nat \cup {All}
  BY DEF Valid
<1> DEFINE n == c.n
           r == LentAll(pool, n)
           t == [NewTransfer(r.l, FALSE) EXCEPT !.Writing = TRUE, !.FNum = c.filter]
           u == DT_SetIBOffsCount(t)
<1>3. n \in Nat /\ n > 0 /\ n <= pool.FreeBufferCount
  BY <1>1, <1>2 DEF All
<1>4. pool' = r.B /\ dt' = u /\ asked' = [i \in 1 .. n |-> None]
  BY DEF PutSecData, LentAll
<1> HIDE DEF n, r
<1>5. Lent(pool, r, n)
  <2>1. \E L : Filed(pool, L, {})
    BY <1>1, NothingKept
  <2> QED BY <1>3, <2>1, LendLemma DEF r
<1>6. r.l \in Seq(Bufs) /\ Once(r.l) /\ Len(r.l) = n /\ \E K : Filed(r.B, K, RangeOf(r.l))
  BY <1>5 DEF Lent
<1>7. /\ IsTransfer(NoTransfer) /\ NoTransfer.FIFO_In = 0 /\ NoTransfer.CurBufIndex = 1
      /\ ~ NoTransfer.NeedBufFree
  <2>1. 0 \in Filters
    BY SelectorAssumption DEF Filters
  <2> QED BY <2>1 DEF IsTransfer, NoTransfer
<1>8. /\ IsTransfer(t) /\ t.Active /\ t.Writing /\ t.BufList = r.l /\ t.FIFO_In = 0 /\ t.CurBufIndex = 1
  <2>1. t = [[NoTransfer EXCEPT !.Active = TRUE, !.NeedBufFree = FALSE, !.BufList = r.l]
               EXCEPT !.Writing = TRUE, !.FNum = c.filter]
    BY DEF NewTransfer
  <2>2. r.l \in Seq(Bufs \cup {Toc})
    BY <1>6
  <2> HIDE DEF t
  <2> QED BY <1>2, <1>7, <2>1, <2>2 DEF IsTransfer
<1> HIDE DEF t
<1>9. /\ IsTransfer(u) /\ SameWay(t, u) /\ u.FIFO_In = t.FIFO_In /\ u.CurBufIndex = t.CurBufIndex
      /\ u.InBufOffs + u.InBufCounter = SectorWords
  BY <1>8, OffsLemma
<1> HIDE DEF u
<1>10. u.Active /\ u.Writing /\ u.BufList = r.l
  BY <1>8, <1>9 DEF SameWay
<1>11. Prefill \in Nat /\ SectorWords \in Nat
  BY CDBlockAssumption
<1>12. OfSectors(u, asked', pool'.Data)
  BY <1>4, <1>6, <1>9, <1>10, <1>11 DEF OfSectors
<1>13. u.FIFO_In <= Prefill + 1 /\ u.CurBufIndex <= Len(u.BufList)
  BY <1>3, <1>6, <1>8, <1>9, <1>10, <1>11
<1>14. Transferring(u, asked', pool'.Data)
  BY <1>9, <1>12, <1>13 DEF Transferring
<1>15. KeptBy(u) = r.l
  BY <1>10 DEF KeptBy
<1> QED BY <1>4, <1>6, <1>14, <1>15 DEF Stored, Sorted

LEMMA SendStored ==
  ASSUME Stored(pool, dt, asked), Connected, NEW c, Valid(c), CopyMoveSecData(c), Possible(c),
         c.op \in {"COPY_SECDATA", "MOVE_SECDATA"}
  PROVE  Stored(pool', dt', asked')
<1>1. ~ dt.Active /\ InRange(c) /\ (c.op = "COPY_SECDATA" => NumSec(c) <= pool.FreeBufferCount)
  BY DEF Possible
<1>2. c.part \in Filters /\ c.filter \in Filters /\ c.op \in SecCommands
  BY DEF Valid, SecCommands
<1>3. PICK L : Filed(pool, L, {})
  BY <1>1, NothingKept
<1>4. Among(Named(c), L[c.part]) /\ Len(Named(c)) = NumSec(c)
  BY <1>1, <1>2, <1>3, NamedHere
<1> DEFINE s == Named(c)
<1>5. pool' = SentOn(pool, c, s) /\ UNCHANGED <<dt, asked>>
  BY DEF CopyMoveSecData, SentOn, dtVars
<1> HIDE DEF s
<1>6. Among(s, L[c.part]) /\ Len(s) = NumSec(c) /\ s \in Seq(Bufs)
  BY <1>4 DEF s, Among
<1>7. \E K : Filed(SentOn(pool, c, s), K, {})
  <2>1. CASE c.op = "COPY_SECDATA"
    BY <1>1, <1>2, <1>3, <1>6, <2>1, CopyAllLemma DEF Connected
  <2>2. CASE c.op = "MOVE_SECDATA"
    <3>1. Keeps(pool, SentOn(pool, c, s), {})
      BY <1>2, <1>3, <1>6, <2>2, MoveAllLemma DEF Connected
    <3> QED BY <3>1 DEF Keeps
  <2> QED BY <2>1, <2>2
<1>8. KeptBy(dt) = <<>>
  BY <1>1 DEF KeptBy
<1>9. \A data : Transferring(dt, asked, data)
  BY <1>1 DEF Stored, Transferring
<1> QED BY <1>5, <1>7, <1>8, <1>9, NoneKept DEF Stored, Sorted

LEMMA ClearStored ==
  ASSUME NEW B, Stored(B, dt, asked), NEW p, p \in Filters
  PROVE  Stored(Partition_Clear(B, p), dt, asked)
<1>1. PICK L : Filed(B, L, RangeOf(KeptBy(dt)))
  BY DEF Stored, Sorted
<1>2. Keeps(B, Partition_Clear(B, p), RangeOf(KeptBy(dt)))
  BY <1>1, PartitionClearLemma
<1> QED BY <1>2, KeepsLemma

\* No command gets the buffers or a transfer out of order.
LEMMA CarryStored ==
  ASSUME Stored(pool, dt, asked), Connected, NEW c, Valid(c), (Carry(c) /\ Possible(c)) \/ Query(c)
  PROVE  Stored(pool', dt', asked')
<1>1. CASE UNCHANGED <<pool, dt, asked>>
  BY <1>1
<1>2. CASE Query(c)
  BY <1>1, <1>2 DEF Query, Rest, dtVars
<1>3. CASE Carry(c) /\ Possible(c)
  <2>1. CASE c.op = "GET_TOC" /\ GetToc(c)
    BY <1>3, <2>1, GetTocStored DEF Possible
  <2>2. CASE c.op = "END_DATAXFER" /\ EndDataXfer(c)
    BY <1>3, <2>2, EndStored DEF Possible
  <2>3. CASE c.op \in {"GET_SECDATA", "GETDEL_SECDATA"} /\ GetSecData(c)
    BY <1>3, <2>3, GetStored DEF Possible
  <2>4. CASE c.op = "DEL_SECDATA" /\ DelSecData(c)
    BY <1>3, <2>4, DelStored DEF Possible
  <2>5. CASE c.op = "PUT_SECDATA" /\ PutSecData(c)
    BY <1>3, <2>5, PutStored
  <2>6. CASE c.op \in {"COPY_SECDATA", "MOVE_SECDATA"} /\ CopyMoveSecData(c)
    BY <1>3, <2>6, SendStored
  <2>7. CASE c.op = "READ_FILE" /\ ReadFile(c)
    <3>1. c.part \in Filters
      BY <2>7 DEF Valid
    <3>2. pool' = Partition_Clear(pool, c.part) /\ UNCHANGED <<dt, asked>>
      BY <2>7 DEF ReadFile, dtVars
    <3> QED BY <3>1, <3>2, ClearStored
  <2>8. CASE c.op = "RESET_SEL" /\ c.flags = {} /\ ResetPartition(c)
    <3>1. c.part \in Filters
      BY <2>8 DEF Valid
    <3>2. pool' = Partition_Clear(pool, c.part) /\ UNCHANGED <<dt, asked>>
      BY <2>8 DEF ResetPartition, dtVars
    <3> QED BY <3>1, <3>2, ClearStored
  <2>9. CASE \/ Initialize(c) \/ DriveCommand(c) \/ AuthDevice(c) \/ SetCDDevConn(c) \/ SetFiltCond(c)
             \/ SetFiltConn(c) \/ ResetSel(c) \/ SetSecLen(c) \/ ChangeDir(c) \/ AbortFile(c)
    <3>1. UNCHANGED <<pool, dt, asked>>
      BY <2>9 DEF Initialize, DriveCommand, AuthDevice, SetCDDevConn, SetFiltCond, SetFiltConn,
                  ResetSel, SetSecLen, ChangeDir, AbortFile, dtVars
    <3> QED BY <1>1, <3>1
  <2> QED BY <1>3, <2>1, <2>2, <2>3, <2>4, <2>5, <2>6, <2>7, <2>8, <2>9 DEF Carry
<1> QED BY <1>2, <1>3

-----------------------------------------------------------------------------
(* What commands name, and where the file operations read from               *)

\* The file operation, and the partition that it reads from.
FlsTyped == fls \in [Active : BOOLEAN, DoAuth : BOOLEAN, Abort : BOOLEAN,
                     Phase : {"idle", "auth", "root", "dir"}, pnum : Filters, left : Nat]

\* The commands that are on their way to the loop are commands of the program.
CommandsTyped ==
  /\ program \in Programs /\ setup \in Seq(Commands)
  /\ CData \in Commands \cup {NoCommand} /\ cmd.CTR \in Commands \cup {NoCommand}

LEMMA ValidLemma == \A c \in Commands \cup {NoCommand} : Valid(c)
<1>1. Valid(NoCommand)
  BY DEF Valid, NoCommand
<1> QED BY <1>1, ProgramsAssumption

\* Commands connect filters there are.
LEMMA ConnectedCarry ==
  ASSUME Connected, NEW c, Valid(c), Carry(c) \/ Query(c)
  PROVE  Connected'
<1>1. CASE c.op = "SET_CDDEVCONN" /\ SetCDDevConn(c)
  <2>1. c.filter \in Filters \cup {None}
    BY <1>1 DEF Valid
  <2> QED BY <1>1, <2>1 DEF SetCDDevConn, SetCDDeviceConn, Connected, Wired
<1>2. CASE c.op = "SET_FILTCONN" /\ SetFiltConn(c)
  <2>1. /\ c.filter \in Filters
        /\ "true" \in DOMAIN c => c.true \in Filters \cup {None}
        /\ "false" \in DOMAIN c => c.false \in Filters \cup {None}
    BY <1>2 DEF Valid
  <2>2. Wired(TrueConn')
    BY <1>2, <2>1 DEF SetFiltConn, Connected, Wired
  <2>3. Wired(FalseConn') /\ CDDevConn' \in Filters \cup {None}
    BY <1>2, <2>1 DEF SetFiltConn, Filter_SetFalseConn, InputFreed, Connected, Wired
  <2> QED BY <2>2, <2>3 DEF Connected
<1>3. CASE EndDataXfer(c)
  <2>1. CASE dt.Writing
    BY <1>3, <2>1 DEF EndDataXfer, Filter_DisconnectInput, InputFreed, Connected, Wired
  <2>2. CASE ~ dt.Writing
    BY <1>3, <2>2 DEF EndDataXfer, Connected
  <2> QED BY <2>1, <2>2
<1>4. CASE PutSecData(c) \/ CopyMoveSecData(c)
  BY <1>4 DEF PutSecData, CopyMoveSecData, Filter_DisconnectInput, InputFreed, Connected, Wired
<1>5. CASE c.op = "READ_FILE" /\ ReadFile(c)
  <2>1. c.part \in Filters
    BY <1>5 DEF Valid
  <2> QED BY <1>5, <2>1 DEF ReadFile, ConnectDriveTo, Connected, Wired
<1>6. CASE UNCHANGED <<CDDevConn, TrueConn, FalseConn>>
  BY <1>6 DEF Connected
<1>7. CASE \/ Query(c) \/ GetToc(c) \/ Initialize(c) \/ DriveCommand(c) \/ AuthDevice(c) \/ SetFiltCond(c)
           \/ ResetPartition(c) \/ ResetSel(c) \/ SetSecLen(c) \/ GetSecData(c) \/ DelSecData(c)
           \/ ChangeDir(c) \/ AbortFile(c)
  <2>1. UNCHANGED <<CDDevConn, TrueConn, FalseConn>>
    BY <1>7 DEF Query, Rest, connVars, GetToc, Initialize, DriveCommand, AuthDevice, SetFiltCond,
                ResetPartition, ResetSel, SetSecLen, GetSecData, DelSecData, ChangeDir, AbortFile
  <2> QED BY <1>6, <2>1
<1> QED BY <1>1, <1>2, <1>3, <1>4, <1>5, <1>7 DEF Carry

\* So do the file operations.
LEMMA ConnectedFLS ==
  ASSUME Connected, FlsTyped, FLS_Run
  PROVE  Connected'
<1>0. fls.pnum \in Filters
  BY DEF FlsTyped
<1>1. CASE AuthStart \/ DirStart
  BY <1>0, <1>1 DEF AuthStart, DirStart, ConnectDriveTo, Connected, Wired
<1>2. CASE AuthEnd
  BY <1>2 DEF AuthEnd, SetCDDeviceConn, Connected, Wired
<1>3. CASE FlsAbort \/ RootRead \/ DirRead
  BY <1>3 DEF FlsAbort, RootRead, DirRead, connVars, Connected
<1> QED BY <1>1, <1>2, <1>3 DEF FLS_Run

\* A command that begins a file operation names a partition there is.
LEMMA FlsTypedCarry ==
  ASSUME FlsTyped, NEW c, Valid(c), Carry(c) \/ Query(c)
  PROVE  FlsTyped'
<1>1. CASE c.op = "AUTH_DEVICE" /\ AuthDevice(c)
  <2>1. c.part \in Filters
    BY <1>1 DEF Valid
  <2>2. fls' = [fls EXCEPT !.pnum = c.part, !.DoAuth = TRUE, !.Active = TRUE]
    BY <1>1 DEF AuthDevice
  <2> QED BY <2>1, <2>2 DEF FlsTyped
<1>2. CASE c.op \in {"CHANGE_DIR", "READ_DIR"} /\ ChangeDir(c)
  <2>1. c.part \in Filters
    BY <1>2 DEF Valid
  <2>2. UNCHANGED fls \/ fls' = [fls EXCEPT !.pnum = c.part, !.DoAuth = FALSE, !.Active = TRUE]
    BY <1>2 DEF ChangeDir
  <2> QED BY <2>1, <2>2 DEF FlsTyped
<1>3. CASE AbortFile(c)
  BY <1>3 DEF AbortFile, FlsTyped
<1>4. CASE UNCHANGED fls
  BY <1>4 DEF FlsTyped
<1> QED
  BY <1>1, <1>2, <1>3, <1>4
  DEF Carry, Query, Rest, fileVars, flsVars, GetToc, Initialize, EndDataXfer, DriveCommand,
      SetCDDevConn, SetFiltCond, SetFiltConn, ResetPartition, ResetSel, SetSecLen, GetSecData,
      DelSecData, PutSecData, CopyMoveSecData, ReadFile

LEMMA NoFileTyped == ASSUME NEW p \in Filters PROVE
   [NoFile EXCEPT !.pnum = p] \in [Active : BOOLEAN, DoAuth : BOOLEAN, Abort : BOOLEAN,
                     Phase : {"idle", "auth", "root", "dir"}, pnum : Filters, left : Nat]
BY DEF NoFile

\* And the operation goes on reading from it.
LEMMA FlsTypedFLS ==
  ASSUME Sorted(pool, dt), FlsTyped, FLS_Run
  PROVE  FlsTyped'
<1>0. fls.pnum \in Filters /\ fls.left \in Nat /\ DirSectors \in Nat
  BY CDBlockAssumption DEF FlsTyped
<1>1. CASE Finished
  BY <1>0, <1>1, NoFileTyped DEF Finished, FlsTyped
<1>2. CASE StillRunning("auth") \/ StillRunning("root")
  BY <1>2 DEF StillRunning, FlsTyped
<1>3. CASE fls' = [fls EXCEPT !.Phase = "dir", !.left = DirSectors]
  BY <1>0, <1>3 DEF FlsTyped
<1>4. CASE DirRead
  <2> DEFINE m == pool.Count[fls.pnum]
             n == IF m < fls.left THEN m ELSE fls.left
  <2>1. m \in Nat
    <3>1. PICK L : Filed(pool, L, RangeOf(KeptBy(dt)))
      BY DEF Sorted
    <3> QED BY <1>0, <3>1, FiledList, PartPlaces DEF Filed, Ends
  <2>2. CASE n < fls.left
    <3>1. fls' = [fls EXCEPT !.left = @ - n]
      BY <1>4, <2>2 DEF DirRead
    <3>2. fls.left - n \in Nat
      BY <1>0, <2>1, <2>2
    <3> HIDE DEF n, m
    <3> QED BY <3>1, <3>2 DEF FlsTyped
  <2>3. CASE ~ (n < fls.left)
    BY <1>1, <1>4, <2>3 DEF DirRead
  <2> QED BY <2>2, <2>3
<1>5. CASE UNCHANGED fls
  BY <1>5 DEF FlsTyped
<1> QED BY <1>1, <1>2, <1>3, <1>4, <1>5
        DEF FLS_Run, FlsAbort, AuthStart, AuthEnd, DirStart, RootRead, ReadDirStart

\* Sectors that a file operation reads are freed.
LEMMA GrabbedStored ==
  ASSUME Stored(pool, dt, asked), FlsTyped, NEW n \in Nat,
         pool.Count[fls.pnum] > 0, n <= pool.Count[fls.pnum]
  PROVE  Stored(Grabbed(n).B, dt, asked)
<1> DEFINE p == fls.pnum
           s == From(pool, pool.FirstBuf[p], n)
           C == Deleted(pool, p, s)
<1>1. p \in Filters
  BY DEF FlsTyped
<1>2. PICK L : Filed(pool, L, RangeOf(KeptBy(dt)))
  BY DEF Stored, Sorted
<1>3. Among(s, L[p])
  BY <1>1, <1>2, FirstsLemma
<1>4. Grabbed(n).B = C
  BY DEF Grabbed, Deleted
<1> HIDE DEF s, p
<1>5. Keeps(pool, C, RangeOf(KeptBy(dt)))
  BY <1>1, <1>2, <1>3, DeleteAllLemma
<1> QED BY <1>4, <1>5, KeepsLemma

\* Nor do the file operations, which take sectors off a partition.
LEMMA FLSStored ==
  ASSUME Stored(pool, dt, asked), FlsTyped, FLS_Run
  PROVE  Stored(pool', dt', asked')
<1> DEFINE p == fls.pnum
           m == pool.Count[p]
<1>0. p \in Filters /\ fls.left \in Nat /\ UNCHANGED <<dt, asked>>
  BY DEF FlsTyped, FLS_Run, dtVars
<1>1. m \in Nat
  <2>1. PICK L : Filed(pool, L, RangeOf(KeptBy(dt)))
    BY DEF Stored, Sorted
  <2> QED BY <1>0, <2>1, FiledList, PartPlaces DEF Filed, Ends
<1>2. CASE UNCHANGED pool
  BY <1>0, <1>2
<1>3. CASE pool' = Partition_Clear(pool, p)
  BY <1>0, <1>3, ClearStored
<1>4. CASE m > 0 /\ pool' \in {Grabbed(1).B, Partition_Clear(Grabbed(1).B, p)}
  <2>1. Stored(Grabbed(1).B, dt, asked)
    <3>1. 1 \in Nat /\ 1 <= m
      BY <1>1, <1>4
    <3> QED BY <1>4, <3>1, GrabbedStored
  <2> QED BY <1>0, <1>4, <2>1, ClearStored
<1>5. CASE DirRead
  <2> DEFINE n == IF m < fls.left THEN m ELSE fls.left
  <2>1. n \in Nat /\ n <= m /\ m > 0
    BY <1>0, <1>1, <1>5 DEF DirRead
  <2>2. pool' = Grabbed(n).B \/ pool' = Partition_Clear(Grabbed(n).B, p)
    BY <1>5 DEF DirRead
  <2> HIDE DEF n
  <2>3. Stored(Grabbed(n).B, dt, asked)
    BY <2>1, GrabbedStored
  <2> QED BY <1>0, <2>2, <2>3, ClearStored
<1>6. CASE AuthEnd \/ RootRead
  BY <1>4, <1>6 DEF AuthEnd, RootRead, ReadDirStart
<1>7. CASE FlsAbort \/ AuthStart \/ DirStart
  BY <1>2, <1>3, <1>7 DEF FlsAbort, AuthStart, DirStart, ReadDirStart
<1> QED BY <1>5, <1>6, <1>7 DEF FLS_Run

-----------------------------------------------------------------------------
(* BuffersAccounted from the lists in order                                  *)

\* The lists in the order in which they are counted: those of the buffers that
\* are free, those that the transfer keeps (K), and those of the partitions.
AllLists(L, K) == <<L[None], K>> \o [i \in 1 .. NumFilters |-> L[i - 1]]

\* Where in that order the list of x is.
PlaceNumber(x) == IF x = None THEN 1 ELSE x + 3

\* Two sequences joined.
LEMMA JoinLemma ==
  ASSUME NEW S, NEW s \in Seq(S), NEW t \in Seq(S)
  PROVE  /\ DOMAIN (s \o t) = 1 .. (Len(s) + Len(t))
         /\ \A k \in 1 .. (Len(s) + Len(t)) :
              (s \o t)[k] = IF k <= Len(s) THEN s[k] ELSE t[k - Len(s)]
OBVIOUS

LEMMA AllListsLemma ==
  ASSUME NEW L \in [Places -> Seq(Bufs)], NEW K \in Seq(Bufs)
  PROVE  /\ DOMAIN AllLists(L, K) = 1 .. (NumFilters + 2)
         /\ AllLists(L, K)[2] = K
         /\ \A x \in Places : /\ PlaceNumber(x) \in 1 .. (NumFilters + 2)
                              /\ AllLists(L, K)[PlaceNumber(x)] = L[x]
         /\ \A k \in 1 .. (NumFilters + 2) : k = 2 \/ \E x \in Places : k = PlaceNumber(x)
<1> DEFINE s == <<L[None], K>>
           t == [i \in 1 .. NumFilters |-> L[i - 1]]
<1>0. NumFilters \in Nat
  BY SelectorAssumption
<1>1. \A i \in 1 .. NumFilters : i - 1 \in Filters /\ i - 1 \in Places /\ t[i] = L[i - 1]
  BY <1>0 DEF Filters, Places
<1>2. t \in Seq(Seq(Bufs)) /\ Len(t) = NumFilters
  <2>1. t \in [1 .. NumFilters -> Seq(Bufs)]
    BY <1>1
  <2> HIDE DEF t
  <2> QED BY <1>0, <2>1
<1>3. s \in Seq(Seq(Bufs)) /\ Len(s) = 2 /\ s[1] = L[None] /\ s[2] = K
  BY PartPlaces
<1> HIDE DEF s, t
<1>j. /\ DOMAIN (s \o t) = 1 .. (2 + NumFilters)
      /\ \A k \in 1 .. (2 + NumFilters) : (s \o t)[k] = IF k <= 2 THEN s[k] ELSE t[k - 2]
  <2> DEFINE S == Seq(Bufs)
  <2>1. s \in Seq(S) /\ t \in Seq(S)
    BY <1>2, <1>3
  <2> HIDE DEF S
  <2>2. /\ DOMAIN (s \o t) = 1 .. (Len(s) + Len(t))
        /\ \A k \in 1 .. (Len(s) + Len(t)) :
              (s \o t)[k] = IF k <= Len(s) THEN s[k] ELSE t[k - Len(s)]
    BY ONLY <2>1, JoinLemma
  <2> QED BY <1>2, <1>3, <2>2
<1> DEFINE R == s \o t
<1> HIDE DEF R
<1>4. DOMAIN R = 1 .. (NumFilters + 2)
  BY <1>0, <1>j DEF R
<1>5. \A k \in 1 .. (NumFilters + 2) : R[k] = IF k <= 2 THEN s[k] ELSE t[k - 2]
  BY <1>0, <1>j DEF R
<1>6. 1 \in 1 .. (NumFilters + 2) /\ 2 \in 1 .. (NumFilters + 2)
  BY <1>0
<1>7. R[2] = K
  BY <1>3, <1>5, <1>6
<1>8. ASSUME NEW x \in Places
      PROVE  PlaceNumber(x) \in 1 .. (NumFilters + 2) /\ R[PlaceNumber(x)] = L[x]
  <2>1. CASE x = None
    BY <1>3, <1>5, <1>6, <2>1 DEF PlaceNumber
  <2>2. CASE x # None
    <3>1. x \in 0 .. (NumFilters - 1) /\ PlaceNumber(x) = x + 3
      BY <2>2 DEF Places, Filters, PlaceNumber
    <3>2. /\ x + 3 \in 1 .. (NumFilters + 2) /\ ~ (x + 3 <= 2) /\ (x + 3) - 2 = x + 1
          /\ x + 1 \in 1 .. NumFilters /\ (x + 1) - 1 = x
      BY <1>0, <3>1
    <3>3. R[x + 3] = t[x + 1]
      BY <1>5, <3>2
    <3> QED BY <1>1, <3>1, <3>2, <3>3
  <2> QED BY <2>1, <2>2
<1>9. ASSUME NEW k \in 1 .. (NumFilters + 2), k # 2
      PROVE  \E x \in Places : k = PlaceNumber(x)
  <2>1. CASE k = 1
    BY <2>1, PartPlaces DEF PlaceNumber
  <2>2. CASE k # 1
    <3>1. k - 3 \in Filters /\ k = (k - 3) + 3
      BY <1>0, <1>9, <2>2 DEF Filters
    <3>2. k - 3 # None /\ k - 3 \in Places
      BY <3>1, BufsLemma, PartPlaces
    <3> QED BY <3>1, <3>2 DEF PlaceNumber
  <2> QED BY <2>1, <2>2
<1> QED BY <1>4, <1>7, <1>8, <1>9 DEF AllLists, R, s, t

LEMMA PlaceNumbers ==
  \A x, y \in Places : PlaceNumber(x) # 2 /\ (PlaceNumber(x) = PlaceNumber(y) => x = y)
BY SelectorAssumption DEF Places, Filters, None, PlaceNumber

\* The places of b in the lists of R.
At(R, b) == {at \in (DOMAIN R) \X (1 .. NumBuffers) :
               /\ at[2] \in DOMAIN R[at[1]]
               /\ R[at[1]][at[2]] = b}

\* Every buffer has one place in the lists.
LEMMA OncePlaced ==
  ASSUME NEW B, NEW L, NEW K \in Seq(Bufs), Once(K), Filed(B, L, RangeOf(K)), NEW b \in Bufs
  PROVE  Cardinality(At(AllLists(L, K), b)) = 1
<1> DEFINE R == AllLists(L, K)
<1>1. L \in [Places -> Seq(Bufs)] /\ OneEach(L, RangeOf(K)) /\ NumFilters \in Nat /\ NumBuffers \in Nat
  BY SelectorAssumption DEF Filed, Chains
<1>2. /\ DOMAIN R = 1 .. (NumFilters + 2) /\ R[2] = K /\ 2 \in DOMAIN R
      /\ \A x \in Places : PlaceNumber(x) \in DOMAIN R /\ R[PlaceNumber(x)] = L[x]
      /\ \A k \in DOMAIN R : k = 2 \/ \E x \in Places : k = PlaceNumber(x)
  BY <1>1, AllListsLemma
<1> HIDE DEF R
<1>3. ASSUME NEW k \in DOMAIN R
      PROVE  DOMAIN R[k] = 1 .. Len(R[k]) /\ Len(R[k]) \in Nat /\ Len(R[k]) <= NumBuffers
  <2>1. CASE k = 2
    BY <1>2, <2>1, ShortLemma DEF Once
  <2>2. CASE k # 2
    <3>1. PICK x \in Places : k = PlaceNumber(x)
      BY <1>2, <2>2
    <3>2. R[k] = L[x] /\ L[x] \in Seq(Bufs)
      BY <1>1, <1>2, <3>1
    <3> QED BY <3>2, FiledShort
  <2> QED BY <2>1, <2>2
<1>4. PICK k \in DOMAIN R : \E i \in 1 .. Len(R[k]) : R[k][i] = b
  <2>1. CASE b \in RangeOf(K)
    BY <1>2, <2>1 DEF RangeOf
  <2>2. CASE b \notin RangeOf(K)
    <3>1. PICK x \in Places : \E i \in 1 .. Len(L[x]) : L[x][i] = b
      BY <1>1, <2>2 DEF OneEach
    <3> QED BY <1>2, <3>1
  <2> QED BY <2>1, <2>2
<1>5. PICK i \in 1 .. Len(R[k]) : R[k][i] = b
  BY <1>4
<1>6. ASSUME NEW l \in DOMAIN R, NEW j \in 1 .. Len(R[l]), R[l][j] = b
      PROVE  l = k /\ j = i
  <2>1. CASE l = 2 /\ k = 2
    BY <1>2, <1>5, <1>6, <2>1 DEF Once
  <2>2. CASE l # 2 /\ k # 2
    <3>1. PICK x, y \in Places : l = PlaceNumber(x) /\ k = PlaceNumber(y)
      BY <1>2, <2>2
    <3>2. R[l] = L[x] /\ R[k] = L[y]
      BY <1>2, <3>1
    <3>3. x = y /\ j = i
      BY <1>1, <1>5, <1>6, <3>2 DEF OneEach
    <3> QED BY <3>1, <3>3
  <2>3. ASSUME NEW m \in DOMAIN R, NEW h \in 1 .. Len(K), NEW g \in 1 .. Len(R[m]), m # 2,
               K[h] = b, R[m][g] = b
        PROVE  FALSE
    <3>1. PICK x \in Places : m = PlaceNumber(x)
      BY <1>2, <2>3
    <3>2. R[m] = L[x] /\ b \in RangeOf(K)
      BY <1>2, <2>3, <3>1 DEF RangeOf
    <3>3. L[x][g] = b /\ g \in 1 .. Len(L[x])
      BY <2>3, <3>2
    <3> QED BY <1>1, <3>2, <3>3 DEF OneEach
  <2>4. CASE l = 2 /\ k # 2
    BY <1>2, <1>5, <1>6, <2>3, <2>4
  <2>5. CASE l # 2 /\ k = 2
    BY <1>2, <1>5, <1>6, <2>3, <2>5
  <2> QED BY <2>1, <2>2, <2>4, <2>5
<1>7. At(R, b) = {<<k, i>>}
  <2>1. i \in 1 .. NumBuffers /\ i \in DOMAIN R[k]
    BY <1>1, <1>3, <1>5
  <2>2. <<k, i>> \in At(R, b)
    BY <1>5, <2>1 DEF At
  <2>3. ASSUME NEW at \in At(R, b) PROVE at = <<k, i>>
    <3>1. /\ at \in (DOMAIN R) \X (1 .. NumBuffers) /\ at[2] \in DOMAIN R[at[1]]
          /\ R[at[1]][at[2]] = b
      BY DEF At
    <3>2. at[1] \in DOMAIN R /\ at = <<at[1], at[2]>>
      BY <3>1
    <3>3. at[2] \in 1 .. Len(R[at[1]])
      BY <1>3, <3>1, <3>2
    <3>4. at[1] = k /\ at[2] = i
      BY <1>6, <3>1, <3>2, <3>3
    <3> QED BY <3>2, <3>4
  <2> QED BY <2>2, <2>3
<1> QED BY <1>7, FS_Singleton DEF R

\* What the links lead through is well linked.
LEMMA FiledLinked ==
  ASSUME NEW B, NEW L, NEW U, Filed(B, L, U), NEW x \in Places
  PROVE  WellLinked(B, First(L[x]), Len(L[x]))
<1>1. ListFrom(B, First(L[x])) = L[x]
  BY ListFromLemma
<1>2. \A i \in 1 .. Len(L[x]) : B.Prev[L[x][i]] = IF i = 1 THEN None ELSE L[x][i - 1]
  BY FiledList
<1> QED BY <1>1, <1>2 DEF WellLinked

\* What is kept in order is accounted for.
LEMMA AccountedLemma ==
  ASSUME Transferring(dt, asked, pool.Data), cmd.phase # "reset" => Sorted(pool, dt)
  PROVE  BuffersAccounted
<1> SUFFICES ASSUME cmd.phase # "reset" PROVE BuffersAccounted
  BY DEF BuffersAccounted
<1>0. Held = KeptBy(dt) /\ Held \in Seq(Bufs) /\ Once(Held)
  BY KeptLemma DEF Held, KeptBy
<1>1. PICK L : Filed(pool, L, RangeOf(Held))
  BY <1>0 DEF Sorted
<1>2. /\ pool.FirstFreeBuf = First(L[None]) /\ pool.FreeBufferCount = Len(L[None])
      /\ \A p \in Filters : /\ pool.FirstBuf[p] = First(L[p]) /\ pool.LastBuf[p] = LastOf(L[p])
                            /\ pool.Count[p] = Len(L[p])
  BY <1>1 DEF Filed, Ends
<1>3. \A x \in Places : ListFrom(pool, First(L[x])) = L[x]
  BY <1>1, ListFromLemma
<1>4. WellLinked(pool, pool.FirstFreeBuf, pool.FreeBufferCount)
  BY <1>1, <1>2, FiledLinked, PartPlaces
<1>5. ASSUME NEW p \in Filters
      PROVE  /\ WellLinked(pool, pool.FirstBuf[p], pool.Count[p])
             /\ pool.LastBuf[p] = IF pool.Count[p] = 0 THEN None
                                  ELSE ListFrom(pool, pool.FirstBuf[p])[pool.Count[p]]
  <2>1. p \in Places
    BY PartPlaces
  <2>2. WellLinked(pool, pool.FirstBuf[p], pool.Count[p])
    BY <1>1, <1>2, <2>1, FiledLinked
  <2> QED BY <1>2, <1>3, <2>1, <2>2 DEF LastOf
<1> DEFINE lists == <<ListFrom(pool, pool.FirstFreeBuf), Held>>
                    \o [i \in 1 .. NumFilters |-> ListFrom(pool, pool.FirstBuf[i - 1])]
<1>6. lists = AllLists(L, Held)
  <2>1. ListFrom(pool, pool.FirstFreeBuf) = L[None]
    BY <1>2, <1>3, PartPlaces
  <2>2. ASSUME NEW i \in 1 .. NumFilters
        PROVE  ListFrom(pool, pool.FirstBuf[i - 1]) = L[i - 1]
    <3>1. i - 1 \in Filters /\ i - 1 \in Places
      BY SelectorAssumption DEF Filters, Places
    <3> QED BY <1>2, <1>3, <3>1
  <2>3. [i \in 1 .. NumFilters |-> ListFrom(pool, pool.FirstBuf[i - 1])] = [i \in 1 .. NumFilters |-> L[i - 1]]
    BY <2>2
  <2> QED BY <2>1, <2>3 DEF AllLists
<1> HIDE DEF lists
<1>7. ASSUME NEW b \in Bufs PROVE Cardinality(At(lists, b)) = 1
  BY <1>0, <1>1, <1>6, OncePlaced
<1>8. \A b \in Bufs :
        Cardinality({at \in (DOMAIN lists) \X (1 .. NumBuffers) :
                       /\ at[2] \in DOMAIN lists[at[1]]
                       /\ lists[at[1]][at[2]] = b}) = 1
  BY <1>7 DEF At
<1> QED BY <1>4, <1>5, <1>8 DEF BuffersAccounted, lists

-----------------------------------------------------------------------------
(* Every step keeps the buffers and the transfer in order                    *)

\* The inductive invariant.
BufferInv == Connected /\ FlsTyped /\ CommandsTyped /\ StoreInv

LEMMA GoesEmpty == ASSUME NEW phase, NEW tail, Goes(phase, tail) PROVE cmd'.CTR = NoCommand
BY DEF Goes

\* A command that has been answered is no longer there.
LEMMA CarryEmpty ==
  ASSUME NEW c, Carry(c) \/ Query(c)
  PROVE  cmd'.CTR = NoCommand
<1>1. \E tail : \E phase \in {"tail", "now", "init", "resetsel"} : Goes(phase, tail)
  BY DEF Carry, Query, GetToc, Initialize, EndDataXfer, DriveCommand, AuthDevice, SetCDDevConn,
         SetFiltCond, SetFiltConn, ResetPartition, ResetSel, SetSecLen, GetSecData, DelSecData,
         PutSecData, CopyMoveSecData, ChangeDir, ReadFile, AbortFile, Then, Now
<1> QED BY <1>1, GoesEmpty

\* The commands that are on their way are the program's own.
LEMMA CommandsStep ==
  ASSUME CommandsTyped, AnswerInv, [Next]_vars
  PROVE  CommandsTyped'
<1> USE DEF CommandsTyped
<1>1. CASE Latch
  BY <1>1 DEF Latch, AnswerInv
<1>2. CASE Exec
  BY <1>2, CarryEmpty DEF Exec
<1>3. CASE InitEnd \/ CommandEnd \/ SWResetEnd \/ FileEnd \/ Yield
  <2>1. cmd'.CTR = NoCommand
    BY <1>3, GoesEmpty DEF InitEnd, CommandEnd, SWResetEnd, FileEnd, Yield
  <2> QED BY <1>3, <2>1 DEF InitEnd, CommandEnd, SWResetEnd, FileEnd, Yield, hostVars
<1>4. CASE ResetEnd
  BY <1>4, GoesEmpty DEF ResetEnd
<1>5. CASE FLS_Run
  <2>1. Finished => cmd'.CTR = NoCommand
    BY GoesEmpty DEF Finished
  <2>2. Finished \/ UNCHANGED cmd
    BY <1>5 DEF FLS_Run, FlsAbort, AuthStart, AuthEnd, DirStart, RootRead, DirRead, ReadDirStart,
                StillRunning
  <2> QED BY <1>5, <2>1, <2>2 DEF FLS_Run, hostVars
<1>6. CASE WriteCommand
  <2>1. CASE setup = <<>>
    <3>1. CData' \in program.commands /\ program.commands \subseteq Commands
      BY <1>6, <2>1 DEF WriteCommand, Commands
    <3> QED BY <1>6, <2>1, <3>1 DEF WriteCommand
  <2>2. CASE setup # <<>>
    <3>1. Head(setup) \in Commands /\ Tail(setup) \in Seq(Commands)
      BY <2>2
    <3> QED BY <1>6, <2>2, <3>1 DEF WriteCommand
  <2> QED BY <2>1, <2>2
<1>7. CASE CDB_ResetCD
  BY <1>7, GoesEmpty DEF CDB_ResetCD, hostVars
<1>8. CASE UNCHANGED <<program, setup, CData, cmd>>
  BY <1>8
<1> QED
  BY <1>1, <1>2, <1>3, <1>4, <1>5, <1>6, <1>7, <1>8
  DEF Next, CommandLoop, DriveStep, PeriodicCheck, TransferWord, ReadAnswer, CDB_SetDisc, vars, hostVars

\* A reset of the selector makes connections that there are.
LEMMA ResetWired ==
  ASSUME Connected, NEW flags, SWReset \/ ResetSelected(flags)
  PROVE  Connected'
<1>1. CASE SWReset
  BY <1>1 DEF SWReset, Connected, Wired
<1>2. CASE ResetSelected(flags)
  BY <1>2 DEF ResetSelected, Connected, Wired
<1> QED BY <1>1, <1>2

\* The parts of the invariant that the lists rest on.
LEMMA ConnectedStep ==
  ASSUME Connected, FlsTyped, CommandsTyped, [Next]_vars
  PROVE  Connected'
<1>1. CASE Exec
  <2>1. Valid(cmd.CTR)
    BY ValidLemma DEF CommandsTyped
  <2> QED BY <1>1, <2>1, ConnectedCarry DEF Exec
<1>2. CASE CommandEnd
  BY <1>2, ResetWired DEF CommandEnd, selVars, Connected
<1>3. CASE ResetEnd
  BY <1>3, ResetWired DEF ResetEnd
<1>4. CASE FLS_Run
  BY <1>4, ConnectedFLS
<1>5. CASE UNCHANGED <<CDDevConn, TrueConn, FalseConn>>
  BY <1>5 DEF Connected
<1> QED
  BY <1>1, <1>2, <1>3, <1>4, <1>5
  DEF Next, CommandLoop, Latch, InitEnd, SWResetEnd, FileEnd, Yield, DriveStep, PeriodicCheck,
      TransferWord, WriteCommand, ReadAnswer, CDB_SetDisc, CDB_ResetCD, selVars, vars

LEMMA NoFileIs ==
  NoFile \in [Active : BOOLEAN, DoAuth : BOOLEAN, Abort : BOOLEAN,
              Phase : {"idle", "auth", "root", "dir"}, pnum : Filters, left : Nat]
BY SelectorAssumption DEF NoFile, Filters

LEMMA FlsTypedStep ==
  ASSUME FlsTyped, CommandsTyped, StoreInv, [Next]_vars
  PROVE  FlsTyped'
<1>1. CASE Exec
  <2>1. Valid(cmd.CTR)
    BY ValidLemma DEF CommandsTyped
  <2> QED BY <1>1, <2>1, FlsTypedCarry DEF Exec
<1>2. CASE CommandEnd
  BY <1>2, NoFileIs DEF CommandEnd, SWReset, FlsTyped
<1>3. CASE ResetEnd
  BY <1>3, NoFileIs DEF ResetEnd, SWReset, FlsTyped
<1>4. CASE FLS_Run
  BY <1>4, FlsTypedFLS DEF FLS_Run, StoreInv
<1>5. CASE UNCHANGED fls
  BY <1>5 DEF FlsTyped
<1> QED
  BY <1>1, <1>2, <1>3, <1>4, <1>5
  DEF Next, CommandLoop, Latch, InitEnd, SWResetEnd, FileEnd, Yield, DriveStep, EjectedStep, SeekStep,
      PlayStep, PauseStep, PeriodicCheck, TransferWord, WriteCommand, ReadAnswer, CDB_SetDisc,
      CDB_ResetCD, fileVars, flsVars, vars

\* To be in order after a step is enough, and so it is that nothing happened.
LEMMA StoredAfter ==
  ASSUME Stored(pool', dt', asked')
  PROVE  StoreInv'
BY StoredShape DEF Stored, Sorted, StoreInv

\* Nothing happens to the buffers, and no long reset ends.
LEMMA StoredAside ==
  ASSUME StoreInv, UNCHANGED <<pool, dt, asked>>, cmd.phase = "reset" => cmd'.phase = "reset"
  PROVE  StoreInv'
BY DEF StoreInv, Sorted

LEMMA StoreStep ==
  ASSUME BufferInv, AnswerInv, [Next]_vars
  PROVE  StoreInv'
<1>0. /\ Connected /\ FlsTyped /\ StoreInv /\ Valid(cmd.CTR) /\ Shape(pool)
      /\ cmd.phase # "reset" => Stored(pool, dt, asked)
  BY ValidLemma DEF BufferInv, CommandsTyped, StoreInv, Stored
<1>1. CASE UNCHANGED <<pool, dt, asked>> /\ (cmd.phase = "reset" => cmd'.phase = "reset")
  BY <1>0, <1>1, StoredAside
<1>2. CASE Exec
  BY <1>0, <1>2, CarryStored, StoredAfter DEF Exec
<1>3. CASE CommandEnd
  <2>1. Stored(pool, dt, asked)
    BY <1>0, <1>3 DEF CommandEnd
  <2>2. CASE AskedBeforeReset
    BY <1>1, <1>3, <2>2 DEF CommandEnd, selVars, dtVars
  <2>3. CASE ~ AskedBeforeReset /\ SWResetPending
    BY <1>0, <1>3, <2>3, SWResetLemma, StoredAfter DEF CommandEnd
  <2>4. CASE ~ AskedBeforeReset /\ ~ SWResetPending
    <3>1. /\ UNCHANGED <<dt, asked>>
          /\ pool' = IF "data" \in ResetSelPending THEN ClearAll(pool) ELSE pool
      BY <1>3, <2>4 DEF CommandEnd, dtVars
    <3>2. Keeps(pool, ClearAll(pool), RangeOf(KeptBy(dt)))
      BY <2>1, ClearAllLemma DEF Stored, Sorted
    <3>3. Stored(ClearAll(pool), dt, asked)
      BY <2>1, <3>2, KeepsLemma
    <3>4. Stored(pool', dt', asked')
      BY <2>1, <3>1, <3>3
    <3> QED BY <3>4, StoredAfter
  <2> QED BY <2>2, <2>3, <2>4
<1>4. CASE ResetEnd
  BY <1>0, <1>4, SWResetLemma, StoredAfter DEF ResetEnd
<1>5. CASE FLS_Run
  BY <1>0, <1>5, FLSStored, StoredAfter DEF FLS_Run
<1>6. CASE DriveStep
  <2>1. CASE PlayStep /\ ~ UNCHANGED <<pool, asked>>
    <3>1. /\ pool' = Deliver(pool, drive.buf) /\ asked' = StillAsked(pool.FirstFreeBuf)
          /\ pool.FreeBufferCount > 0 /\ UNCHANGED dt
      BY <1>6, <2>1 DEF PlayStep, DriveStep
    <3>2. cmd.phase # "reset"
      BY <1>6 DEF DriveStep, AnswerInv
    <3> QED BY <1>0, <3>1, <3>2, DeliverLemma, StoredAfter
  <2>2. CASE UNCHANGED <<pool, asked>>
    BY <1>1, <1>6, <2>2 DEF DriveStep
  <2> QED BY <1>6, <2>1, <2>2 DEF DriveStep
<1>7. CASE TransferWord
  BY <1>0, <1>7, TransferWordLemma
<1>8. CASE Latch \/ InitEnd \/ SWResetEnd \/ FileEnd \/ Yield
  BY <1>1, <1>8 DEF Latch, InitEnd, SWResetEnd, FileEnd, Yield, selVars, dtVars
<1>9. CASE PeriodicCheck \/ WriteCommand \/ ReadAnswer \/ CDB_SetDisc \/ UNCHANGED vars
  BY <1>1, <1>9 DEF PeriodicCheck, WriteCommand, ReadAnswer, CDB_SetDisc, selVars, dtVars, vars
<1>10. CASE CDB_ResetCD
  BY <1>1, <1>10 DEF CDB_ResetCD, selVars, dtVars
<1> QED
  BY <1>2, <1>3, <1>4, <1>5, <1>6, <1>7, <1>8, <1>9, <1>10 DEF Next, CommandLoop

LEMMA BufferStep ==
  ASSUME BufferInv, AnswerInv, [Next]_vars
  PROVE  BufferInv'
<1>1. Connected /\ FlsTyped /\ CommandsTyped /\ StoreInv
  BY DEF BufferInv
<1>2. Connected' /\ FlsTyped' /\ CommandsTyped'
  BY <1>1, ConnectedStep, FlsTypedStep, CommandsStep
<1> QED BY <1>2, StoreStep DEF BufferInv

LEMMA BufferInit == Init => BufferInv
<1> SUFFICES ASSUME Init PROVE BufferInv
  OBVIOUS
<1>1. 0 \in Filters
  BY SelectorAssumption DEF Filters
<1>2. Connected
  BY <1>1 DEF Init, Connected, Wired
<1>3. FlsTyped
  BY NoFileIs DEF Init, FlsTyped
<1>4. CommandsTyped
  <2>1. cmd.CTR = NoCommand
    BY DEF Init
  <2> QED BY <2>1, ProgramsAssumption DEF Init, CommandsTyped
<1>5. Shape(pool)
  <2>1. pool = [Prev |-> [b \in Bufs |-> 0], Next |-> [b \in Bufs |-> 0], FirstFreeBuf |-> 0,
                FreeBufferCount |-> 0, FirstBuf |-> [p \in Filters |-> 0],
                LastBuf |-> [p \in Filters |-> 0], Count |-> [p \in Filters |-> 0],
                Data |-> [b \in Bufs |-> Written]]
    BY DEF Init
  <2>2. 0 \in Bufs
    BY SelectorAssumption DEF Bufs
  <2> QED BY <2>1, <2>2 DEF Shape
<1>6. Transferring(dt, asked, pool.Data)
  BY NoTransferLemma DEF Init
<1>7. cmd.phase = "reset"
  BY DEF Init
<1> QED BY <1>2, <1>3, <1>4, <1>5, <1>6, <1>7 DEF BufferInv, StoreInv

\* The buffers are in order at all times.
LEMMA InOrder == Spec => []BufferInv
<1>1. ASSUME BufferInv, AnswerInv, Good(drive) /\ Told(drive), [Next]_vars
      PROVE  BufferInv' /\ AnswerInv'
  BY <1>1, BufferStep, AnswerStep
<1> QED BY <1>1, BufferInit, AnswerInit, PausesTold, PTL DEF Spec

\* No buffer is lost and none is in two places, and every list is linked both ways
\* and as long as its counter says, whatever the drive, the commands, the file
\* operations and the transfer do to them in turn (Buffer_Allocate, Buffer_Free,
\* Partition_LinkBuffer, Partition_UnlinkBuffer and their callers).
THEOREM BuffersStayAccounted == Spec => []BuffersAccounted
<1>1. BufferInv => BuffersAccounted
  BY AccountedLemma DEF BufferInv, StoreInv
<1> QED BY <1>1, InOrder, PTL

\* A transfer never leaves its buffers, and what it has still to read is what was
\* there when the program asked for it (the data transfer and every command and
\* sector that takes or gives a buffer meanwhile).
THEOREM TransfersSound == Spec => []TransferSound
<1>1. BufferInv => TransferSound
  BY IsSound DEF BufferInv, StoreInv
<1> QED BY <1>1, InOrder, PTL
===============================================================================
