--------------------------- MODULE CDInterface_MT ---------------------------
(***************************************************************************)
(* The multi-threaded disc interface, cdrom/CDInterface_MT.cpp.  The       *)
(* emulator thread asks for sectors; the read thread serves the requests,  *)
(* reads ahead of them, and publishes every sector in a ring of buffers.   *)
(*                                                                         *)
(* Each queue's critical section is one action: nothing inside it blocks   *)
(* except Cond_Wait.  SBMutex is a variable, because the code under it     *)
(* (a sector copied into the ring, a scan of the whole ring) is what it    *)
(* protects.                                                               *)
(***************************************************************************)
EXTENDS Integers, Sequences, FiniteSets

CONSTANTS LBA_Read_Minimum, LBA_Read_Maximum,
          Lbas,          \* the addresses the emulated system asks for
          max_ra,        \* furthest that read-ahead may run
          initial_ra,    \* sectors read on a seek
          speedmult_ra,  \* read-ahead granted per sequential request
          SBSize,        \* slots of the ring
          MaxPending,    \* model bound: requests queued at once
          NoData         \* a zeroed buffer

ASSUME LbaAssumption ==
  /\ LBA_Read_Minimum \in Int /\ LBA_Read_Maximum \in Int
  /\ LBA_Read_Minimum <= 0 /\ 0 <= LBA_Read_Maximum
  /\ Lbas \subseteq Int

\* The code's static_assert is stronger: max_ra < SBSize / 4.
ASSUME RingAssumption ==
  /\ max_ra \in Nat /\ SBSize \in Nat /\ max_ra < SBSize
  /\ initial_ra \in 1 .. (max_ra + 1)
  /\ speedmult_ra \in Nat \ {0}
  /\ MaxPending \in Nat

VARIABLES
  ReadThreadQueue,  \* messages to the read thread
  EmuThreadQueue,   \* messages to the emulator thread
  SectorBuffers, SBWritePos, SBMutex,
  ra_lba, ra_count, last_read_lba, Running,  \* of the read thread only
  tmpbuf,           \* the sector it has read and not yet published
  rpc,              \* where the read thread is
  epc,              \* where the emulator thread is
  lba,              \* the argument of the last ReadRawSector
  ret               \* what it returned, once it has

readvars == <<ra_lba, ra_count, last_read_lba, Running>>
ringvars == <<SectorBuffers, SBWritePos>>
vars == <<ReadThreadQueue, EmuThreadQueue, ringvars, SBMutex, readvars,
          tmpbuf, rpc, epc, lba, ret>>

Slots == 0 .. (SBSize - 1)
DIEDIEDIE == [message |-> "DIEDIEDIE"]
READ_SECTOR(l) == [message |-> "READ_SECTOR", lba |-> l]
InRange(l) == LBA_Read_Minimum <= l /\ l <= LBA_Read_Maximum

NoSector == [error |-> FALSE, data |-> NoData]
Failed == [ok |-> FALSE, data |-> NoData]
Blank == [valid |-> FALSE, error |-> FALSE, lba |-> 0, data |-> NoData]

Init ==
  /\ ReadThreadQueue = <<>> /\ EmuThreadQueue = <<>>
  /\ SectorBuffers = [i \in Slots |-> Blank] /\ SBWritePos = 0 /\ SBMutex = "free"
  /\ ra_lba = 0 /\ ra_count = 0 /\ last_read_lba = LBA_Read_Maximum + 1
  /\ Running = TRUE
  /\ tmpbuf = NoSector
  /\ rpc = "off" /\ epc = "new" /\ lba = 0
  /\ ret = Failed

-----------------------------------------------------------------------------
\* Mutant: a push nobody is told of.
SendToReaderUnsignalled(msg) ==
  ReadThreadQueue' = Append(ReadThreadQueue, msg) /\ UNCHANGED rpc

\* Queue.Write pushes and signals in one critical section; a thread in
\* Cond_Wait on that queue goes back to test the queue again.
SendToReader(msg) ==
  /\ ReadThreadQueue' = Append(ReadThreadQueue, msg)
  /\ rpc' = IF rpc = "qwait" THEN "loop" ELSE rpc

SendToEmu(msg) ==
  /\ EmuThreadQueue' = Append(EmuThreadQueue, msg)
  /\ epc' = IF epc = "bootwait" THEN "boot" ELSE epc

-----------------------------------------------------------------------------
\* The read thread: the table of contents first.
ReadTOC ==
  /\ rpc = "toc"
  /\ \/ SendToEmu("DONE") /\ rpc' = "loop"
     \/ SendToEmu("FATAL_ERROR") /\ rpc' = "done"
  /\ UNCHANGED <<ReadThreadQueue, ringvars, SBMutex, readvars, tmpbuf, lba, ret>>

\* Where a request for new_lba leaves read-ahead: where it reads, and how much.
ReadAhead(new_lba) ==
  LET how_far_ahead == ra_lba - new_lba
      room == 1 + max_ra - how_far_ahead
  IN  IF new_lba = last_read_lba + 1
      THEN [from |-> ra_lba,
            count |-> IF how_far_ahead > max_ra THEN ra_count + 1
                      ELSE IF speedmult_ra < room THEN speedmult_ra ELSE room]
      ELSE IF new_lba # last_read_lba
      THEN [from |-> new_lba, count |-> initial_ra]
      ELSE [from |-> ra_lba, count |-> ra_count]

\* Mutant: the last sector of the disc clipped too.
ContinueClipsLast(ra, run) ==
  LET count == IF ra.count # 0 /\ ra.from >= LBA_Read_Maximum THEN 0 ELSE ra.count
  IN  /\ ra_lba' = ra.from
      /\ ra_count' = count
      /\ rpc' = IF count # 0 THEN "fetch" ELSE IF run THEN "loop" ELSE "done"

\* The rest of an iteration: clip at the end of the disc, then read if there is
\* anything to read, or go round again, or leave the loop.
Continue(ra, run) ==
  LET count == IF ra.count # 0 /\ ra.from > LBA_Read_Maximum THEN 0 ELSE ra.count
  IN  /\ ra_lba' = ra.from
      /\ ra_count' = count
      /\ rpc' = IF count # 0 THEN "fetch" ELSE IF run THEN "loop" ELSE "done"

Dequeue ==
  /\ rpc = "loop" /\ ReadThreadQueue # <<>>
  /\ LET msg == Head(ReadThreadQueue) IN
       \/ /\ msg = DIEDIEDIE
          /\ Running' = FALSE
          /\ Continue([from |-> ra_lba, count |-> ra_count], FALSE)
          /\ UNCHANGED last_read_lba
       \/ /\ msg.message = "READ_SECTOR"
          /\ last_read_lba' = msg.lba
          /\ Continue(ReadAhead(msg.lba), Running)
          /\ UNCHANGED Running
  /\ ReadThreadQueue' = Tail(ReadThreadQueue)
  /\ UNCHANGED <<EmuThreadQueue, ringvars, SBMutex, tmpbuf, epc, lba, ret>>

\* An empty queue: block for a message only if there is nothing to read ahead.
QueueEmpty ==
  /\ rpc = "loop" /\ ReadThreadQueue = <<>>
  /\ \/ ra_count = 0 /\ rpc' = "qwait" /\ UNCHANGED <<ra_lba, ra_count>>
     \/ ra_count # 0 /\ Continue([from |-> ra_lba, count |-> ra_count], Running)
  /\ UNCHANGED <<ReadThreadQueue, EmuThreadQueue, ringvars, SBMutex,
                 last_read_lba, Running, tmpbuf, epc, lba, ret>>

SpuriousQueueWakeup ==
  /\ rpc = "qwait" /\ rpc' = "loop"
  /\ UNCHANGED <<ReadThreadQueue, EmuThreadQueue, ringvars, SBMutex, readvars,
                 tmpbuf, epc, lba, ret>>

\* Read_Raw_Sector, outside the lock; an image file may fail to be read.
ReadDisc ==
  /\ rpc = "fetch" /\ rpc' = "lock"
  /\ \/ tmpbuf' = [error |-> FALSE, data |-> ra_lba]
     \/ tmpbuf' = [error |-> TRUE, data |-> NoData]
  /\ UNCHANGED <<ReadThreadQueue, EmuThreadQueue, ringvars, SBMutex, readvars,
                 epc, lba, ret>>

\* Publishing takes two steps, so that a slot is seen half written by anyone
\* who looks without the mutex: first its address, then the rest.
LockAndName ==
  /\ rpc = "lock" /\ SBMutex = "free"
  /\ SBMutex' = "read" /\ rpc' = "copy"
  /\ SectorBuffers' = [SectorBuffers EXCEPT ![SBWritePos].lba = ra_lba]
  /\ UNCHANGED <<ReadThreadQueue, EmuThreadQueue, SBWritePos, readvars, tmpbuf,
                 epc, lba, ret>>

NextSlotUnwrapped(p) == p + 1             \* mutant
NextSlotShort(p) == (p + 1) % (SBSize - 1)  \* mutant: the last slot never used
NextSlot(p) == (p + 1) % SBSize

SignalNobody == UNCHANGED epc    \* mutant
SignalEmu == epc' = IF epc = "cwait" THEN "lock" ELSE epc

Publish ==
  /\ rpc = "copy"
  /\ SectorBuffers' = [SectorBuffers EXCEPT ![SBWritePos].data = tmpbuf.data,
                                            ![SBWritePos].valid = TRUE,
                                            ![SBWritePos].error = tmpbuf.error]
  /\ SBWritePos' = NextSlot(SBWritePos)
  /\ SignalEmu
  /\ SBMutex' = "free"
  /\ ra_lba' = ra_lba + 1 /\ ra_count' = ra_count - 1
  /\ rpc' = IF Running THEN "loop" ELSE "done"
  /\ tmpbuf' = NoSector  \* a local of the loop body
  /\ UNCHANGED <<ReadThreadQueue, EmuThreadQueue, last_read_lba, Running, lba, ret>>

ReadThread == \/ ReadTOC \/ Dequeue \/ QueueEmpty \/ ReadDisc \/ LockAndName
              \/ Publish

-----------------------------------------------------------------------------
\* The emulator thread: the constructor creates the read thread and waits for
\* its verdict on the table of contents.
Construct ==
  /\ epc = "new" /\ epc' = "boot" /\ rpc' = "toc"
  /\ UNCHANGED <<ReadThreadQueue, EmuThreadQueue, ringvars, SBMutex, readvars,
                 tmpbuf, lba, ret>>

\* Cleanup: tell the read thread to stop, then join it.
Cleanup == SendToReader(DIEDIEDIE) /\ epc' = "join"

AwaitTOC ==
  /\ epc = "boot"
  /\ \/ /\ EmuThreadQueue = <<>>
        /\ epc' = "bootwait"
        /\ UNCHANGED <<EmuThreadQueue, ReadThreadQueue, rpc>>
     \/ /\ EmuThreadQueue # <<>>
        /\ EmuThreadQueue' = Tail(EmuThreadQueue)
        /\ IF Head(EmuThreadQueue) = "FATAL_ERROR"
           THEN Cleanup
           ELSE epc' = "idle" /\ UNCHANGED <<ReadThreadQueue, rpc>>
  /\ UNCHANGED <<ringvars, SBMutex, readvars, tmpbuf, lba, ret>>

\* HintReadSector, which checks no bounds, and the hint_fullread of
\* ReadRawSectorPWOnly when the image serves the subchannel by itself.
HintReadSector(l) ==
  /\ epc = "idle" /\ Len(ReadThreadQueue) < MaxPending
  /\ SendToReader(READ_SECTOR(l))
  /\ UNCHANGED <<EmuThreadQueue, ringvars, SBMutex, readvars, tmpbuf, epc, lba, ret>>

\* ReadRawSector, and ReadRawSectorPWOnly when it has to read the whole sector.
ReadRawSector(l) ==
  /\ epc = "idle" /\ Len(ReadThreadQueue) < MaxPending
  /\ InRange(l)
  /\ SendToReader(READ_SECTOR(l))
  /\ lba' = l /\ epc' = "lock" /\ ret' = Failed
  /\ UNCHANGED <<EmuThreadQueue, ringvars, SBMutex, readvars, tmpbuf>>

ReadOutOfBounds(l) ==
  /\ epc = "idle" /\ ~ InRange(l)
  /\ lba' = l /\ ret' = Failed
  /\ UNCHANGED <<ReadThreadQueue, EmuThreadQueue, ringvars, SBMutex, readvars,
                 tmpbuf, rpc, epc>>

\* Mutant: the ring scanned without its mutex.
ScanUnlocked ==
  /\ epc = "lock" /\ SBMutex' = "emu" /\ epc' = "scan"
  /\ UNCHANGED <<ReadThreadQueue, EmuThreadQueue, ringvars, readvars, tmpbuf, rpc,
                 lba, ret>>

Lock ==
  /\ epc = "lock" /\ SBMutex = "free"
  /\ SBMutex' = "emu" /\ epc' = "scan"
  /\ UNCHANGED <<ReadThreadQueue, EmuThreadQueue, ringvars, readvars, tmpbuf, rpc,
                 lba, ret>>

Holding(l) == {i \in Slots : SectorBuffers[i].valid /\ SectorBuffers[i].lba = l}

\* The scan does not stop at a match: the highest slot that holds lba wins, which
\* need not be the newest.
Winner(i) == i \in Holding(lba) /\ \A j \in Holding(lba) : j <= i

Scan ==
  /\ epc = "scan" /\ SBMutex' = "free"
  /\ \/ \E i \in Slots :
          /\ Winner(i)
          /\ ret' = [ok |-> ~ SectorBuffers[i].error, data |-> SectorBuffers[i].data]
          /\ epc' = "idle"
     \/ Holding(lba) = {} /\ epc' = "cwait" /\ UNCHANGED ret
  /\ UNCHANGED <<ReadThreadQueue, EmuThreadQueue, ringvars, readvars, tmpbuf, rpc,
                 lba>>

SpuriousWakeup ==
  /\ \/ epc = "cwait" /\ epc' = "lock"
     \/ epc = "bootwait" /\ epc' = "boot"
  /\ UNCHANGED <<ReadThreadQueue, EmuThreadQueue, ringvars, SBMutex, readvars,
                 tmpbuf, rpc, lba, ret>>

Destroy ==
  /\ epc = "idle" /\ Cleanup
  /\ UNCHANGED <<EmuThreadQueue, ringvars, SBMutex, readvars, tmpbuf, lba, ret>>

Join ==
  /\ epc = "join" /\ rpc = "done" /\ epc' = "gone"
  /\ UNCHANGED <<ReadThreadQueue, EmuThreadQueue, ringvars, SBMutex, readvars,
                 tmpbuf, rpc, lba, ret>>

EmuCall == \/ Destroy
           \/ \E l \in Lbas : HintReadSector(l) \/ ReadRawSector(l) \/ ReadOutOfBounds(l)

EmuThread == Construct \/ AwaitTOC \/ Lock \/ Scan \/ Join

Next == ReadThread \/ EmuThread \/ EmuCall \/ SpuriousQueueWakeup \/ SpuriousWakeup

\* Both threads are scheduled, and the read thread gets SBMutex if it is free
\* again and again (without this an endless run of spurious wakeups, the emulator
\* thread scanning on each, could starve it).  The emulator is not obliged to
\* call, and nothing relies on spurious wakeups.
Spec == /\ Init /\ [][Next]_vars
        /\ WF_vars(ReadThread) /\ WF_vars(EmuThread) /\ SF_vars(LockAndName)

-----------------------------------------------------------------------------
Reading == {"lock", "scan", "cwait"}   \* a ReadRawSector is in progress
Fetching == {"fetch", "lock", "copy"}   \* a sector is on its way into the ring
\* The slot k before p in the ring.
Back(p, k) == IF k <= p THEN p - k ELSE p - k + SBSize

Data == Int \cup {NoData}
SectorBuffer == [valid : BOOLEAN, error : BOOLEAN, lba : Int, data : Data]
Message == {DIEDIEDIE} \cup {READ_SECTOR(l) : l \in Lbas}

TypeOK ==
  /\ ReadThreadQueue \in Seq(Message)
  /\ EmuThreadQueue \in Seq({"DONE", "FATAL_ERROR"})
  /\ SectorBuffers \in [Slots -> SectorBuffer]
  /\ SBWritePos \in Slots
  /\ SBMutex \in {"free", "read", "emu"}
  /\ ra_lba \in Int /\ ra_count \in Nat /\ last_read_lba \in Int
  /\ Running \in BOOLEAN
  /\ tmpbuf \in [error : BOOLEAN, data : Data]
  /\ rpc \in {"off", "toc", "loop", "qwait", "fetch", "lock", "copy", "done"}
  /\ epc \in {"new", "boot", "bootwait", "idle", "join", "gone"} \cup Reading
  /\ lba \in Int
  /\ ret \in [ok : BOOLEAN, data : Data]

\* Read-ahead never runs more than max_ra sectors past the sector that follows
\* the last request, however requests and hints are mixed: the branch of the code
\* that would let it grow further (ra_count++) is never what decides.
ReadAheadBounded == ra_lba + ra_count <= last_read_lba + max_ra + 1

\* While the emulator thread sleeps in Cond_Wait or is about to look, its sector
\* is in the ring, or being read, or asked for in the queue: a request is never
\* consumed without effect, and its sector is never overwritten by read-ahead
\* before it is taken.
RequestNotLost ==
  epc \in Reading => \/ Holding(lba) # {}
                     \/ \E i \in DOMAIN ReadThreadQueue : ReadThreadQueue[i] = READ_SECTOR(lba)
                     \/ rpc \in Fetching /\ ra_lba = lba

\* The emulator thread never sleeps on while its sector is there (no lost wakeup).
SleepsForAReason == epc = "cwait" /\ rpc # "copy" => Holding(lba) = {}

\* A successful read hands over the sector asked for, whole; a failed one zeroes.
ReadsWhatWasAsked == ret.data = IF ret.ok THEN lba ELSE NoData

\* Everything from the last request up to where read-ahead stands is in the ring,
\* in the order it was read, and only the sector at ra_lba may be on its way.
WindowHeld ==
  last_read_lba <= LBA_Read_Maximum =>
    /\ last_read_lba < ra_lba \/ (last_read_lba = ra_lba /\ rpc \in Fetching)
    /\ \A l \in last_read_lba .. (ra_lba - 1) :
         LET slot == SectorBuffers[Back(SBWritePos, ra_lba - l)]
         IN  slot.valid /\ slot.lba = l

\* The whole implements the interface's promise, its liveness included.
Device == INSTANCE CDInterface WITH
  phase <- CASE epc \in {"new", "boot", "bootwait"} -> "new"
             [] epc = "join" -> "closing"
             [] epc = "gone" -> "closed"
             [] OTHER -> "open",
  busy <- epc \in Reading
ImplementsDevice == Device!AbsSpec
=============================================================================
