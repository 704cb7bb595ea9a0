------------------------ MODULE CDInterface_MT_proofs ------------------------
(***************************************************************************)
(* Proofs about CDInterface_MT for every disc, every ring and read-ahead   *)
(* parameters that meet its assumptions.                                   *)
(***************************************************************************)
EXTENDS CDInterface_MT, SequenceTheorems, TLAPS

\* The read thread exists once the constructor has created it.
StartInv == epc = "new" <=> rpc = "off"

\* The mutex is held exactly in the two critical sections.
MutexInv == /\ SBMutex = "read" <=> rpc = "copy"
            /\ SBMutex = "emu" <=> epc = "scan"

\* The read thread is on its way to publish only what read-ahead still grants.
FetchInv == rpc \in Fetching => ra_count >= 1

\* While a read is in progress its request is the last one: at the end of the
\* queue, or the one last processed.
RequestInv ==
  epc \in Reading =>
    /\ InRange(lba)
    /\ IF ReadThreadQueue = <<>> THEN last_read_lba = lba
       ELSE ReadThreadQueue[Len(ReadThreadQueue)] = READ_SECTOR(lba)

\* Every published slot holds what its address says, and so does the sector the
\* read thread carries; only the slot being written may not.
ContentInv ==
  /\ \A i \in Slots :
       SectorBuffers[i].valid /\ ~ (rpc = "copy" /\ i = SBWritePos)
         => SectorBuffers[i].data = IF SectorBuffers[i].error THEN NoData
                                    ELSE SectorBuffers[i].lba
  /\ rpc \in {"lock", "copy"} =>
       tmpbuf.data = IF tmpbuf.error THEN NoData ELSE ra_lba
  /\ rpc = "copy" => SectorBuffers[SBWritePos].lba = ra_lba

IInv == /\ TypeOK /\ StartInv /\ MutexInv /\ FetchInv /\ RequestInv /\ ContentInv
        /\ ReadAheadBounded /\ WindowHeld /\ SleepsForAReason /\ ReadsWhatWasAsked

-----------------------------------------------------------------------------
\* Slot arithmetic: the write position moves round the ring.
LEMMA NextSlotLemma ==
  ASSUME NEW p \in Slots
  PROVE  NextSlot(p) = IF p + 1 = SBSize THEN 0 ELSE p + 1
<1>1. SBSize \in Nat /\ SBSize > 0 /\ p \in Nat /\ p < SBSize
  BY RingAssumption DEF Slots
<1>2. CASE p + 1 = SBSize
  BY <1>1, <1>2 DEF NextSlot
<1>3. CASE p + 1 < SBSize
  BY <1>1, <1>3 DEF NextSlot
<1> QED BY <1>1, <1>2, <1>3

\* The slots behind the write position keep their places when it moves.
LEMMA BackLemma ==
  ASSUME NEW p \in Slots
  PROVE  /\ \A k \in 1 .. max_ra : /\ Back(p, k) \in Slots /\ Back(p, k) # p
                                  /\ Back(NextSlot(p), k + 1) = Back(p, k)
         /\ Back(NextSlot(p), 1) = p
  BY NextSlotLemma, RingAssumption DEF Slots, Back

\* A READ_SECTOR message carries an address the emulator asked for.
LEMMA MessageLemma ==
  ASSUME NEW msg \in Message
  PROVE  /\ msg # DIEDIEDIE => msg.lba \in Int /\ msg = READ_SECTOR(msg.lba)
         /\ msg.message = "READ_SECTOR" => msg # DIEDIEDIE
  BY LbaAssumption DEF Message, DIEDIEDIE, READ_SECTOR

\* Granted read-ahead is never negative and stays within max_ra of the request.
LEMMA ReadAheadLemma ==
  ASSUME TypeOK, ReadAheadBounded, NEW l \in Int
  PROVE  /\ ReadAhead(l) = [from |-> ReadAhead(l).from, count |-> ReadAhead(l).count]
         /\ ReadAhead(l).from \in Int /\ ReadAhead(l).count \in Nat
         /\ ReadAhead(l).from + ReadAhead(l).count <= l + max_ra + 1
  BY RingAssumption DEF TypeOK, ReadAheadBounded, ReadAhead

\* What a send does to the queue it appends to.
LEMMA SendLemma ==
  /\ \A msg \in Message : TypeOK /\ SendToReader(msg) =>
       /\ ReadThreadQueue' \in Seq(Message) /\ ReadThreadQueue' # <<>>
       /\ ReadThreadQueue'[Len(ReadThreadQueue')] = msg
  /\ \A msg \in {"DONE", "FATAL_ERROR"} : TypeOK /\ SendToEmu(msg) =>
       EmuThreadQueue' \in Seq({"DONE", "FATAL_ERROR"})
<1>1. ASSUME NEW msg \in Message, TypeOK, SendToReader(msg)
      PROVE  /\ ReadThreadQueue' \in Seq(Message) /\ ReadThreadQueue' # <<>>
             /\ ReadThreadQueue'[Len(ReadThreadQueue')] = msg
  BY <1>1, AppendProperties, EmptySeq DEF SendToReader, TypeOK
<1>2. ASSUME NEW msg \in {"DONE", "FATAL_ERROR"}, TypeOK, SendToEmu(msg)
      PROVE  EmuThreadQueue' \in Seq({"DONE", "FATAL_ERROR"})
  BY <1>2, AppendProperties DEF SendToEmu, TypeOK
<1> QED BY <1>1, <1>2

\* The invariant holds when the object is created.
THEOREM Initial == Init => IInv
  BY LbaAssumption, RingAssumption
  DEF Init, IInv, TypeOK, StartInv, MutexInv, FetchInv, RequestInv, ContentInv, ReadAheadBounded,
      WindowHeld, SleepsForAReason, ReadsWhatWasAsked, Slots, Blank, NoSector, Failed,
      SectorBuffer, Data, Reading, Fetching

\* Type correctness.
LEMMA TypeStep == ASSUME IInv, Next PROVE TypeOK'
<1>1. CASE ReadTOC
  <2>1. EmuThreadQueue' \in Seq({"DONE", "FATAL_ERROR"})
    BY <1>1, SendLemma DEF ReadTOC, IInv
  <2> QED BY <1>1, <2>1 DEF ReadTOC, SendToEmu, IInv, TypeOK, ringvars, readvars
<1>2. CASE Dequeue
  <2> DEFINE msg == Head(ReadThreadQueue)
  <2>1. msg \in Message /\ ReadThreadQueue' \in Seq(Message)
    BY <1>2 DEF Dequeue, IInv, TypeOK
  <2>2. ra_lba' \in Int /\ ra_count' \in Nat /\ last_read_lba' \in Int /\ Running' \in BOOLEAN
    <3>1. CASE msg = DIEDIEDIE
      <4>1. /\ Running' = FALSE /\ UNCHANGED last_read_lba
            /\ Continue([from |-> ra_lba, count |-> ra_count], FALSE)
        BY <1>2, <2>1, <3>1, MessageLemma DEF Dequeue
      <4> QED BY <4>1 DEF Continue, IInv, TypeOK
    <3>2. CASE msg # DIEDIEDIE
      <4>1. /\ last_read_lba' = msg.lba /\ msg.lba \in Int
            /\ Continue(ReadAhead(msg.lba), Running) /\ UNCHANGED Running
        BY <1>2, <2>1, <3>2, MessageLemma DEF Dequeue
      <4> HIDE DEF msg
      <4> QED BY <4>1, ReadAheadLemma DEF Continue, IInv, TypeOK
    <3> QED BY <3>1, <3>2
  <2>3. rpc' \in {"fetch", "loop", "done"}
    BY <1>2 DEF Dequeue, Continue
  <2> QED BY <1>2, <2>1, <2>2, <2>3 DEF Dequeue, IInv, TypeOK, ringvars
<1>3. CASE QueueEmpty
  BY <1>3 DEF QueueEmpty, Continue, IInv, TypeOK, vars, ringvars, readvars, Reading, Failed, NoSector
<1>4. CASE ReadDisc
  <2>1. tmpbuf' \in [error : BOOLEAN, data : Data]
    <3>1. ra_lba \in Data /\ NoData \in Data
      BY DEF IInv, TypeOK, Data
    <3>2. tmpbuf' = [error |-> FALSE, data |-> ra_lba] \/ tmpbuf' = [error |-> TRUE, data |-> NoData]
      BY <1>4 DEF ReadDisc
    <3>3. CASE tmpbuf' = [error |-> FALSE, data |-> ra_lba]
      BY <3>1, <3>3
    <3>4. CASE tmpbuf' = [error |-> TRUE, data |-> NoData]
      BY <3>1, <3>4
    <3> QED BY <3>2, <3>3, <3>4
  <2> QED BY <1>4, <2>1 DEF ReadDisc, IInv, TypeOK, ringvars, readvars
<1>5. CASE LockAndName
  BY <1>5 DEF LockAndName, IInv, TypeOK, SectorBuffer, readvars
<1>6. CASE Publish
  <2>1. ra_count' \in Nat /\ ra_lba' \in Int
    BY <1>6 DEF Publish, IInv, TypeOK, FetchInv, Fetching
  <2>4. SBWritePos' = NextSlot(SBWritePos) /\ SBWritePos \in Slots
    BY <1>6 DEF Publish, IInv, TypeOK
  <2>5. SBWritePos' \in Slots
    BY <2>4, NextSlotLemma, RingAssumption DEF Slots
  <2>2. SectorBuffers' \in [Slots -> SectorBuffer]
    BY <1>6 DEF Publish, IInv, TypeOK, SectorBuffer
  <2>3. epc' \in {"new", "boot", "bootwait", "idle", "join", "gone"} \cup Reading
    BY <1>6 DEF Publish, SignalEmu, IInv, TypeOK, Reading
  <2> QED BY <1>6, <2>1, <2>2, <2>3, <2>5 DEF Publish, IInv, TypeOK, NoSector, Data
<1>7. CASE Construct
  BY <1>7 DEF Construct, IInv, TypeOK, vars, ringvars, readvars, Reading, Failed, NoSector
<1>8. CASE AwaitTOC
  <2>1. DIEDIEDIE \in Message BY DEF Message
  <2>2. ReadThreadQueue' \in Seq(Message) /\ rpc' \in {rpc, "loop"}
    BY <1>8, <2>1, SendLemma DEF AwaitTOC, Cleanup, SendToReader, IInv, TypeOK
  <2>3. epc' \in {"bootwait", "join", "idle"}
    BY <1>8 DEF AwaitTOC, Cleanup
  <2>4. EmuThreadQueue' \in Seq({"DONE", "FATAL_ERROR"})
    <3>1. EmuThreadQueue' = EmuThreadQueue \/ (EmuThreadQueue # <<>> /\ EmuThreadQueue' = Tail(EmuThreadQueue))
      BY <1>8 DEF AwaitTOC
    <3>2. EmuThreadQueue \in Seq({"DONE", "FATAL_ERROR"})
      BY DEF IInv, TypeOK
    <3> QED BY <3>1, <3>2, HeadTailProperties
  <2> QED BY <1>8, <2>2, <2>3, <2>4 DEF AwaitTOC, IInv, TypeOK, ringvars, readvars
<1>9. CASE Lock
  BY <1>9 DEF Lock, IInv, TypeOK, vars, ringvars, readvars, Reading, Failed, NoSector
<1>10. CASE Scan
  <2>1. ret' \in [ok : BOOLEAN, data : Data] /\ epc' \in {"idle", "cwait"}
    <3>1. CASE \E i \in Slots : ret' = [ok |-> ~ SectorBuffers[i].error,
                                       data |-> SectorBuffers[i].data] /\ epc' = "idle"
      <4>1. PICK i \in Slots : ret' = [ok |-> ~ SectorBuffers[i].error,
                                      data |-> SectorBuffers[i].data] /\ epc' = "idle"
        BY <3>1
      <4>2. SectorBuffers[i] \in SectorBuffer
        BY DEF IInv, TypeOK
      <4>3. SectorBuffers[i].error \in BOOLEAN /\ SectorBuffers[i].data \in Data
        BY <4>2 DEF SectorBuffer
      <4> QED BY <4>1, <4>3
    <3>2. CASE UNCHANGED ret /\ epc' = "cwait"
      BY <3>2 DEF IInv, TypeOK
    <3> QED BY <1>10, <3>1, <3>2 DEF Scan
  <2> QED BY <1>10, <2>1 DEF Scan, IInv, TypeOK, ringvars, readvars, Reading
<1>11. CASE Join
  BY <1>11 DEF Join, IInv, TypeOK, vars, ringvars, readvars, Reading, Failed, NoSector
<1>12. CASE Destroy
  <2>1. DIEDIEDIE \in Message BY DEF Message
  <2> QED BY <1>12, <2>1, SendLemma DEF Destroy, Cleanup, SendToReader, IInv, TypeOK, ringvars, readvars
<1>13. ASSUME NEW l \in Lbas, HintReadSector(l) PROVE TypeOK'
  <2>1. READ_SECTOR(l) \in Message BY DEF Message
  <2> QED BY <1>13, <2>1, SendLemma DEF HintReadSector, SendToReader, IInv, TypeOK, ringvars, readvars
<1>14. ASSUME NEW l \in Lbas, ReadRawSector(l) PROVE TypeOK'
  <2>1. READ_SECTOR(l) \in Message BY DEF Message
  <2> QED BY <1>14, <2>1, SendLemma, LbaAssumption
          DEF ReadRawSector, SendToReader, IInv, TypeOK, ringvars, readvars, Reading, Failed, Data
<1>15. ASSUME NEW l \in Lbas, ReadOutOfBounds(l) PROVE TypeOK'
  BY <1>15, LbaAssumption DEF ReadOutOfBounds, IInv, TypeOK, ringvars, readvars, Failed, Data
<1>16. CASE SpuriousQueueWakeup
  BY <1>16 DEF SpuriousQueueWakeup, IInv, TypeOK, vars, ringvars, readvars, Reading, Failed, NoSector
<1>17. CASE SpuriousWakeup
  BY <1>17 DEF SpuriousWakeup, IInv, TypeOK, vars, ringvars, readvars, Reading, Failed, NoSector
<1> QED
  BY <1>1, <1>2, <1>3, <1>4, <1>5, <1>6, <1>7, <1>8, <1>9, <1>10, <1>11, <1>12, <1>13, <1>14, <1>15, <1>16, <1>17 DEF Next, ReadThread, EmuThread, EmuCall

\* The mutex is held exactly in the critical sections.
LEMMA MutexStep == ASSUME IInv, Next PROVE MutexInv'
<1>1. CASE ReadTOC
  BY <1>1 DEF ReadTOC, SendToEmu, IInv, MutexInv, vars, ringvars, readvars
<1>2. CASE Dequeue
  BY <1>2 DEF Dequeue, Continue, IInv, MutexInv
<1>3. CASE QueueEmpty
  BY <1>3 DEF QueueEmpty, Continue, IInv, MutexInv, vars, ringvars, readvars
<1>4. CASE ReadDisc
  BY <1>4 DEF ReadDisc, IInv, MutexInv, vars, ringvars, readvars
<1>5. CASE LockAndName
  BY <1>5 DEF LockAndName, IInv, MutexInv, vars, ringvars, readvars
<1>6. CASE Publish
  BY <1>6 DEF Publish, SignalEmu, IInv, MutexInv, vars, ringvars, readvars
<1>7. CASE Construct
  BY <1>7 DEF Construct, IInv, StartInv, MutexInv
<1>8. CASE AwaitTOC
  BY <1>8 DEF AwaitTOC, Cleanup, SendToReader, IInv, MutexInv
<1>9. CASE Lock
  BY <1>9 DEF Lock, IInv, MutexInv, vars, ringvars, readvars
<1>10. CASE Scan
  BY <1>10 DEF Scan, Winner, Holding, IInv, MutexInv, vars, ringvars, readvars
<1>11. CASE Join
  BY <1>11 DEF Join, IInv, MutexInv, vars, ringvars, readvars
<1>12. CASE Destroy
  BY <1>12 DEF Destroy, Cleanup, SendToReader, IInv, MutexInv, vars, ringvars, readvars
<1>13. ASSUME NEW l \in Lbas, HintReadSector(l) PROVE MutexInv'
  BY <1>13 DEF HintReadSector, SendToReader, IInv, MutexInv, vars, ringvars, readvars
<1>14. ASSUME NEW l \in Lbas, ReadRawSector(l) PROVE MutexInv'
  BY <1>14 DEF ReadRawSector, SendToReader, IInv, MutexInv, vars, ringvars, readvars
<1>15. ASSUME NEW l \in Lbas, ReadOutOfBounds(l) PROVE MutexInv'
  BY <1>15 DEF ReadOutOfBounds, IInv, MutexInv, vars, ringvars, readvars
<1>16. CASE SpuriousQueueWakeup
  BY <1>16 DEF SpuriousQueueWakeup, IInv, MutexInv, vars, ringvars, readvars
<1>17. CASE SpuriousWakeup
  BY <1>17 DEF SpuriousWakeup, IInv, MutexInv, vars, ringvars, readvars
<1> QED
  BY <1>1, <1>2, <1>3, <1>4, <1>5, <1>6, <1>7, <1>8, <1>9, <1>10, <1>11, <1>12, <1>13, <1>14, <1>15, <1>16, <1>17 DEF Next, ReadThread, EmuThread, EmuCall

\* Only granted read-ahead is on its way into the ring.
LEMMA FetchStep == ASSUME IInv, Next PROVE FetchInv'
<1>1. CASE ReadTOC
  BY <1>1 DEF ReadTOC, SendToEmu, IInv, TypeOK, FetchInv, Fetching, vars, ringvars, readvars
<1>2. CASE Dequeue
  <2>1. rpc' \in Fetching => ra_count' # 0
    BY <1>2 DEF Dequeue, Continue, Fetching
  <2>2. ra_count' \in Nat
    BY TypeStep DEF TypeOK
  <2> QED BY <2>1, <2>2 DEF FetchInv
<1>3. CASE QueueEmpty
  <2>1. rpc' \in Fetching => ra_count' # 0
    BY <1>3 DEF QueueEmpty, Continue, Fetching
  <2>2. ra_count' \in Nat
    BY TypeStep DEF TypeOK
  <2> QED BY <2>1, <2>2 DEF FetchInv
<1>4. CASE ReadDisc
  BY <1>4 DEF ReadDisc, IInv, TypeOK, FetchInv, Fetching, vars, ringvars, readvars
<1>5. CASE LockAndName
  BY <1>5 DEF LockAndName, IInv, TypeOK, FetchInv, Fetching, vars, ringvars, readvars
<1>6. CASE Publish
  BY <1>6 DEF Publish, SignalEmu, IInv, TypeOK, FetchInv, Fetching, vars, ringvars, readvars
<1>7. CASE Construct
  BY <1>7 DEF Construct, IInv, TypeOK, FetchInv, Fetching, vars, ringvars, readvars
<1>8. CASE AwaitTOC
  BY <1>8 DEF AwaitTOC, Cleanup, SendToReader, IInv, TypeOK, FetchInv, Fetching, vars, ringvars, readvars
<1>9. CASE Lock
  BY <1>9 DEF Lock, IInv, TypeOK, FetchInv, Fetching, vars, ringvars, readvars
<1>10. CASE Scan
  BY <1>10 DEF Scan, Winner, Holding, IInv, TypeOK, FetchInv, Fetching, vars, ringvars, readvars
<1>11. CASE Join
  BY <1>11 DEF Join, IInv, TypeOK, FetchInv, Fetching, vars, ringvars, readvars
<1>12. CASE Destroy
  BY <1>12 DEF Destroy, Cleanup, SendToReader, IInv, TypeOK, FetchInv, Fetching, vars, ringvars, readvars
<1>13. ASSUME NEW l \in Lbas, HintReadSector(l) PROVE FetchInv'
  BY <1>13 DEF HintReadSector, SendToReader, IInv, TypeOK, FetchInv, Fetching, vars, ringvars, readvars
<1>14. ASSUME NEW l \in Lbas, ReadRawSector(l) PROVE FetchInv'
  BY <1>14 DEF ReadRawSector, SendToReader, IInv, TypeOK, FetchInv, Fetching, vars, ringvars, readvars
<1>15. ASSUME NEW l \in Lbas, ReadOutOfBounds(l) PROVE FetchInv'
  BY <1>15 DEF ReadOutOfBounds, IInv, TypeOK, FetchInv, Fetching, vars, ringvars, readvars
<1>16. CASE SpuriousQueueWakeup
  BY <1>16 DEF SpuriousQueueWakeup, IInv, TypeOK, FetchInv, Fetching, vars, ringvars, readvars
<1>17. CASE SpuriousWakeup
  BY <1>17 DEF SpuriousWakeup, IInv, TypeOK, FetchInv, Fetching, vars, ringvars, readvars
<1> QED
  BY <1>1, <1>2, <1>3, <1>4, <1>5, <1>6, <1>7, <1>8, <1>9, <1>10, <1>11, <1>12, <1>13, <1>14, <1>15, <1>16, <1>17 DEF Next, ReadThread, EmuThread, EmuCall

\* The read thread exists once the constructor has created it.
LEMMA StartStep == ASSUME IInv, Next PROVE StartInv'
<1>1. CASE ReadTOC
  BY <1>1 DEF ReadTOC, SendToEmu, IInv, StartInv
<1>2. CASE Dequeue
  BY <1>2 DEF Dequeue, Continue, IInv, StartInv
<1>3. CASE QueueEmpty
  BY <1>3 DEF QueueEmpty, Continue, IInv, StartInv
<1>4. CASE ReadDisc
  BY <1>4 DEF ReadDisc, IInv, StartInv, vars, ringvars, readvars
<1>5. CASE LockAndName
  BY <1>5 DEF LockAndName, IInv, StartInv, vars, ringvars, readvars
<1>6. CASE Publish
  BY <1>6 DEF Publish, SignalEmu, IInv, StartInv, vars, ringvars, readvars
<1>7. CASE Construct
  BY <1>7 DEF Construct, IInv, StartInv, vars, ringvars, readvars
<1>8. CASE AwaitTOC
  BY <1>8 DEF AwaitTOC, Cleanup, SendToReader, IInv, StartInv
<1>9. CASE Lock
  BY <1>9 DEF Lock, IInv, StartInv, vars, ringvars, readvars
<1>10. CASE Scan
  BY <1>10 DEF Scan, Winner, Holding, IInv, StartInv, vars, ringvars, readvars
<1>11. CASE Join
  BY <1>11 DEF Join, IInv, StartInv, vars, ringvars, readvars
<1>12. CASE Destroy
  BY <1>12 DEF Destroy, Cleanup, SendToReader, IInv, StartInv, vars, ringvars, readvars
<1>13. ASSUME NEW l \in Lbas, HintReadSector(l) PROVE StartInv'
  BY <1>13 DEF HintReadSector, SendToReader, IInv, StartInv, vars, ringvars, readvars
<1>14. ASSUME NEW l \in Lbas, ReadRawSector(l) PROVE StartInv'
  BY <1>14 DEF ReadRawSector, SendToReader, IInv, StartInv, vars, ringvars, readvars
<1>15. ASSUME NEW l \in Lbas, ReadOutOfBounds(l) PROVE StartInv'
  BY <1>15 DEF ReadOutOfBounds, IInv, StartInv, vars, ringvars, readvars
<1>16. CASE SpuriousQueueWakeup
  BY <1>16 DEF SpuriousQueueWakeup, IInv, StartInv, vars, ringvars, readvars
<1>17. CASE SpuriousWakeup
  BY <1>17 DEF SpuriousWakeup, IInv, StartInv, vars, ringvars, readvars
<1> QED
  BY <1>1, <1>2, <1>3, <1>4, <1>5, <1>6, <1>7, <1>8, <1>9, <1>10, <1>11, <1>12, <1>13, <1>14, <1>15, <1>16, <1>17 DEF Next, ReadThread, EmuThread, EmuCall

\* Read-ahead stays bounded.
LEMMA ReadAheadStep == ASSUME IInv, Next PROVE ReadAheadBounded'
<1>1. CASE ReadTOC
  BY <1>1 DEF ReadTOC, SendToEmu, IInv, TypeOK, ReadAheadBounded, vars, ringvars, readvars
<1>2. CASE Dequeue
  <2> DEFINE msg == Head(ReadThreadQueue)
  <2>1. msg \in Message
    BY <1>2 DEF Dequeue, IInv, TypeOK
  <2>2. CASE msg = DIEDIEDIE
    <3>1. /\ UNCHANGED last_read_lba
          /\ Continue([from |-> ra_lba, count |-> ra_count], FALSE)
      BY <1>2, <2>1, <2>2, MessageLemma DEF Dequeue
    <3> QED BY <3>1, RingAssumption DEF Continue, IInv, TypeOK, ReadAheadBounded
  <2>3. CASE msg # DIEDIEDIE
    <3>1. /\ last_read_lba' = msg.lba /\ msg.lba \in Int
          /\ Continue(ReadAhead(msg.lba), Running)
      BY <1>2, <2>1, <2>3, MessageLemma DEF Dequeue
    <3> HIDE DEF msg
    <3> QED BY <3>1, ReadAheadLemma, RingAssumption DEF Continue, IInv, ReadAheadBounded
  <2> QED BY <2>2, <2>3
<1>3. CASE QueueEmpty
  BY <1>3, RingAssumption DEF QueueEmpty, Continue, IInv, TypeOK, ReadAheadBounded
<1>4. CASE ReadDisc
  BY <1>4 DEF ReadDisc, IInv, TypeOK, ReadAheadBounded, vars, ringvars, readvars
<1>5. CASE LockAndName
  BY <1>5 DEF LockAndName, IInv, TypeOK, ReadAheadBounded, vars, ringvars, readvars
<1>6. CASE Publish
  BY <1>6, RingAssumption DEF Publish, IInv, TypeOK, ReadAheadBounded
<1>7. CASE Construct
  BY <1>7 DEF Construct, IInv, TypeOK, ReadAheadBounded, vars, ringvars, readvars
<1>8. CASE AwaitTOC
  BY <1>8 DEF AwaitTOC, Cleanup, SendToReader, IInv, TypeOK, ReadAheadBounded, vars, ringvars, readvars
<1>9. CASE Lock
  BY <1>9 DEF Lock, IInv, TypeOK, ReadAheadBounded, vars, ringvars, readvars
<1>10. CASE Scan
  BY <1>10 DEF Scan, Winner, Holding, IInv, TypeOK, ReadAheadBounded, vars, ringvars, readvars
<1>11. CASE Join
  BY <1>11 DEF Join, IInv, TypeOK, ReadAheadBounded, vars, ringvars, readvars
<1>12. CASE Destroy
  BY <1>12 DEF Destroy, Cleanup, SendToReader, IInv, TypeOK, ReadAheadBounded, vars, ringvars, readvars
<1>13. ASSUME NEW l \in Lbas, HintReadSector(l) PROVE ReadAheadBounded'
  BY <1>13 DEF HintReadSector, SendToReader, IInv, TypeOK, ReadAheadBounded, vars, ringvars, readvars
<1>14. ASSUME NEW l \in Lbas, ReadRawSector(l) PROVE ReadAheadBounded'
  BY <1>14 DEF ReadRawSector, SendToReader, IInv, TypeOK, ReadAheadBounded, vars, ringvars, readvars
<1>15. ASSUME NEW l \in Lbas, ReadOutOfBounds(l) PROVE ReadAheadBounded'
  BY <1>15 DEF ReadOutOfBounds, IInv, TypeOK, ReadAheadBounded, vars, ringvars, readvars
<1>16. CASE SpuriousQueueWakeup
  BY <1>16 DEF SpuriousQueueWakeup, IInv, TypeOK, ReadAheadBounded, vars, ringvars, readvars
<1>17. CASE SpuriousWakeup
  BY <1>17 DEF SpuriousWakeup, IInv, TypeOK, ReadAheadBounded, vars, ringvars, readvars
<1> QED
  BY <1>1, <1>2, <1>3, <1>4, <1>5, <1>6, <1>7, <1>8, <1>9, <1>10, <1>11, <1>12, <1>13, <1>14, <1>15, <1>16, <1>17 DEF Next, ReadThread, EmuThread, EmuCall

\* The emulator thread sleeps only while its sector is missing.
LEMMA SleepStep == ASSUME IInv, Next PROVE SleepsForAReason'
<1>1. CASE ReadTOC
  BY <1>1 DEF ReadTOC, SendToEmu, IInv, SleepsForAReason, Holding, ringvars
<1>2. CASE Dequeue
  BY <1>2 DEF Dequeue, Continue, IInv, SleepsForAReason, Holding, vars, ringvars, readvars
<1>3. CASE QueueEmpty
  BY <1>3 DEF QueueEmpty, Continue, IInv, SleepsForAReason, Holding, vars, ringvars, readvars
<1>4. CASE ReadDisc
  BY <1>4 DEF ReadDisc, IInv, SleepsForAReason, Holding, vars, ringvars, readvars
<1>5. CASE LockAndName
  BY <1>5 DEF LockAndName, IInv, SleepsForAReason, Holding, vars, ringvars, readvars
<1>6. CASE Publish
  BY <1>6 DEF Publish, SignalEmu, SleepsForAReason
<1>7. CASE Construct
  BY <1>7 DEF Construct, IInv, SleepsForAReason, Holding, vars, ringvars, readvars
<1>8. CASE AwaitTOC
  BY <1>8 DEF AwaitTOC, Cleanup, SleepsForAReason
<1>9. CASE Lock
  BY <1>9 DEF Lock, IInv, SleepsForAReason, Holding, vars, ringvars, readvars
<1>10. CASE Scan
  BY <1>10 DEF Scan, SleepsForAReason, Holding, ringvars
<1>11. CASE Join
  BY <1>11 DEF Join, IInv, SleepsForAReason, Holding, vars, ringvars, readvars
<1>12. CASE Destroy
  BY <1>12 DEF Destroy, Cleanup, SleepsForAReason
<1>13. ASSUME NEW l \in Lbas, HintReadSector(l) PROVE SleepsForAReason'
  BY <1>13 DEF HintReadSector, SendToReader, IInv, SleepsForAReason, Holding, vars, ringvars, readvars
<1>14. ASSUME NEW l \in Lbas, ReadRawSector(l) PROVE SleepsForAReason'
  BY <1>14 DEF ReadRawSector, SleepsForAReason
<1>15. ASSUME NEW l \in Lbas, ReadOutOfBounds(l) PROVE SleepsForAReason'
  BY <1>15 DEF ReadOutOfBounds, IInv, SleepsForAReason, Holding, vars, ringvars, readvars
<1>16. CASE SpuriousQueueWakeup
  BY <1>16 DEF SpuriousQueueWakeup, IInv, SleepsForAReason, Holding, vars, ringvars, readvars
<1>17. CASE SpuriousWakeup
  BY <1>17 DEF SpuriousWakeup, IInv, SleepsForAReason, Holding, vars, ringvars, readvars
<1> QED
  BY <1>1, <1>2, <1>3, <1>4, <1>5, <1>6, <1>7, <1>8, <1>9, <1>10, <1>11, <1>12, <1>13, <1>14, <1>15, <1>16, <1>17 DEF Next, ReadThread, EmuThread, EmuCall

\* The request of the read in progress is the last one.
LEMMA RequestStep == ASSUME IInv, Next PROVE RequestInv'
<1>1. CASE ReadTOC
  BY <1>1 DEF ReadTOC, SendToEmu, IInv, RequestInv, Reading, readvars, InRange
<1>2. CASE Dequeue
  <2> SUFFICES ASSUME epc \in Reading PROVE RequestInv'
    BY <1>2 DEF Dequeue, RequestInv
  <2> DEFINE q == ReadThreadQueue
  <2>1. /\ q \in Seq(Message) /\ q # <<>> /\ q' = Tail(q)
        /\ UNCHANGED <<epc, lba>>
    BY <1>2 DEF Dequeue, IInv, TypeOK
  <2>2. InRange(lba) /\ q[Len(q)] = READ_SECTOR(lba)
    BY <2>1 DEF IInv, RequestInv
  <2>3. CASE Tail(q) = <<>>
    <3>1. Len(q) = 1 /\ Head(q) = READ_SECTOR(lba)
      <4>1. Len(Tail(q)) = Len(q) - 1 /\ Len(q) \in Nat /\ Head(q) = q[1]
        BY <2>1, HeadTailProperties
      <4>2. Len(Tail(q)) = 0
        BY <2>3, EmptySeq
      <4> QED BY <2>2, <4>1, <4>2
    <3>2. Head(q) # DIEDIEDIE /\ Head(q).lba = lba
      BY <2>1, <3>1, MessageLemma, HeadTailProperties DEF READ_SECTOR
    <3>3. last_read_lba' = lba
      BY <1>2, <3>2 DEF Dequeue
    <3> QED BY <2>1, <2>2, <2>3, <3>3 DEF RequestInv, InRange
  <2>4. CASE Tail(q) # <<>>
    <3>1. Tail(q)[Len(Tail(q))] = q[Len(q)]
      BY <2>1, <2>4
    <3> QED BY <2>1, <2>2, <2>4, <3>1 DEF RequestInv, InRange
  <2> QED BY <2>3, <2>4
<1>3. CASE QueueEmpty
  BY <1>3 DEF QueueEmpty, IInv, RequestInv, InRange
<1>4. CASE ReadDisc
  BY <1>4 DEF ReadDisc, IInv, RequestInv, Reading, readvars, InRange
<1>5. CASE LockAndName
  BY <1>5 DEF LockAndName, IInv, RequestInv, Reading, readvars, InRange
<1>6. CASE Publish
  BY <1>6 DEF Publish, SignalEmu, IInv, RequestInv, Reading, InRange
<1>7. CASE Construct
  BY <1>7 DEF Construct, IInv, RequestInv, Reading, vars, ringvars, readvars
<1>8. CASE AwaitTOC
  BY <1>8 DEF AwaitTOC, Cleanup, RequestInv, Reading
<1>9. CASE Lock
  BY <1>9 DEF Lock, IInv, RequestInv, Reading, readvars, InRange
<1>10. CASE Scan
  BY <1>10 DEF Scan, IInv, RequestInv, Reading, readvars, InRange
<1>11. CASE Join
  BY <1>11 DEF Join, IInv, RequestInv, Reading, vars, ringvars, readvars
<1>12. CASE Destroy
  BY <1>12 DEF Destroy, Cleanup, RequestInv, Reading
<1>13. ASSUME NEW l \in Lbas, HintReadSector(l) PROVE RequestInv'
  BY <1>13 DEF HintReadSector, RequestInv, Reading
<1>14. ASSUME NEW l \in Lbas, ReadRawSector(l) PROVE RequestInv'
  <2>1. READ_SECTOR(l) \in Message BY DEF Message
  <2> QED BY <1>14, <2>1, SendLemma DEF ReadRawSector, IInv, RequestInv, InRange
<1>15. ASSUME NEW l \in Lbas, ReadOutOfBounds(l) PROVE RequestInv'
  BY <1>15 DEF ReadOutOfBounds, IInv, RequestInv, Reading, vars, ringvars, readvars
<1>16. CASE SpuriousQueueWakeup
  BY <1>16 DEF SpuriousQueueWakeup, IInv, RequestInv, Reading, readvars, InRange
<1>17. CASE SpuriousWakeup
  BY <1>17 DEF SpuriousWakeup, IInv, RequestInv, Reading, readvars, InRange
<1> QED
  BY <1>1, <1>2, <1>3, <1>4, <1>5, <1>6, <1>7, <1>8, <1>9, <1>10, <1>11, <1>12, <1>13, <1>14, <1>15, <1>16, <1>17 DEF Next, ReadThread, EmuThread, EmuCall

\* A published slot holds what its address says.
LEMMA ContentStep == ASSUME IInv, Next PROVE ContentInv'
<1>1. CASE ReadTOC
  BY <1>1 DEF ReadTOC, IInv, ContentInv, ringvars, readvars
<1>2. CASE Dequeue
  BY <1>2 DEF Dequeue, Continue, IInv, ContentInv, ringvars, readvars
<1>3. CASE QueueEmpty
  BY <1>3 DEF QueueEmpty, Continue, IInv, ContentInv, ringvars, readvars
<1>4. CASE ReadDisc
  BY <1>4 DEF ReadDisc, IInv, ContentInv, vars, ringvars, readvars
<1>5. CASE LockAndName
  BY <1>5 DEF LockAndName, IInv, TypeOK, SectorBuffer, ContentInv, readvars
<1>6. CASE Publish
  BY <1>6 DEF Publish, IInv, TypeOK, SectorBuffer, ContentInv
<1>7. CASE Construct
  BY <1>7 DEF Construct, IInv, StartInv, ContentInv, ringvars, readvars
<1>8. CASE AwaitTOC
  BY <1>8 DEF AwaitTOC, Cleanup, SendToReader, IInv, ContentInv, ringvars, readvars
<1>9. CASE Lock
  BY <1>9 DEF Lock, IInv, ContentInv, vars, ringvars, readvars
<1>10. CASE Scan
  BY <1>10 DEF Scan, Winner, Holding, IInv, ContentInv, vars, ringvars, readvars
<1>11. CASE Join
  BY <1>11 DEF Join, IInv, ContentInv, vars, ringvars, readvars
<1>12. CASE Destroy
  BY <1>12 DEF Destroy, Cleanup, SendToReader, IInv, ContentInv, ringvars, readvars
<1>13. ASSUME NEW l \in Lbas, HintReadSector(l) PROVE ContentInv'
  BY <1>13 DEF HintReadSector, SendToReader, IInv, ContentInv, ringvars, readvars
<1>14. ASSUME NEW l \in Lbas, ReadRawSector(l) PROVE ContentInv'
  BY <1>14 DEF ReadRawSector, SendToReader, IInv, ContentInv, ringvars, readvars
<1>15. ASSUME NEW l \in Lbas, ReadOutOfBounds(l) PROVE ContentInv'
  BY <1>15 DEF ReadOutOfBounds, IInv, ContentInv, vars, ringvars, readvars
<1>16. CASE SpuriousQueueWakeup
  BY <1>16 DEF SpuriousQueueWakeup, IInv, ContentInv, vars, ringvars, readvars
<1>17. CASE SpuriousWakeup
  BY <1>17 DEF SpuriousWakeup, IInv, ContentInv, vars, ringvars, readvars
<1> QED
  BY <1>1, <1>2, <1>3, <1>4, <1>5, <1>6, <1>7, <1>8, <1>9, <1>10, <1>11, <1>12, <1>13, <1>14, <1>15, <1>16, <1>17 DEF Next, ReadThread, EmuThread, EmuCall

\* A read returns what was asked.
LEMMA ReadsStep == ASSUME IInv, Next PROVE ReadsWhatWasAsked'
<1>1. CASE ReadTOC
  BY <1>1 DEF ReadTOC, SendToEmu, IInv, ReadsWhatWasAsked, Failed, vars, ringvars, readvars
<1>2. CASE Dequeue
  BY <1>2 DEF Dequeue, Continue, IInv, ReadsWhatWasAsked, Failed, vars, ringvars, readvars
<1>3. CASE QueueEmpty
  BY <1>3 DEF QueueEmpty, Continue, IInv, ReadsWhatWasAsked, Failed, vars, ringvars, readvars
<1>4. CASE ReadDisc
  BY <1>4 DEF ReadDisc, IInv, ReadsWhatWasAsked, Failed, vars, ringvars, readvars
<1>5. CASE LockAndName
  BY <1>5 DEF LockAndName, IInv, ReadsWhatWasAsked, Failed, vars, ringvars, readvars
<1>6. CASE Publish
  BY <1>6 DEF Publish, SignalEmu, IInv, ReadsWhatWasAsked, Failed, vars, ringvars, readvars
<1>7. CASE Construct
  BY <1>7 DEF Construct, IInv, ReadsWhatWasAsked, Failed, vars, ringvars, readvars
<1>8. CASE AwaitTOC
  BY <1>8 DEF AwaitTOC, IInv, ReadsWhatWasAsked
<1>9. CASE Lock
  BY <1>9 DEF Lock, IInv, ReadsWhatWasAsked, Failed, vars, ringvars, readvars
<1>10. CASE Scan
  <2>1. CASE UNCHANGED ret
    BY <1>10, <2>1 DEF Scan, IInv, ReadsWhatWasAsked
  <2>2. ASSUME NEW i \in Slots, Winner(i),
               ret' = [ok |-> ~ SectorBuffers[i].error, data |-> SectorBuffers[i].data]
        PROVE  ReadsWhatWasAsked'
    <3>1. SectorBuffers[i].valid /\ SectorBuffers[i].lba = lba /\ rpc # "copy"
      BY <1>10, <2>2 DEF Scan, Winner, Holding, IInv, MutexInv
    <3>2. SectorBuffers[i].data = IF SectorBuffers[i].error THEN NoData ELSE lba
      BY <3>1 DEF IInv, ContentInv
    <3>3. SectorBuffers[i].error \in BOOLEAN
      BY DEF IInv, TypeOK, SectorBuffer
    <3> QED BY <1>10, <2>2, <3>2, <3>3 DEF Scan, ReadsWhatWasAsked
  <2> QED BY <1>10, <2>1, <2>2 DEF Scan
<1>11. CASE Join
  BY <1>11 DEF Join, IInv, ReadsWhatWasAsked, Failed, vars, ringvars, readvars
<1>12. CASE Destroy
  BY <1>12 DEF Destroy, Cleanup, SendToReader, IInv, ReadsWhatWasAsked, Failed, vars, ringvars, readvars
<1>13. ASSUME NEW l \in Lbas, HintReadSector(l) PROVE ReadsWhatWasAsked'
  BY <1>13 DEF HintReadSector, SendToReader, IInv, ReadsWhatWasAsked, Failed, vars, ringvars, readvars
<1>14. ASSUME NEW l \in Lbas, ReadRawSector(l) PROVE ReadsWhatWasAsked'
  BY <1>14 DEF ReadRawSector, SendToReader, IInv, ReadsWhatWasAsked, Failed, vars, ringvars, readvars
<1>15. ASSUME NEW l \in Lbas, ReadOutOfBounds(l) PROVE ReadsWhatWasAsked'
  BY <1>15 DEF ReadOutOfBounds, IInv, ReadsWhatWasAsked, Failed, vars, ringvars, readvars
<1>16. CASE SpuriousQueueWakeup
  BY <1>16 DEF SpuriousQueueWakeup, IInv, ReadsWhatWasAsked, Failed, vars, ringvars, readvars
<1>17. CASE SpuriousWakeup
  BY <1>17 DEF SpuriousWakeup, IInv, ReadsWhatWasAsked, Failed, vars, ringvars, readvars
<1> QED
  BY <1>1, <1>2, <1>3, <1>4, <1>5, <1>6, <1>7, <1>8, <1>9, <1>10, <1>11, <1>12, <1>13, <1>14, <1>15, <1>16, <1>17 DEF Next, ReadThread, EmuThread, EmuCall

\* The ring keeps everything from the last request on.
LEMMA WindowStep == ASSUME IInv, Next PROVE WindowHeld'
<1>1. CASE ReadTOC
  BY <1>1 DEF ReadTOC, IInv, WindowHeld, Fetching, ringvars, readvars
<1>2. CASE Dequeue
  <2> DEFINE msg == Head(ReadThreadQueue)
  <2>1. msg \in Message /\ UNCHANGED ringvars
    BY <1>2 DEF Dequeue, IInv, TypeOK
  <2>2. CASE msg = DIEDIEDIE
    <3>1. /\ UNCHANGED last_read_lba
          /\ Continue([from |-> ra_lba, count |-> ra_count], FALSE)
      BY <1>2, <2>1, <2>2, MessageLemma DEF Dequeue
    <3> QED BY <1>2, <2>1, <3>1, LbaAssumption DEF Dequeue, Continue, TypeOK, IInv, WindowHeld, Fetching, ringvars
  <2>3. CASE msg # DIEDIEDIE
    <3>1. /\ last_read_lba' = msg.lba /\ msg.lba \in Int
          /\ Continue(ReadAhead(msg.lba), Running)
      BY <1>2, <2>1, <2>3, MessageLemma DEF Dequeue
    <3> DEFINE new == msg.lba
    <3> HIDE DEF msg
    <3>2. /\ ra_lba' = ReadAhead(new).from
          /\ ReadAhead(new).count # 0 /\ ra_lba' <= LBA_Read_Maximum => rpc' = "fetch"
      BY <3>1, LbaAssumption, ReadAheadLemma DEF Continue, IInv
    <3>3. last_read_lba \in Int /\ ra_lba \in Int /\ ra_count \in Nat
      BY DEF IInv, TypeOK
    <3>4. CASE new = last_read_lba + 1
      <4>1. ra_lba' = ra_lba
        BY <3>2, <3>4 DEF ReadAhead
      <4>2. ReadAhead(new).count # 0
        BY <3>3, <3>4, RingAssumption DEF ReadAhead, IInv, ReadAheadBounded
      <4> HIDE DEF new
      <4>3. CASE last_read_lba <= LBA_Read_Maximum
        <5>1. last_read_lba < ra_lba
          BY <1>2, <4>3 DEF Dequeue, IInv, WindowHeld, Fetching
        <5>2. \A l \in new .. (ra_lba - 1) : l \in last_read_lba .. (ra_lba - 1)
          BY <3>3, <3>4
        <5>3. new < ra_lba \/ new = ra_lba
          BY <3>3, <3>4, <5>1
        <5>4. new = ra_lba /\ new <= LBA_Read_Maximum => rpc' \in Fetching
          BY <3>2, <4>1, <4>2 DEF Fetching
        <5>5. last_read_lba' = new
          BY <3>1 DEF new
        <5> QED BY <2>1, <4>1, <4>3, <5>2, <5>3, <5>4, <5>5 DEF IInv, WindowHeld, ringvars
      <4>4. CASE ~ (last_read_lba <= LBA_Read_Maximum)
        BY <3>1, <3>3, <3>4, <4>4, LbaAssumption DEF WindowHeld, new
      <4> QED BY <4>3, <4>4
    <3>5. CASE new # last_read_lba + 1 /\ new # last_read_lba
      <4>1. ra_lba' = new /\ ReadAhead(new).count # 0
        BY <3>2, <3>5, RingAssumption DEF ReadAhead
      <4>2. new <= LBA_Read_Maximum => rpc' = "fetch"
        BY <3>2, <4>1
      <4> QED BY <3>1, <4>1, <4>2 DEF WindowHeld, Fetching
    <3>6. CASE new = last_read_lba
      <4>1. ra_lba' = ra_lba /\ last_read_lba' = last_read_lba
        BY <3>1, <3>2, <3>3, <3>6 DEF ReadAhead
      <4> QED BY <1>2, <2>1, <4>1 DEF Dequeue, IInv, WindowHeld, Fetching, ringvars
    <3> QED BY <3>4, <3>5, <3>6
  <2> QED BY <2>2, <2>3
<1>3. CASE QueueEmpty
  BY <1>3, LbaAssumption DEF QueueEmpty, Continue, TypeOK, IInv, WindowHeld, Fetching, ringvars, readvars
<1>4. CASE ReadDisc
  BY <1>4 DEF ReadDisc, IInv, WindowHeld, Fetching, vars, ringvars, readvars
<1>5. CASE LockAndName
  <2> SUFFICES ASSUME last_read_lba <= LBA_Read_Maximum PROVE WindowHeld'
    BY <1>5 DEF LockAndName, WindowHeld, readvars
  <2>1. ra_count >= 1 /\ ra_lba - last_read_lba <= max_ra
    BY <1>5, RingAssumption DEF LockAndName, IInv, TypeOK, FetchInv, Fetching, ReadAheadBounded
  <2>2. \A l \in last_read_lba .. (ra_lba - 1) :
          /\ Back(SBWritePos, ra_lba - l) \in Slots
          /\ Back(SBWritePos, ra_lba - l) # SBWritePos
    BY <2>1, BackLemma, RingAssumption DEF IInv, TypeOK
  <2>3. \A i \in Slots : i # SBWritePos => SectorBuffers'[i] = SectorBuffers[i]
    BY <1>5 DEF LockAndName, IInv, TypeOK
  <2> QED BY <1>5, <2>2, <2>3 DEF LockAndName, IInv, WindowHeld, Fetching, readvars
<1>6. CASE Publish
  <2> SUFFICES ASSUME last_read_lba <= LBA_Read_Maximum PROVE WindowHeld'
    BY <1>6 DEF Publish, WindowHeld
  <2>0. /\ ra_lba \in Int /\ last_read_lba \in Int /\ ra_count \in Nat
        /\ SBWritePos \in Slots /\ SBWritePos' = NextSlot(SBWritePos)
        /\ ra_lba' = ra_lba + 1 /\ last_read_lba' = last_read_lba
    BY <1>6 DEF Publish, IInv, TypeOK
  <2>1. ra_count >= 1 /\ ra_lba - last_read_lba <= max_ra /\ last_read_lba <= ra_lba
    BY <1>6, RingAssumption DEF Publish, IInv, TypeOK, FetchInv, Fetching, ReadAheadBounded, WindowHeld
  <2>2. \A i \in Slots : i # SBWritePos => SectorBuffers'[i] = SectorBuffers[i]
    BY <1>6 DEF Publish, IInv, TypeOK
  <2>3. SectorBuffers'[SBWritePos].valid /\ SectorBuffers'[SBWritePos].lba = ra_lba
    BY <1>6 DEF Publish, IInv, TypeOK, ContentInv, SectorBuffer
  <2>4. ASSUME NEW l \in last_read_lba .. ra_lba
        PROVE  /\ SectorBuffers'[Back(SBWritePos', ra_lba + 1 - l)].valid
               /\ SectorBuffers'[Back(SBWritePos', ra_lba + 1 - l)].lba = l
    <3>1. CASE l = ra_lba
      <4>1. ra_lba + 1 - l = 1
        BY <2>0, <3>1
      <4> QED BY <2>0, <2>3, <3>1, <4>1, BackLemma
    <3>2. CASE l # ra_lba
      <4>1. l \in last_read_lba .. (ra_lba - 1) /\ ra_lba - l \in 1 .. max_ra
        BY <2>0, <2>1, <2>4, <3>2, RingAssumption
      <4>2. ra_lba + 1 - l = (ra_lba - l) + 1
        BY <2>0, <2>4
      <4>3. /\ Back(SBWritePos', ra_lba + 1 - l) = Back(SBWritePos, ra_lba - l)
            /\ Back(SBWritePos, ra_lba - l) \in Slots
            /\ Back(SBWritePos, ra_lba - l) # SBWritePos
        BY <2>0, <4>1, <4>2, BackLemma
      <4>4. /\ SectorBuffers[Back(SBWritePos, ra_lba - l)].valid
            /\ SectorBuffers[Back(SBWritePos, ra_lba - l)].lba = l
        BY <4>1 DEF IInv, WindowHeld
      <4> QED BY <2>2, <4>3, <4>4
    <3> QED BY <3>1, <3>2
  <2> QED BY <2>0, <2>1, <2>4 DEF WindowHeld
<1>7. CASE Construct
  BY <1>7 DEF Construct, StartInv, IInv, WindowHeld, Fetching, ringvars, readvars
<1>8. CASE AwaitTOC
  BY <1>8 DEF AwaitTOC, Cleanup, SendToReader, IInv, WindowHeld, Fetching, ringvars, readvars
<1>9. CASE Lock
  BY <1>9 DEF Lock, IInv, WindowHeld, Fetching, vars, ringvars, readvars
<1>10. CASE Scan
  BY <1>10 DEF Scan, Winner, Holding, IInv, WindowHeld, Fetching, vars, ringvars, readvars
<1>11. CASE Join
  BY <1>11 DEF Join, IInv, WindowHeld, Fetching, vars, ringvars, readvars
<1>12. CASE Destroy
  BY <1>12 DEF Destroy, Cleanup, SendToReader, IInv, WindowHeld, Fetching, ringvars, readvars
<1>13. ASSUME NEW l \in Lbas, HintReadSector(l) PROVE WindowHeld'
  BY <1>13 DEF HintReadSector, SendToReader, IInv, WindowHeld, Fetching, ringvars, readvars
<1>14. ASSUME NEW l \in Lbas, ReadRawSector(l) PROVE WindowHeld'
  BY <1>14 DEF ReadRawSector, SendToReader, IInv, WindowHeld, Fetching, ringvars, readvars
<1>15. ASSUME NEW l \in Lbas, ReadOutOfBounds(l) PROVE WindowHeld'
  BY <1>15 DEF ReadOutOfBounds, IInv, WindowHeld, Fetching, vars, ringvars, readvars
<1>16. CASE SpuriousQueueWakeup
  BY <1>16 DEF SpuriousQueueWakeup, IInv, WindowHeld, Fetching, vars, ringvars, readvars
<1>17. CASE SpuriousWakeup
  BY <1>17 DEF SpuriousWakeup, IInv, WindowHeld, Fetching, vars, ringvars, readvars
<1> QED
  BY <1>1, <1>2, <1>3, <1>4, <1>5, <1>6, <1>7, <1>8, <1>9, <1>10, <1>11, <1>12, <1>13, <1>14, <1>15, <1>16, <1>17 DEF Next, ReadThread, EmuThread, EmuCall

-----------------------------------------------------------------------------
\* The invariant is inductive.
THEOREM Inductive == IInv /\ [Next]_vars => IInv'
<1>1. ASSUME IInv, Next PROVE IInv'
  BY <1>1, TypeStep, StartStep, MutexStep, FetchStep, RequestStep, ContentStep,
     ReadAheadStep, WindowStep, SleepStep, ReadsStep DEF IInv
<1>2. ASSUME IInv, UNCHANGED vars PROVE IInv'
  BY <1>2 DEF IInv, TypeOK, StartInv, MutexInv, FetchInv, RequestInv, ContentInv, InRange,
     ReadAheadBounded, WindowHeld, SleepsForAReason, Holding, ReadsWhatWasAsked, vars,
     ringvars, readvars
<1> QED BY <1>1, <1>2

\* A request is never lost: its sector is in the ring, on its way, or still asked for.
LEMMA NotLost == IInv => RequestNotLost
<1> SUFFICES ASSUME IInv, epc \in Reading, ReadThreadQueue = <<>>
             PROVE  Holding(lba) # {} \/ (rpc \in Fetching /\ ra_lba = lba)
  <2>1. ASSUME IInv, epc \in Reading, ReadThreadQueue # <<>>
        PROVE  \E i \in DOMAIN ReadThreadQueue : ReadThreadQueue[i] = READ_SECTOR(lba)
    <3>1. Len(ReadThreadQueue) \in DOMAIN ReadThreadQueue
      BY <2>1 DEF IInv, TypeOK
    <3> QED BY <2>1, <3>1 DEF IInv, RequestInv
  <2> QED BY <2>1 DEF RequestNotLost
<1>1. last_read_lba = lba /\ lba <= LBA_Read_Maximum
  BY DEF IInv, RequestInv, InRange
<1>2. CASE last_read_lba < ra_lba
  <2>1. lba \in lba .. (ra_lba - 1) /\ ra_lba - lba \in 1 .. (max_ra + 1)
    BY <1>1, <1>2, RingAssumption DEF IInv, TypeOK, ReadAheadBounded
  <2>2. Back(SBWritePos, ra_lba - lba) \in Slots
    BY <2>1, RingAssumption DEF IInv, TypeOK, Slots, Back
  <2>3. Back(SBWritePos, ra_lba - lba) \in Holding(lba)
    BY <1>1, <2>1, <2>2 DEF IInv, WindowHeld, Holding
  <2> QED BY <2>3
<1>3. CASE ~ (last_read_lba < ra_lba)
  BY <1>1, <1>3 DEF IInv, WindowHeld
<1> QED BY <1>2, <1>3

\* The invariant holds for every disc, ring and read-ahead parameters, and with it
\* what it is made of.
THEOREM Invariant == Spec => []IInv
  BY Initial, Inductive, PTL DEF Spec

\* Every variable keeps its type: in particular ra_count never goes below zero.
THEOREM TypeCorrect == Spec => []TypeOK
<1>1. IInv => TypeOK
  BY DEF IInv
<1> QED BY Invariant, <1>1, PTL

\* Read-ahead stays within max_ra sectors of the last request.
THEOREM BoundedReadAhead == Spec => []ReadAheadBounded
<1>1. IInv => ReadAheadBounded
  BY DEF IInv
<1> QED BY Invariant, <1>1, PTL

\* The ring holds every sector from the last request up to where read-ahead is.
THEOREM WindowStays == Spec => []WindowHeld
<1>1. IInv => WindowHeld
  BY DEF IInv
<1> QED BY Invariant, <1>1, PTL

\* No request is consumed without its sector coming, nor is the sector
\* overwritten before it is taken.
THEOREM RequestStays == Spec => []RequestNotLost
<1>1. IInv => RequestNotLost
  BY NotLost
<1> QED BY Invariant, <1>1, PTL

\* The emulator thread does not sleep on while its sector is in the ring.
THEOREM NoLostWakeup == Spec => []SleepsForAReason
<1>1. IInv => SleepsForAReason
  BY DEF IInv
<1> QED BY Invariant, <1>1, PTL

\* A read that succeeds returns the sector that was asked for, whole.
THEOREM ReadsCorrectly == Spec => []ReadsWhatWasAsked
<1>1. IInv => ReadsWhatWasAsked
  BY DEF IInv
<1> QED BY Invariant, <1>1, PTL

-----------------------------------------------------------------------------
\* The read thread, the queue and the ring together do nothing the synchronous
\* interface does not allow (its liveness is checked by TLC).

\* Each step is a step of the synchronous interface, or none.
LEMMA DeviceStep == ASSUME IInv, Next PROVE [Device!AbsNext]_(Device!absvars)
<1>1. CASE ReadTOC
  BY <1>1 DEF ReadTOC, SendToEmu, Reading, Device!absvars
<1>2. CASE Dequeue
  BY <1>2 DEF Dequeue, Reading, Device!absvars
<1>3. CASE QueueEmpty
  BY <1>3 DEF QueueEmpty, Reading, Device!absvars
<1>4. CASE ReadDisc
  BY <1>4 DEF ReadDisc, IInv, TypeOK, StartInv, MutexInv, Reading, vars, ringvars, readvars, Device!absvars
<1>5. CASE LockAndName
  BY <1>5 DEF LockAndName, IInv, TypeOK, StartInv, MutexInv, Reading, vars, ringvars, readvars, Device!absvars
<1>6. CASE Publish
  BY <1>6 DEF Publish, SignalEmu, Reading, Device!absvars
<1>7. CASE Construct
  BY <1>7 DEF Construct, IInv, TypeOK, StartInv, MutexInv, Reading, vars, ringvars, readvars, Device!absvars
<1>8. CASE AwaitTOC
  BY <1>8 DEF AwaitTOC, Cleanup, Reading, Device!absvars, Device!AbsNext, Device!AbsOpen
<1>9. CASE Lock
  BY <1>9 DEF Lock, IInv, TypeOK, StartInv, MutexInv, Reading, vars, ringvars, readvars, Device!absvars
<1>10. CASE Scan
  <2>1. CASE UNCHANGED ret /\ epc' = "cwait"
    BY <1>10, <2>1 DEF Scan, Reading, Device!absvars
  <2>2. ASSUME NEW i \in Slots, Winner(i), epc' = "idle",
               ret' = [ok |-> ~ SectorBuffers[i].error, data |-> SectorBuffers[i].data]
        PROVE  [Device!AbsNext]_(Device!absvars)
    <3>1. SectorBuffers[i].valid /\ SectorBuffers[i].lba = lba /\ rpc # "copy"
      BY <1>10, <2>2 DEF Scan, Winner, Holding, IInv, MutexInv
    <3>2. SectorBuffers[i].data = IF SectorBuffers[i].error THEN NoData ELSE lba
      BY <3>1 DEF IInv, ContentInv
    <3>3. SectorBuffers[i].error \in BOOLEAN
      BY DEF IInv, TypeOK, SectorBuffer
    <3>4. ret' \in {Device!Failed, Device!Sector(lba)}
      <4>1. CASE SectorBuffers[i].error = TRUE
        BY <2>2, <3>2, <4>1 DEF Device!Failed
      <4>2. CASE SectorBuffers[i].error = FALSE
        BY <2>2, <3>2, <4>2 DEF Device!Sector
      <4> QED BY <3>3, <4>1, <4>2
    <3>5. Device!AbsReturn
      BY <1>10, <2>2, <3>4 DEF Scan, Reading, Device!AbsReturn
    <3> QED BY <3>5 DEF Device!AbsNext
  <2> QED BY <1>10, <2>1, <2>2 DEF Scan
<1>11. CASE Join
  BY <1>11 DEF Join, Reading, Device!AbsNext, Device!AbsClosed, Device!absvars
<1>12. CASE Destroy
  BY <1>12 DEF Destroy, Cleanup, Reading, Device!AbsNext, Device!AbsClose, Device!absvars
<1>13. ASSUME NEW l \in Lbas, HintReadSector(l) PROVE [Device!AbsNext]_(Device!absvars)
  BY <1>13 DEF HintReadSector, Device!absvars
<1>14. ASSUME NEW l \in Lbas, ReadRawSector(l) PROVE [Device!AbsNext]_(Device!absvars)
  <2>1. Device!AbsCall(l)
    BY <1>14 DEF ReadRawSector, Reading, InRange, Failed, Device!AbsCall, Device!InRange, Device!Failed
  <2> QED BY <2>1 DEF Device!AbsNext
<1>15. ASSUME NEW l \in Lbas, ReadOutOfBounds(l) PROVE [Device!AbsNext]_(Device!absvars)
  <2>1. Device!AbsCall(l)
    BY <1>15 DEF ReadOutOfBounds, Reading, InRange, Failed, Device!AbsCall, Device!InRange, Device!Failed
  <2> QED BY <2>1 DEF Device!AbsNext
<1>16. CASE SpuriousQueueWakeup
  BY <1>16 DEF SpuriousQueueWakeup, IInv, TypeOK, StartInv, MutexInv, Reading, vars, ringvars, readvars, Device!absvars
<1>17. CASE SpuriousWakeup
  BY <1>17 DEF SpuriousWakeup, IInv, TypeOK, StartInv, MutexInv, Reading, vars, ringvars, readvars, Device!absvars
<1> QED
  BY <1>1, <1>2, <1>3, <1>4, <1>5, <1>6, <1>7, <1>8, <1>9, <1>10, <1>11, <1>12, <1>13, <1>14, <1>15, <1>16, <1>17 DEF Next, ReadThread, EmuThread, EmuCall

\* CDInterface_MT implements CDInterface.
THEOREM DeviceRefinement == Spec => Device!AbsInit /\ [][Device!AbsNext]_(Device!absvars)
<1>1. Init => Device!AbsInit
  BY DEF Init, Failed, Reading, Device!AbsInit, Device!Failed
<1>2. IInv /\ [Next]_vars => [Device!AbsNext]_(Device!absvars)
  <2>1. ASSUME UNCHANGED vars PROVE UNCHANGED Device!absvars
    BY <2>1 DEF vars, Reading, Device!absvars
  <2> QED BY <2>1, DeviceStep
<1> QED BY Initial, Inductive, <1>1, <1>2, PTL DEF Spec
=============================================================================
