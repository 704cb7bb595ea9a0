---------------------------- MODULE MTStreamReader ----------------------------
(***************************************************************************)
(* The background stream reader, MTStreamReader.cpp and .h.  A read thread *)
(* fills a ring of bytes, a whole one when a stream is chosen and then a   *)
(* quarter at a time, while the client reads from the ring through a bare  *)
(* pointer.  The two hand the shared variables over with two semaphores:   *)
(* a command is posted only after the last one was acknowledged.           *)
(*                                                                         *)
(* A byte is the pair of its stream and its place there; Zero is <<0, 0>>. *)
(***************************************************************************)
EXTENDS Integers, Sequences

CONSTANTS Buffer_Size, Overbuffer_Count,
          Streams,      \* sequence of [size, loop_pos]
          Skips, Pzbs,  \* arguments of set_active_stream
          MaxPos,       \* model bound: how far the client reads
          Failures      \* which of "read", "affinity" may happen

ASSUME BufferAssumption ==
  /\ Buffer_Size \in Nat \ {0} /\ Buffer_Size % 4 = 0
  /\ Overbuffer_Count \in 1 .. (Buffer_Size \div 4)
  /\ Pzbs \subseteq 0 .. Buffer_Size /\ Skips \subseteq Nat
  /\ Failures \subseteq {"read", "affinity"}

ASSUME StreamsAssumption ==
  /\ Streams \in Seq([size : Nat, loop_pos : Nat]) /\ Streams # <<>>
  /\ \A w \in DOMAIN Streams : Streams[w].loop_pos <= Streams[w].size

VARIABLES
  command_sem, ack_sem,
  pending,          \* the command and its arguments
  buffer,
  read_pos, need_sync,          \* the client's
  write_pos, active, tell,      \* the read thread's; tell is the file's own position
  count, basep,     \* of read_into_buffer: bytes left, and where the loop was just read
  running, failed,
  tpc, cpc,         \* where the thread and the client are
  call,             \* the command the client wants to post
  using,            \* how many bytes the client reads through its pointer
  asked             \* the last set_active_stream

thread == <<active, tell, count, basep, running, failed, tpc>>
client == <<read_pos, need_sync, cpc, call, using, asked>>
vars == <<command_sem, ack_sem, pending, buffer, write_pos, thread, client>>

Zero == <<0, 0>>
Torn == <<0, 1>>    \* whatever a read that throws leaves
Places == 0 .. (Buffer_Size + Overbuffer_Count - 1)
Smaller(a, b) == IF a < b THEN a ELSE b

ChunkHalf == Buffer_Size \div 2    \* mutant
Chunk_Size == Buffer_Size \div 4

SetActive(w, skip, pzb) == [command |-> "SetActive", w |-> w, skip |-> skip, pzb |-> pzb]
Command(c) == [command |-> c]

Init ==
  /\ command_sem = 0 /\ ack_sem = 0 /\ pending = Command("NOP")
  /\ buffer = [i \in Places |-> Zero]
  /\ read_pos = 0 /\ need_sync = FALSE /\ cpc = "new" /\ using = 0
  /\ call = Command("NOP") /\ asked = SetActive(1, 0, 0)
  /\ write_pos = 0 /\ active = [w |-> 0, pos |-> 0] /\ tell = 0
  /\ count = 0 /\ basep = {} /\ running = TRUE /\ failed = FALSE /\ tpc = "wait"

-----------------------------------------------------------------------------
(* The read thread.                                                         *)

size == Streams[active.w].size
loop_pos == Streams[active.w].loop_pos

\* Where playing on from skip is, once it has passed the end: round the loop, or
\* at the end if there is none.
Wrap(s, skip) ==
  IF skip < s.size THEN skip
  ELSE IF s.loop_pos = s.size THEN s.size
  ELSE s.loop_pos + ((skip - s.loop_pos) % (s.size - s.loop_pos))

\* The buffer b with the bytes of f, which starts at 0, put in from p on, wrapping.
Fill(b, p, f) ==
  [i \in Places |-> IF i < Buffer_Size /\ (i - p) % Buffer_Size \in DOMAIN f
                    THEN f[(i - p) % Buffer_Size] ELSE b[i]]

\* The bytes at the start again past the end, so that the client need not wrap.
Overbuffer(b) ==
  [i \in Places |-> IF i < Buffer_Size THEN b[i] ELSE b[i - Buffer_Size]]

zero_into_buffer(n) ==
  /\ buffer' = Overbuffer(Fill(buffer, write_pos, [i \in 0 .. (n - 1) |-> Zero]))
  /\ write_pos' = write_pos + n

\* Sem_Wait(command_sem).  After an error every command but the last is a NOP.
Dispatch ==
  /\ tpc = "wait" /\ running /\ command_sem > 0
  /\ command_sem' = command_sem - 1
  /\ \/ /\ pending.command = "Exit" /\ running' = FALSE /\ tpc' = "ack"
        /\ UNCHANGED <<active, tell, count, write_pos, buffer>>
     \/ /\ pending.command = "NOP" \/ (failed /\ pending.command # "Exit")
        /\ tpc' = "ack"
        /\ UNCHANGED <<active, tell, count, write_pos, buffer, running>>
     \/ /\ pending.command = "SetActive" /\ ~ failed /\ tpc' = "read"
        /\ tell' = Wrap(Streams[pending.w], pending.skip)
        /\ active' = [w |-> pending.w, pos |-> tell']
        /\ zero_into_buffer(pending.pzb)
        /\ count' = Buffer_Size - pending.pzb
        /\ UNCHANGED running
     \/ /\ pending.command = "BufferNext" /\ ~ failed /\ tpc' = "read"
        /\ count' = Chunk_Size
        /\ UNCHANGED <<active, tell, write_pos, buffer, running>>
  /\ UNCHANGED <<ack_sem, pending, client, basep, failed>>

\* One stretch that ends at the end of the ring, of the stream, or of the request.
Stretch == Smaller(Buffer_Size - (write_pos % Buffer_Size),
                   Smaller(count, size - active.pos))

\* Out of the file, or, when the stretch before was the whole loop, out of the ring.
Bytes(i) == IF basep = {} THEN <<active.w, tell + i>>
            ELSE buffer[(CHOOSE p \in basep : TRUE) + (active.pos - loop_pos) + i]

LoopJustRead(n) == basep = {} /\ loop_pos < size /\ size - loop_pos = n

ReadStretch ==
  /\ tpc = "read" /\ count > 0 /\ active.pos # size
  /\ LET n == Stretch
         read == IF basep = {} THEN tell + n ELSE tell
     IN  /\ buffer' = Fill(buffer, write_pos, [i \in 0 .. (n - 1) |-> Bytes(i)])
         /\ write_pos' = write_pos + n
         /\ count' = count - n
         /\ IF active.pos + n # size
            THEN /\ active' = [active EXCEPT !.pos = active.pos + n]
                 /\ tell' = read
                 /\ UNCHANGED basep
            ELSE /\ active' = [active EXCEPT !.pos = loop_pos]
                 /\ IF LoopJustRead(n)
                    THEN basep' = {write_pos % Buffer_Size} /\ tell' = read
                    ELSE /\ tell' = IF basep = {} THEN loop_pos ELSE read
                         /\ UNCHANGED basep
  /\ UNCHANGED <<command_sem, ack_sem, pending, client, running, failed, tpc>>

\* At the end of a stream that does not loop.
ZeroRest ==
  /\ tpc = "read" /\ count > 0 /\ active.pos = size
  /\ zero_into_buffer(count) /\ count' = 0
  /\ UNCHANGED <<command_sem, ack_sem, pending, client, active, tell, basep,
                 running, failed, tpc>>

NoSeek == tell    \* mutant
SeekAfterCopy == IF basep = {} THEN tell ELSE active.pos

FinishRead ==
  /\ tpc = "read" /\ count = 0
  /\ tell' = SeekAfterCopy
  /\ basep' = {}
  /\ buffer' = Overbuffer(buffer)
  /\ tpc' = "ack"
  /\ UNCHANGED <<command_sem, ack_sem, pending, write_pos, client, active, count,
                 running, failed>>

\* The exception leaves the loop before this command's acknowledgement.
ReadThrows ==
  /\ "read" \in Failures /\ tpc = "read" /\ count > 0 /\ active.pos # size /\ basep = {}
  /\ buffer' = Fill(buffer, write_pos, [i \in 0 .. (Stretch - 1) |-> Torn])
  /\ failed' = TRUE /\ tpc' = "wait" /\ count' = 0
  /\ UNCHANGED <<command_sem, ack_sem, pending, write_pos, client, active,
                 tell, basep, running>>

PostedUnlessNOP == IF pending.command = "NOP" THEN ack_sem ELSE ack_sem + 1    \* mutant
Posted == ack_sem + 1
LoopOrEnd == IF running THEN "wait" ELSE "done"

Acknowledge ==
  /\ tpc = "ack" /\ ack_sem' = Posted /\ tpc' = LoopOrEnd
  /\ UNCHANGED <<command_sem, pending, buffer, write_pos, client, active, tell,
                 count, basep, running, failed>>

ReadThread == Dispatch \/ ReadStretch \/ ZeroRest \/ FinishRead \/ ReadThrows \/ Acknowledge

-----------------------------------------------------------------------------
(* The client.  A call that has to wait for the last command is in cpc.     *)

Construct ==
  /\ cpc = "new" /\ cpc' = "opened"
  /\ pending' = Command("NOP") /\ command_sem' = command_sem + 1
  /\ UNCHANGED <<ack_sem, buffer, write_pos, thread, read_pos, need_sync, call, using, asked>>

\* The thread's affinity cannot be set: the constructor cleans up, and waits for the
\* acknowledgement of a command it has not posted.
ConstructFails ==
  /\ "affinity" \in Failures
  /\ cpc = "new" /\ cpc' = "cleanup" /\ call' = Command("Exit")
  /\ UNCHANGED <<command_sem, ack_sem, pending, buffer, write_pos, thread, read_pos,
                 need_sync, using, asked>>

\* set_active_stream, up to its wait.
CallSetActive(w, skip, pzb) ==
  /\ cpc \in {"opened", "idle"}
  /\ cpc' = "call" /\ call' = SetActive(w, skip, pzb) /\ using' = 0
  /\ UNCHANGED <<command_sem, ack_sem, pending, buffer, write_pos, thread, read_pos,
                 need_sync, asked>>

\* get_buffer: the first one after set_active_stream waits for the ring to be full.
get_buffer(n) ==
  /\ cpc = "idle" /\ using' = n
  /\ IF need_sync THEN cpc' = "call" /\ call' = Command("NOP") ELSE UNCHANGED <<cpc, call>>
  /\ UNCHANGED <<command_sem, ack_sem, pending, buffer, write_pos, thread, read_pos,
                 need_sync, asked>>

Crosses(p, n) == (p \div Chunk_Size) % 2 # ((p + n) \div Chunk_Size) % 2

\* advance, after which the pointer is no longer used.
advance(n) ==
  /\ cpc = "idle" /\ using > 0 /\ read_pos + n <= MaxPos
  /\ read_pos' = read_pos + n /\ using' = 0
  /\ IF Crosses(read_pos, n) THEN cpc' = "call" /\ call' = Command("BufferNext")
     ELSE UNCHANGED <<cpc, call>>
  /\ UNCHANGED <<command_sem, ack_sem, pending, buffer, write_pos, thread, need_sync, asked>>

\* The destructor, up to its wait.
CallExit ==
  /\ cpc \in {"opened", "idle"}
  /\ cpc' = "call" /\ call' = Command("Exit") /\ using' = 0
  /\ UNCHANGED <<command_sem, ack_sem, pending, buffer, write_pos, thread, read_pos,
                 need_sync, asked>>

\* Mutant: a command posted without waiting for the last one.
PostAtOnce == UNCHANGED ack_sem
AwaitAck == ack_sem > 0 /\ ack_sem' = ack_sem - 1

\* Sem_Wait(ack_sem) returns, and the command is posted.
Post ==
  /\ cpc \in {"call", "cleanup"} /\ AwaitAck
  /\ pending' = call /\ command_sem' = command_sem + 1
  /\ \/ /\ call.command = "SetActive"
        /\ read_pos' = 0 /\ write_pos' = 0 /\ need_sync' = TRUE /\ asked' = call
        /\ cpc' = "idle"
     \/ /\ call.command = "NOP" /\ need_sync' = FALSE
        /\ cpc' = "idle"
        /\ UNCHANGED <<read_pos, write_pos, asked>>
     \/ /\ call.command \in {"BufferNext", "Exit"}
        /\ cpc' = IF call.command = "Exit" THEN "join" ELSE "idle"
        /\ UNCHANGED <<read_pos, write_pos, need_sync, asked>>
  /\ UNCHANGED <<buffer, thread, call, using>>

Join ==
  /\ cpc = "join" /\ tpc = "done" /\ cpc' = "gone"
  /\ UNCHANGED <<command_sem, ack_sem, pending, buffer, write_pos, thread, read_pos,
                 need_sync, call, using, asked>>

Call == \/ Construct \/ ConstructFails \/ CallExit
        \/ \E w \in DOMAIN Streams, skip \in Skips, pzb \in Pzbs : CallSetActive(w, skip, pzb)
        \/ \E n \in 1 .. Overbuffer_Count : get_buffer(n) \/ advance(n)

Client == Post \/ Join

Next == ReadThread \/ Client \/ Call

\* Both threads are scheduled; the client calls when it likes.
Spec == Init /\ [][Next]_vars /\ WF_vars(ReadThread) /\ WF_vars(Client)

-----------------------------------------------------------------------------
Byte == (1 .. Len(Streams)) \X Nat \cup {Zero, Torn}
Commands == {Command(c) : c \in {"NOP", "BufferNext", "Exit"}}
            \cup {SetActive(w, skip, pzb) : w \in DOMAIN Streams, skip \in Skips, pzb \in Pzbs}

TypeOK ==
  /\ command_sem \in {0, 1} /\ ack_sem \in {0, 1}
  /\ pending \in Commands /\ call \in Commands
  /\ buffer \in [Places -> Byte]
  /\ read_pos \in Nat /\ need_sync \in BOOLEAN
  /\ write_pos \in Nat /\ tell \in Nat
  /\ active.w \in 0 .. Len(Streams) /\ active.pos \in Nat
  /\ count \in 0 .. Buffer_Size /\ basep \subseteq 0 .. (Buffer_Size - 1)
  /\ running \in BOOLEAN /\ failed \in BOOLEAN
  /\ tpc \in {"wait", "read", "ack", "done"}
  /\ cpc \in {"new", "opened", "call", "cleanup", "idle", "join", "gone"}
  /\ using \in 0 .. Overbuffer_Count

\* The byte at position k of what was asked for: the zeroes first, then the stream
\* from skip on, round its loop for ever or zeroes again after its end.
Expected(k) ==
  LET s == Streams[asked.w]
      p == Wrap(s, asked.skip + (k - asked.pzb))
  IN  IF k < asked.pzb \/ p = s.size THEN Zero ELSE <<asked.w, p>>

\* All the while the client reads through its pointer, and whatever the read thread
\* writes meanwhile, what is there is what was asked for.
ReadsTheStream ==
  cpc = "idle" /\ using > 0 =>
    \A i \in 0 .. (using - 1) : buffer[(read_pos % Buffer_Size) + i] = Expected(read_pos + i)

\* The file is where the reader believes it is whenever the client may give the
\* next command, though the loop is sometimes copied without reading it again.
FileInStep == ack_sem > 0 /\ ~ failed /\ active.w > 0 => tell = active.pos

\* Of the two sides at most one may touch what they share.
OneSideAtATime ==
  command_sem + ack_sem + (IF tpc \in {"read", "ack"} THEN 1 ELSE 0) <= 1

\* Every call returns.  "Wait for command ack, then send read next buffer command to
\* read thread" (MTStreamReader.h:70): a command is acknowledged.
CallsReturn == cpc = "call" ~> cpc # "call"

\* Every call returns as long as no read has failed.
CallsReturnUnlessFailed == cpc = "call" ~> (cpc # "call" \/ failed)
=============================================================================
