# A TLA+ model of Mednafen's engine

This directory is a verification project for the parts of Mednafen (as vendored
in OpenEmu's Mednafen-Core) that several threads, several machines or several features at
once act on: disc reading, the Saturn's CD block, the background stream reader, the two
render threads, state rewinding, input movies with everything a movie has to stay in step
with, the netplay client, and the two threads of the command-line driver. TLC checks each
model on a small instance; TLAPS proves safety properties of eight of them for every one.

Paths below are relative to `src/mednafen/`.

## 1. The system

Mednafen emulates some sixteen game systems. Its core is one loop,
`MDFNI_Emulate` (mednafen.cpp:1873), called by the driver once a frame. Around
that sequential loop are a few background threads, and a set of features that
all read or replace the same machine state.

| Component | State | Operations | Interacts with | What is hard | What makes it correct |
|---|---|---|---|---|---|
| Frame (mednafen.cpp) | the emulated machine, port data, pending media | `MDFNI_Emulate`, `MDFN_MidSync`, simple commands, `MDFNI_SetMedia` | netplay, movie, rewind (in that order), then the core | a mid-frame poll repeats half the sequence | every input reaches machine, movie and peers once, in one order |
| Save states (state.cpp) | sections of (name, size, data); errors kept until the end of a load | `MDFNSS_SaveSM`, `MDFNSS_LoadSM`, `MDFNI_SaveState/LoadState` | all | a load that fails half way has replaced part of the machine | load(save(x)) = x; what is recorded is what was loaded |
| State rewind (state_rewind.cpp) | ring `bcs` of compressed XOR differences, `ss_prev`, `bcs_pos` | `MDFNSRW_Begin/End/Frame`, `DoRecord`, `DoRewind` | save states, movie | states of unequal length, wrap-around, an exception in the middle | rewinding restores exactly the states recorded, newest first |
| Movies (movie.cpp) | mode, stream and its position | `MDFNI_SaveMovie/LoadMovie`, `MDFNMOV_ProcessInput/AddCommand/RecordState/StateAction` | all of the above and netplay | inputs are written before a rewind is carried out | the file replays to the machine |
| Netplay client (netplay.cpp) | connection, own controllers, nick, list of players | `NetplayStart`, `NetplayStop`, `Netplay_Update`, `ProcessCommand`, `NetplaySendCommand/State` | frame, movie, save states, a server that is not in this repository | commands, states and controller changes of all clients cross the frames under way | all clients feed their machines the same |
| Disc interface (cdrom/CDInterface_MT.cpp) | two message queues, a ring of sectors, read-ahead | `ReadRawSector`, `HintReadSector`, constructor, destructor; the read thread | the cores' drives (scsicd.cpp, psx/cdc.cpp, ss/cdb.cpp) | two threads, a mutex, condition variables, read-ahead overwriting the ring | a read returns the sector asked for, and returns |
| Stream reader (MTStreamReader.cpp) | ring of bytes, two semaphores, one pending command | `set_active_stream`, `get_buffer`, `advance`; the read thread | snes_faust/msu1.cpp | the client reads by pointer while the thread writes | the bytes are those of the stream, in order, round its loop |
| Render queues (ss/vdp2_render.cpp, snes_faust/ppu_mtrender.cpp) | a command ring, counters, semaphores | writes, draw line, end of frame, save states | Saturn and SNES cores | lock-free; sleeping and waking | the picture is the one a synchronous renderer would draw |
| Saturn CD block (ss/cdb.cpp) | sector buffers in linked lists, filters, drive phase, command coroutine, file operation, data transfer | some sixty host commands, register reads and writes, `Drive_Run`, tray, reset | disc interface; the Saturn's program | commands wait in the middle; drive, file operation and program go on meanwhile | no buffer lost or shared; sectors in order; each command its own answer; what is begun ends |
| Driver threads (drivers/main.cpp) | two frame buffers, `VTReady`, requests and flags, `gtevents` | `MainVideoLoop`, `PumpWrap`, `GameLoop`, `MDFND_Update`, `CloseGame` | frame, display | flags read without the mutex, waits on each other | never draw what is shown; each event once; exit ends |
| FIFO (AtomicFIFO.h) | ring, two positions, a counter | `CanRead/CanWrite`, `Write`, `Read`, `Peek`, `AdvanceRead` | driver | one writer, one reader, no lock | first in, first out |
| Cores (ss, psx, md, nes, ...) | registers, memory, timers | one `Emulate` each | the frame | sequential | as the hardware |
| Display, sound, file formats, codecs | | | | input and output, parsing | |

`PROJECT.json` lists every component with the reason where it is not modelled, and
every hazard at its line with the properties that cover it.

## 2. What is modelled

### CDInterface, CDInterface_MT: the disc interface

`CDInterface` is the promise: an object that opens or fails to, whose
`ReadRawSector` returns the sector asked for or a failure with a zeroed buffer,
and that closes. `CDInterface_MT` is the code. The read thread (`ReadThreadStart`)
and the emulator thread are two program counters, `rpc` and `epc`; the two
`CDInterface_Queue`s are sequences, each critical section of a queue being one
action, since nothing in it blocks but `Cond_Wait` (with spurious wakeups).
`SBMutex` is a variable, because the long sections under it, copying a sector into
the ring and scanning the ring, are what it is for: a sector under construction
is visible as a slot without data.
`Dequeue` and `ReadAhead` are the arithmetic on `ra_lba`, `ra_count` and
`last_read_lba`; `ReadDisc` may fail.

Properties: the read-ahead limit (`ReadAheadBounded`, proved and not in the run: the branch at line 190 that
ignores it never decides); every sector of the current read-ahead window is in
the ring (`WindowHeld`); a sector asked for is in the ring, about to be, or its
request still queued, in every state the caller waits for it (`RequestNotLost`);
the caller never sleeps beside what it waits for (`SleepsForAReason`); a returned
sector is the one asked for (`ReadsWhatWasAsked`). `ImplementsDevice`: the whole implements
`CDInterface`, its liveness included, by which every read returns and every close ends.

### RewindStack, StateRewind: state rewinding

`RewindStack` is a bounded stack of whole states with one rule of its own: the last
state is kept and can be loaded again and again. `StateRewind` is the code, with the
arithmetic that matters: save states are bit sequences of varying length, a packet is
the XOR over the shorter of the two lengths, and rebuilding a state needs the one that
followed it. `ImplementsStack` says that what the ring decompresses to, walked from
`ss_prev` back, is the stack. `PacketsContiguous` is what makes it so: packets form
one run behind `bcs_pos`, and none outlives the state it is a difference from.

### Movie: movies and the frame

`Movie` composes the frame's order (netplay, movie, rewind, run, mid-frame poll) with
the player's commands. The machine is deterministic, hence it is represented by the
sequence of what it was fed since power-on; a save state is that and the port data;
a movie is a sequence of tokens. Rewinding reuses `RewindStack` (which
`StateRewind` implements).

A load that fails (`LoadFails`) is part of the model, the player's (`MDFNI_LoadState`) as well as
netplay's (`RecvStateFails`, which ends the connection). `MDFNSS_LoadSM` throws the errors it has
kept only at its end (state.cpp:642), when some sections have been loaded: the ports have been
replaced, or not, the machine is what it was, or it was fed something no movie holds (`Halfway`), and
the handler (902) neither records that nor stops the recording. Loads that fail
before anything is loaded are the case in which nothing changes.

So there are moments at which a movie cannot be expected to match. The history variables
`session` and `departures` record which and why: a state loaded over a playback ("state"), a
load that failed half way ("load"), a netplay command ("netplay"), and rewinding to
before this movie was started ("rewind"). A departure ends where the two are put together again: with the
next state that loads and is recorded, or is met in the file, and with rewinding to a state of this movie that
was taken before it (`insync` in the rewind state).

`RecordingInSync`: after every frame, and after everything the player does in between, the
file so far replays to the machine, unless there was a departure that has not ended.
`PlaybackInSync`: the machine is where the movie was at this position, with the same exception.
`SnapshotsInSync`: rewinding to a state that was taken in step puts file and machine at the same
moment, whatever has happened since.

### MTStreamReader

A byte is the pair of its stream and its offset, so that reading a wrong byte shows.
The client (`cpc`) and the thread (`tpc`) pass the right to touch the shared fields
back and forth through the counts of the two semaphores. One stretch of
`read_into_buffer` is one action, so that the client reads in between. The client reads
through its pointer from `get_buffer` until `advance`: `ReadsTheStream` compares
what lies under it, in every state in between, with `Expected`, which is defined from
the arguments of `set_active_stream` alone. Two failures are in the model: a read that
throws, and a constructor that cannot set the thread's affinity (`ConstructFails`: its
cleanup then waits for ever, `cpc` = "cleanup").

### VDP2Render: the Saturn's render thread

The emulating thread queues every write to the video chip and every line; the render
thread carries them out on its own copy. The ring is the sequence of its entries,
since `WQ_InCount` is moved only after an entry is written or done with; `todo` is
what a call of the emulating thread is still to queue, so that it can be caught by a
full ring between any two entries. Memory, registers and layer mask are one value, and a
line shows the pair of that value and its `LIB` entry. `LIB` is the interesting
part: it is handed over in place, and what keeps it from being overwritten is only that
a frame has a slot for each line and that its end waits for all of them.

`FramesAsAsked`: every line shows memory and `LIB` as they were when it was asked for.
`DrawsIntoItsFrame`: no line is drawn into a surface that was let go.
`StateInStep`: states are saved and loaded when both copies agree and nothing is under
way. Liveness: `CallsReturn`, and `LinesGetDrawn`, which rests on the time-out of
`Sem_TimedWait`: a line is counted (vdp2_render.cpp:3473) before it is queued, so the
thread may fall asleep on a count that keeps later lines from waking it. The mutant
`UntimedWait` shows that without the time-out it sleeps on.

A reset in the middle of a frame (a clock change, smpc.cpp:1192) is in the model and
left out of `FramesAsAsked` (`restarted`): the line counter starts again, `LIB` is
filled in a second time, and what the frame's first lines show depends on the
render thread's delay.

### PPURender: the SNES render thread

The same idea with other means: each thread keeps its own positions in the ring and
publishes them now and then. All four and the two published ones are variables;
`PublishWrites`, `WaitUntilEmpty`, `PublishReads`, `Poll`, `Take` are the points where
they move. `todo` again holds what a call has left, a wait for a full ring being
pushed in front of it. The semaphores are left out: every wait on one has a
time-out and looks again. `BeginLine`, `RenderPhase` and `HBlank` are the phases of
`PPU_Update`; frames begin at line 0 or in vertical blanking, and with `SpecEx` each
`Emulate` runs a skipped frame, saves, runs the shown frame and loads.

`RingHolds`: between the two positions lies what was queued and not yet taken.
`DrawsIntoItsFrame`: the frame, replaced past the queue by `PPU_StartFrame`, is the
shown one whenever the render thread draws. `LinesAsAsked`: as for the Saturn.
`RestsBetweenFrames`: whenever a state may be copied into the renderer, it rests.

### CDBSelector, CDBlock, SectorStore: the Saturn's CD block

`CDBSelector` holds the sector buffers and filters. The lists are as in the code: `FirstFreeBuf`,
and for each partition `FirstBuf` and `LastBuf`, buffers doubly linked by `Prev` and `Next`, with
counts kept apart; `Buffer_Allocate`, `Partition_LinkBuffer` and the others are operators on them, and
`FilterBuf` follows a sector through the filters. `CDBlock` adds the drive (its phases, its
playing bounds, repeats and the sector it has read ahead), the command loop as a coroutine
(`cmd`: where it is, what is left of the command), the data transfer with its FIFO, file
operations (`fls`), resets, the tray, and the program with the registers. Clocks are
left out: wherever the code waits for some, drive, loop and program interleave as they like, which
is more than the hardware does. What the loop does without a wait is one step, or a chain of steps
nothing else may come between (`cmd.phase = "now"`).

There are ten programs (`MCCDBlock`), each a set of commands used in any order after some
it does first (its commands name only filters and partitions that there are, `Valid`: others are
turned down before they do anything): reading while the disc plays into the partition; writing, moving, copying and
deleting; connecting filters; plays with ends, repeats and pauses; plays that go on from where
the pickup is; the tray; resets; small files; a file that fills every buffer through another
partition; a disc whose volume descriptors are not the primary one. TLC meets every command, in a state space that is the
sum of theirs, not the product.

`BuffersAccounted`: in every state every buffer is in exactly one place (free list, a partition, or
held by a transfer), and links and counts agree. `ImplementsStore`: the lists then are what
`SectorStore` says, queues of sectors from which commands take, to which they add. `TransferSound`:
a transfer hands out the sectors that were asked for. `AtMostOneSource`: no filter input is fed
twice (hence no loops). `SectorsInOrder`: the sector read ahead is the one that is due.
`DriveHasDisc`: no phase that uses the disc without one. `AnswerIsForCommand`: when CMOK is
set, the result registers hold the answer to the program's own command. `PlayEndReported`: the end of a play is
reported only when the drive is there and all repeats are done. `FileOpEnds`: a file operation ends, as long
as the program does nothing but file operations, the tray stays shut and the disc has been looked
at, or it is held up for good (`HeldUp`) in the one way the code allows: the files read into other
partitions fill every buffer, the drive pauses for want of room (cdb.cpp:2461), and a directory
cannot be read until the program deletes something or aborts. The program `LargeFile` does that; so what the
property says is that nothing else keeps a file operation from ending.

Left out: audio sectors, scanning, positions by track and index, subcodes, the search for a
frame address, HIRQ bits other than CMOK, PEND and EFLS, state saving.

### AtomicFIFO, Driver: the driver's two threads

`AtomicFIFO` is the ring as operators on a record; `Write` is `Store` and `Publish`, since the
counter is what the other thread sees. `Driver` is drivers/main.cpp: the main thread (`mpc`:
polling events, setting up video, blitting, closing a game) and the game thread (`gpc`: frame,
`MDFND_Update`, events, waiting). `NeedVideoSync`, `VTReady`, `NeedExitNow` and `GameThreadRun` are read
outside of `VTMutex`, each read a step. A frame may be skipped and a blit may take longer than the
game thread is willing to wait, from where on (`gpc` = "late") it waits for that blit or the end
of the game; the game may be held (frame advance, pause). `CheckCommandKeys` is one call of
`Input_Update`, in which several command keys may be down: what they do happens in
the order of the code, with the change to full screen in the middle, since that waits for the main thread.
Whoever sets up video may find that it cannot have the full screen and go back to a window.

`BlitsAsAsked`: what is blitted is in the mode set up, and not drawn into unless the game was
held (see Findings). `EventsInOrder`: events are handled in order, each once. `ExitEnds`: wherever
the threads are waiting for each other, wanting to exit ends with the game thread joined.

`EventsInOrder` leaves out overruns (`overrun`): key events are written only with `CanWrite`,
focus events without (main.cpp:1671), and as `CanWrite` returns an unsigned difference, a FIFO
once overfull never reports full again. That takes 2048 events during one frame.

### Netplay

Several clients and the server. A client's `Netplay_Update` sends its controllers' state, takes
messages until the frame's inputs come, and carries out commands as they come;
`up` and `down` are the connection's two directions. A machine is, again, the sequence of what it
was fed. Players send commands and states, ask for controllers, let go of them, change their
names, load states of their own, which may fail half way, leave, fail (also because a state they are
sent does) and come back; the server sends frames at its own
pace, up to `MaxAhead` more than a client has taken.

The server (`Login`, `Serve`, `Frame`) is assumed, external in the map, and does only what the
client cannot do without: it answers in order; sends what concerns the machine to everyone, the
sender included; sends `YOUJOINED` first; reads a client's data by its old controllers until it
has sent `CTRL_CHANGE_ACK`; says so when somebody's controllers change; asks a player already
there for a state when another joins; and takes a client back only after it has noticed that it
had gone.

`MachinesAgree`: when all that is on the way to them is carried out, any two clients have the same
machine, for every way commands, states and frames cross. `ControllersAgree`: the server
reads what a client wrote by the controllers it was written for (netplay.h:56). `PlayersInSync`:
"Players list state out of sync" (netplay.cpp:800) is never reported, and each
client's own controllers are those the others think it has.

Left out: text, pings, passwords, integrity checks, `YOULEFT` ("not supported yet"), rumble and
switches, cheats, and port data in a state that is loaded.

## 3. Runs

| Run | Bounds | Shows |
|---|---|---|
| `cd` | addresses 0..2 and one off the disc, ring of 2, read-ahead 1, 2 requests queued | safety of the disc interface and its refinement of `CDInterface`, liveness included; a ring as short as the window makes every read-ahead overwrite, and three addresses give seeks forward, back and repeated |
| `rewind_stack` | setting 4 (a ring of 3 packets), 5 states of lengths 0 to 2 | the refinement of the stack; three packets wrap, and any pair of lengths meets |
| `movie` | rewinding: 3 tokens fed, files of 5; save states and netplay: 2 and 4; each of rewinding, save states and netplay with loads that fail: 3 or 2 and 4; 2 movies, 1 with failures; rewind depth 2 | movies with rewinding and a machine that polls twice after some inputs; movies with save states, netplay inputs and states; recording on after a load that failed half way, until a state or a rewind ends it. Failures in playback are in the proof only |
| `stream` | ring of 8, 2 bytes past it, four streams (short loop, no loop, loop at the end, empty), reads up to byte 18 (more than two rounds of the ring), start at 0, 4 or 12 and 0 or 3 zero bytes | what the client reads is the stream; calls return unless a read has failed, the destructor ends |
| `vdp2` | 3 lines (the last past `bwthresh`), ring of 2, wake-up at 2 waiting lines, 2 values | the Saturn's picture; lines outnumber ring entries, so the caller blocks inside a line, inside the end of a frame and inside `Kill`, and both wake-ups happen; calls return, queued lines are drawn |
| `ppu` | 2 lines, ring of 3 (2 entries), 2 values, all four settings | the SNES picture; one line's commands already overfill the ring, and two values tell any write from the one before; waits end, the thread ends |
| `cd_block` | 2 buffers, 2 filters, a disc of 3 sectors and one of lead-out, sectors of 3 words of which 2 are read ahead, a directory of 1 sector, ten programs | the CD block's properties; two buffers are full at once, two filters can form a loop, a disc of three sectors has a first, a last and one in between |
| `driver` | FIFO of 2, 3 events, or 1 among command keys | the driver's threads; three events wrap the FIFO and fill it; command keys are what holds the game and changes the mode, at any time, with an event under way |
| `netplay` | 2 clients, 2 pads, 3 names; `Acts`: commands, commands and states, own states, leaving, states and leaving; 2 acts, 2 or 3 logins, machines of 2 or 3 tokens, one frame ahead | clients in step; two acts are the least that can cross, three logins a rejoin under another name. Clients are interchangeable (symmetry) |
| `movie_netplay`, `stream_fail`, `driver_hold` | as above | violations: see Findings |

`CHECK_DEADLOCK FALSE` is given where the object may have been destroyed, or the game closed, after
which nothing happens, and where a bound on what players or programs do ends the run. Every bound
is a CONSTANT or a named guard: `MaxPending`, `MaxFed`, `MaxFile`, `MaxSessions`, `MaxPos`, `MaxEvents`,
`MaxEventsAmongKeys`, `MaxAhead`, `MaxDone`, `MaxLogins`; in `CDBlock`, `Off` (the drive stops one sector into the lead-out).

Fairness. In `CDInterface_MT` both threads are scheduled (weak fairness of each), and
`LockAndName` is strongly fair: a mutex that is free again and again is got at last,
since the emulator thread can take `SBMutex` between any two tries. Nothing is assumed
of when the emulator calls. In `MTStreamReader` both threads are scheduled, and again
the client calls when it likes. In the render modules both threads are scheduled, and
what the emulator does of its own (writes, lines, frames) has no fairness. In `CDBlock` the drive
and the periodic report are strongly fair where the command loop waits (both are run by the clock,
but in the model only between the loop's steps), and the command loop weakly; the program, the tray
and the reset button are not. In `Driver` both threads are scheduled, and `FrameEnd` is strongly fair once
the game is to end: a core's frame comes to an end, and what could stop it, the debugger, is told to
let it run. `Movie`, `StateRewind` and `Netplay` claim no liveness.

Every property has a mutant of the code that breaks it (`PROJECT.json`,
"mutants"): a ring index that does not wrap, a signal that is not sent, a lock not
taken, a recording not truncated, chunks of half the ring, and so on.

Each module states its types (`TypeOK`); only that of the disc interface is checked in a run
of its own right, the others were checked while the module was written, and where there is a
proof the types are part of its invariant.

## 4. What is proved

Each `..._proofs` module strengthens the invariants of its component to an inductive one and
proves it preserved, action by action, from the component's named assumptions alone.

`CDInterface_MT_proofs`, for every disc, ring size and read-ahead limit allowed by
`LbaAssumption` and `RingAssumption` (weaker than the code's `static_assert`): `TypeCorrect`,
`BoundedReadAhead`, `WindowStays`, `RequestStays`, `NoLostWakeup`, `ReadsCorrectly`, and
`DeviceRefinement`, the safety part of `ImplementsDevice`. `IInv` adds: no thread before
construction; who holds the mutex as a function of the two program counters; a read is under way
only if `ra_count` is at least 1; and the two parts that carry the weight.
`ContentInv` says that every valid slot except the one being written, and the sector
in `tmpbuf`, is a failure or the sector it is named for. `RequestInv` says that while
the caller waits for `lba`, its request is the last in the queue, or was the last to be
processed (`last_read_lba`). `WindowHeld`, itself part of `IInv`, then says that what
read-ahead has passed since then is in the ring: the window is at most
`max_ra + 1 <= SBSize` sectors long, so an answer is not overwritten before it is
taken, and `RequestNotLost` follows (`NotLost`). There is one lemma per conjunct, one step per
action; `Inductive` puts them together, and `DeviceStep` maps each step to a step of `CDInterface` or a
stutter.

`StateRewind_proofs`, for every `srwframes` and every set of states: `Contiguous`
(`PacketsContiguous`). The lemmas are about the ring: moving the position forward or back by one
adds or takes one from every slot's distance behind it. That `PacketsContiguous` is the invariant
by itself, next to types, is what the three clauses were chosen for. `RingIsAStack` is the whole
refinement, `ImplementsStack`. `MInv` adds that every packet is a sequence of bits of the length
recorded with it and that each state rebuilt from them is one of the states. A recursive
definition cannot be unfolded all the way for a ring of unknown size, so the lemmas say that the
walk back from `ss_prev` meets, position by position, the states of the stack, by induction along
the ring (XOR with the same difference twice gives back the state); recording pushes, a full ring loses
its oldest, rewinding pops.

`Movie_proofs`, for any machine, any inputs, commands and media, any depth of the rewind stack:
`RecordsTheMachine` (`RecordingInSync`), `PlaysTheMovie` (`PlaybackInSync`), `RewindsTogether`
(`SnapshotsInSync`), loads that fail included. The invariant follows the frame: while a movie is
recorded or played, and nothing has departed from it, what lies before `fpos` (while recording, the
end of the file) replays to the machine, or all
but one input does, between the poll that takes the input and the run that feeds it. The
states on the stack that were taken in step are one input behind the positions saved with them in the
same way, and no state of this movie is from beyond `fpos`: that is why a departure can end
with rewinding. What a file replays to is a function along it, of which the lemmas
say what appending, cutting off and overwriting do.

`VDP2Render_proofs`, for any number of lines, any size of the queue and any memory:
`PictureAsAsked` (`FramesAsAsked`), `LineInItsFrame`, `StateAtRest`. `LinesInv`: the lines queued and
not yet drawn are, in order, the last `DrawCounter` of the frame so far, so that the counter is 0 only
with none left, and the one being drawn is the first. `MemInv`: there is a history of
the memory (`Replay`) that begins with what the render thread's copy is, follows the queue entry by
entry, and ends with what the emulating thread has asked for; each queued line expects the memory of
its place in it. The `LIB` clause (`Expected`): lines not yet drawn have their data below `VCounter`, which
only goes up within a frame, unless the chip is reset.

`PPURender_proofs`, for any number of lines, any ring and any memory: `Ring` (`RingHolds`), `InFrame`
(`DrawsIntoItsFrame`), `AsItWasAsked` (`LinesAsAsked`), `AtRest` (`RestsBetweenFrames`). `OrderInv`: the five
positions that either thread keeps or publishes follow one another round the ring from the one the
emulating thread goes by, so that what it takes for room is room, and a position caught up with means an idle
renderer. `Asked` is all that is in the ring, still to be queued, or taken and not done:
`DrawInv` says what of it may draw, `OnceInv` that no line is in it twice, `PictureInv` that a line
not drawn is in it or still to come, and `ShownInv` follows the chip through it, as `Replay` does in
`VDP2Render_proofs`, here in two parts, since a write may wait for a full ring.

`CDBlock_proofs`, for any number of buffers, filters, any disc, and any programs whose commands are
`Valid` (`ProgramsAssumption`). `OneSourceEach` (`AtMostOneSource`) is from `ConnInv`, which also knows that a
connection is to a filter or to nothing. `DiscUnderDrive` (`DriveHasDisc`) and `NoSectorMissed`
(`SectorsInOrder`) are from one property of the drive's record (`Good`, `InPlace`) that each operator
on it is shown to keep, so that a command made of several needs no case of its own. `EndReported`
(`PlayEndReported`) is from `Told`, which says of a drive that pauses where it stands and what it is
still to report. `AnswersTheCommand`
(`AnswerIsForCommand`) is from `AnswerInv`: by where the command loop is, which of the result registers, CMOK
and the pending command belong together; during the long reset the drive is resetting, so no
report comes.

`BuffersStayAccounted` (`BuffersAccounted`) and `TransfersSound` (`TransferSound`) rest on `Filed`: there are
sequences of buffers, one for the free list and one for each partition, that the links lead through in both
directions, with the counters for their lengths, each buffer in one of them and those a transfer keeps in
none. `Buffer_Allocate`, `Buffer_Free`, linking and unlinking are each shown to take
`Filed` to `Filed`, with a buffer in hand between them. A command that does this for many buffers is a
fold; `FoldTrace` gives the values a fold goes through, and what holds of the first and is kept by
each holds of the last (induction over the natural numbers, from the least element of a set). `InOrder` is the
inductive invariant: `Filed`, what is typed about the transfer, the file operation and the
command under way, and what the transfer still owes. Nothing is claimed of the lists while the block is reset
but that its arrays are arrays.

`Frontend_proofs` is about two components that share no state, `Netplay` and `Driver`, and extends both
(`Driver`'s specification is `DriverSpec` for that reason).

For any finite number of clients, a name for each, and any ports and masks of them (`NetplayAssumption`):
`ControllersHold` (`ControllersAgree`), `PlayersHold` (`PlayersInSync`), `MachinesHold` (`MachinesAgree`).
`IInv` says of each client which messages may be on the way in either direction, by where it is
in joining and leaving (`Linked`); that what it sends next is laid out by what the server will have been
told by then (`LaidOut`); and that its list, name and controllers, taken through all it has yet to read, are
the server's (`Knows`). A property of what a fold leads to is kept by sending (the fold of one message
more), by receiving (the first may be dealt with before the others, `FoldTail`) and by the server, of whom it is
shown that what it says of each change leads from what it knew to what it knows (`Hearing`): the notices of
a change of controllers and those a new player is sent come in whatever order `SetToSeq` gives them
(`FoldNotifs`, `FoldJoins`). `Agree` follows the machines in the same way: only what is said to everyone
changes what a client that follows will become.

For a FIFO of any size and any number of events: `BlitsSafely` (`BlitsAsAsked`), from who
may be where with which buffer (`BufferInv`), and `EventsHandledOnce` (`EventsInOrder`), from `RingInv`: what was
sent, is what was handled and what the ring holds from `read_pos` on, in order.

`MTStreamReader_proofs`, for any ring of four quarters, an overbuffer no longer than one of them,
and any streams: `OneSide` (`OneSideAtATime`), `FileFollows` (`FileInStep`) and `ReadsWhatIsAsked`
(`ReadsTheStream`). `Turns` counts who may act. `Ledger` is the arithmetic of the quarters: what is in the
ring, with what a call, a posted command and the read under way still owe, reaches exactly one ring on
from where the client's quarter begins, and three quarters of it are there whenever the client reads.
With it a read never comes round to the client's quarter (`ReadLeaves`), so `Content` is kept: the ring,
from there on, holds what was asked for. `Copied` says so of the overbuffer, `Place` where in the
stream the next byte is from, and `LoopInRing` that a loop copied out of the ring is whole in it and is not
overwritten before the command ends. Remainders are handled by a few lemmas (`DivModIs`, `ModOn`,
`Apart`), since the sizes are not known.

Only model-checked: liveness, that of a refined specification included (out of the prover's reach);
`ImplementsStore`, for which it would not be enough that every list is well linked: what each holds would
have to be followed exactly through every fold, and their lengths summed over the partitions; and what
the three runs that end in a violation show, which is not true.

## 5. Findings

1. Commands sent by the netplay server while a movie is recorded are carried out and
   not recorded (netplay.cpp:629); the movie replays to something else
   (`movie_netplay`).
2. After a read error the stream reader's thread does not acknowledge the command that
   failed, and the client's next waiting call never returns (MTStreamReader.cpp:211, `stream_fail`). A
   constructor whose `Thread_SetAffinity` throws waits in the same way for a command
   it never posted.
3. While the game is held, the same frame is passed again and again, and whether the buffers are
   exchanged afterwards is what the last call returned: if that call was turned down, the next frame
   is emulated into the buffer being blitted (drivers/main.cpp:1440, `driver_hold`).

## 6. What is left out

Of the components modelled: notifications and thread affinity; `MovieStatus` and the
slot selector (display); a seek or truncation that fails during a rewind; closing a
game while a movie is recorded; which of two failed or retried copies of a sector in
the ring is returned; what a buffered file loses when a write fails; what section 2 names under
each module. Hazards of the CD block that no property covers, beside those in `PROJECT.json`: a tray
opened while the disc is looked at (authentication then waits for ever, and all commands with
it), a SEEK that stops an ejected drive, a play that keeps the pickup of a stopped drive and starts
at 0xFFFFFF, a command pending at the end of a reset.

Not modelled: the emulated hardware and its arithmetic, file formats, codecs, compression, sockets, the
user interface, third-party code; each is in `PROJECT.json` with its reason. That is most of the
repository by lines: emulated processors and chips, fonts and libraries, which are sequential
arithmetic and tables.

## 7. Plan

The order was: what two threads share first (the disc interface, with its proofs), then
the features that must agree on one machine (rewinding, movies), then the other threads
(stream reader, render queues), then what uses the disc interface (the CD block), the driver, and
netplay; then proofs. What follows, in order:

1. Proof of `CDBlock`'s `ImplementsStore`, from `Filed` with what each list holds.
2. An abstract synchronous renderer (a write and a line take effect at once) that both
   render modules implement, in place of their two history variables.
3. `CDInterface_ST` as a second implementation of `CDInterface`, and the drive of
   `cdrom/scsicd.cpp` on top of it.
4. `SetMedia` and its validation (mednafen.cpp), with rewinding and states that carry a
   drive's state.
