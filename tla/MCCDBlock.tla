------------------------------ MODULE MCCDBlock ------------------------------
(***************************************************************************)
(* Programs for CDBlock: each uses some of the commands, so that TLC meets *)
(* every command in a state space that is the sum of theirs.               *)
(***************************************************************************)
EXTENDS CDBlock

Op(op) == [op |-> op]
Sec(op, part, offs, n) == [op |-> op, part |-> part, offs |-> offs, n |-> n]
Send(op, part, filter, n) == [op |-> op, part |-> part, filter |-> filter, offs |-> 0, n |-> n]
PlayRange(start, end, repeat, keep) ==
  [op |-> "PLAY", start |-> start, end |-> end, repeat |-> repeat, keep |-> keep]
Connect(f) == [op |-> "SET_CDDEVCONN", filter |-> f]
Auth == [op |-> "AUTH_DEVICE", part |-> 0]

ResetSelector(flags) == [op |-> "RESET_SEL", part |-> 0, flags |-> flags]
FilterOutputs(f, true, false) == [op |-> "SET_FILTCONN", filter |-> f, true |-> true, false |-> false]
SectorLength(len) == [op |-> "SET_SECLEN", get |-> len, put |-> len]
SoftReset == [op |-> "INIT", reset |-> TRUE]
ReadDir == [op |-> "READ_DIR", part |-> 0]
ChangeTo(same) == [op |-> "CHANGE_DIR", part |-> 0, same |-> same]
File(part, start) == [op |-> "READ_FILE", part |-> part, start |-> start, end |-> LeadOut]

Program(first, commands) ==
  [setup |-> first, commands |-> commands, tray |-> FALSE, resets |-> FALSE, others |-> {}]

\* Sectors are read from a partition while the disc plays into it.
Reads ==
  Program(<<Auth, Connect(0), PlayRange(1, NoEnd, 0, FALSE)>>,
          {Sec("GET_SECDATA", 0, 0, 1), Sec("GETDEL_SECDATA", 0, 0, All), SectorLength("2352"),
           Op("END_DATAXFER")})

\* Sectors are written, moved and copied; the drive rests.
Writes ==
  Program(<<Auth>>,
          {Send("PUT_SECDATA", None, 1, 1), Op("END_DATAXFER"), Send("COPY_SECDATA", 1, 0, 1),
           Send("MOVE_SECDATA", 1, 1, All), Sec("DEL_SECDATA", 1, 0, 1)})

\* The filters are connected in every way, while the disc plays.
Selections ==
  Program(<<Auth, [op |-> "SET_FILTRANGE", filter |-> 0, range |-> {1}],
            [op |-> "SET_FILTMODE", filter |-> 0, reset |-> FALSE], PlayRange(1, 3, 0, FALSE)>>,
          {Connect(0), FilterOutputs(0, 0, 1), FilterOutputs(1, 1, 0),
           ResetSelector({"data", "input"})})

\* Plays with an end, repeated and paused; and one that goes on where the drive
\* stands, into the lead-out.
Plays ==
  Program(<<Auth, Connect(0)>>,
          {PlayRange(1, 3, 1, FALSE), Op("PAUSE"), Op("STOP"), [op |-> "SEEK", to |-> 2]})

Continues ==
  Program(<<Auth, Connect(0)>>, {PlayRange(1, 2, 0, FALSE), PlayRange(1, NoEnd, 0, TRUE)})

\* The tray is opened and the block reset in the midst of it all.
Surprises ==
  [Program(<<Auth>>, {PlayRange(2, 3, 0, FALSE)})
   EXCEPT !.tray = TRUE]

Resets ==
  [Program(<<>>, {Op("GET_TOC"), Op("END_DATAXFER"), SoftReset, Connect(1),
                 ResetSelector({"output", "input"}), Op("GET_CDDEVCONN")})
   EXCEPT !.resets = TRUE]

\* The file system: small files, a file that fills every buffer with sectors of a
\* partition no other operation reads from, and a disc without the descriptor.
Files ==
  Program(<<Auth>>, {ChangeTo(FALSE), ReadDir, File(0, RootDir), Op("ABORT_FILE")})

LargeFile ==
  Program(<<Auth, ChangeTo(FALSE), File(1, LeadOut - NumBuffers)>>,
          {ReadDir, ChangeTo(TRUE), Op("ABORT_FILE")})

OtherDisc == [Program(<<Auth>>, {ChangeTo(FALSE)}) EXCEPT !.others = {Pvd}]

MCPrograms == {Reads, Writes, Selections, Plays, Continues, Surprises, Resets, Files,
               LargeFile, OtherDisc}
=============================================================================
