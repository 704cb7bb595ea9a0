-------------------------------- MODULE Movie --------------------------------
(***************************************************************************)
(* Movies, movie.cpp, together with what a movie has to keep in step with: *)
(* the frame of MDFNI_Emulate, the player's commands, save states, state   *)
(* rewinding and the receiving side of netplay.                            *)
(*                                                                         *)
(* The machine is deterministic, so its state is the sequence of what it   *)
(* was fed since power-on.  A save state is that and the port data.        *)
(* A movie file is a sequence of tokens: a save state first, then inputs,  *)
(* commands and save states to load; "torn" is what a failed write leaves  *)
(* (that the file is buffered, and a failure can lose what was written     *)
(* just before, is left out).  There is one movie slot.                    *)
(***************************************************************************)
EXTENDS Integers, Sequences, FiniteSets

CONSTANTS Inputs,       \* values of the port data
          Halfway,      \* what a state half loaded does to the machine
          NoInput,      \* all zero
          Commands,     \* MDFN_QSimpleCommand's: reset, power, DIP switches, coins
          Media,        \* media changes
          MidSync(_),   \* whether the machine, in this state, polls again in the frame
          Depth,        \* of the rewind stack
          FeatureSets,  \* model bound: sets of "rewind", "states", "netplay", "failures"
          MaxFed(_), MaxFile(_),        \* model bounds, given what is used
          MaxSessions(_)

VARIABLES
  features,         \* model bound: what the player uses besides movies
  phase,            \* where MDFNI_Emulate is
  PortData, NeedRewind,
  mach,             \* the machine
  ActiveMovieMode, file, fpos,
  Active, stack,    \* state rewinding
  saved,            \* the save state slot: empty or one state
  MDFNnetplay,
  session,          \* history: how many movies were started
  departures        \* history: why this movie does not match the machine now

frame == <<phase, NeedRewind>>
movie == <<ActiveMovieMode, file, fpos>>
rewinding == <<Active, stack>>
history == <<session, departures>>
vars == <<features, frame, PortData, mach, movie, rewinding, saved, MDFNnetplay, history>>

Input(p) == [t |-> "input", v |-> p]
Command(c) == [t |-> "command", v |-> c]
Loadstate(s) == [t |-> "state", v |-> s]
Torn == [t |-> "torn"]

SaveSM == [mach |-> mach, ports |-> PortData]

Init ==
  /\ features \in FeatureSets
  /\ phase = "idle" /\ PortData = NoInput /\ NeedRewind = FALSE
  /\ mach = <<>>
  /\ ActiveMovieMode = "STOPPED" /\ file = <<>> /\ fpos = 0
  /\ Active = FALSE /\ stack = <<>> /\ saved = {}
  /\ MDFNnetplay = FALSE /\ session = 0 /\ departures = {}

-----------------------------------------------------------------------------
(* The movie file.  Writing at fpos overwrites.                             *)

PutIn(f, pos, tok) == [i \in 1 .. IF pos < Len(f) THEN Len(f) ELSE pos + 1 |->
                         IF i = pos + 1 THEN tok ELSE f[i]]
Put(tok) == /\ file' = PutIn(file, fpos, tok) /\ fpos' = fpos + 1
            /\ UNCHANGED ActiveMovieMode

\* HandleMovieError after a write that failed, perhaps half way.
PutFails == /\ file' \in {file, PutIn(file, fpos, Torn)}
            /\ ActiveMovieMode' = "STOPPED" /\ fpos' = 0

\* MDFNMOV_AddCommand and MDFNMOV_RecordState do nothing unless recording, or
\* are called only then.
Record(tok) == IF ActiveMovieMode = "RECORDING" THEN Put(tok) \/ PutFails
               ELSE UNCHANGED movie

MDFNMOV_Stop ==
  /\ IF ActiveMovieMode = "RECORDING"
     THEN file' \in {file} \cup {PutIn(file, fpos, tok) : tok \in {Loadstate(SaveSM), Torn}}
     ELSE UNCHANGED file
  /\ ActiveMovieMode' = "STOPPED" /\ fpos' = 0

HandleMovieError == ActiveMovieMode' = "STOPPED" /\ fpos' = 0 /\ UNCHANGED file

NewSession == session' = session + 1 /\ departures' = {}

-----------------------------------------------------------------------------
(* Between frames: the player.                                              *)

\* Starts recording, or stops it; an error while a movie plays.
MDFNI_SaveMovie ==
  /\ phase = "idle"
  /\ \/ ActiveMovieMode = "PLAYING" /\ HandleMovieError /\ UNCHANGED history
     \/ ActiveMovieMode = "RECORDING" /\ MDFNMOV_Stop /\ UNCHANGED history
     \/ /\ ActiveMovieMode = "STOPPED" /\ session < MaxSessions(features)
        /\ \/ /\ ActiveMovieMode' = "RECORDING"
              /\ file' = <<Loadstate(SaveSM)>> /\ fpos' = 1
              /\ NewSession
           \/ /\ ActiveMovieMode' = "STOPPED" /\ fpos' = 0     \* cannot be written
              /\ file' \in {file, <<Torn>>}
              /\ UNCHANGED history
  /\ UNCHANGED <<frame, PortData, mach, rewinding, saved, MDFNnetplay>>

\* Starts playback, or stops it; an error while one is recorded, or in netplay.
MDFNI_LoadMovie ==
  /\ phase = "idle"
  /\ \/ /\ MDFNnetplay \/ ActiveMovieMode = "RECORDING"
        /\ HandleMovieError
        /\ UNCHANGED <<PortData, mach, history>>
     \/ /\ ~ MDFNnetplay /\ ActiveMovieMode = "PLAYING"
        /\ MDFNMOV_Stop
        /\ UNCHANGED <<PortData, mach, history>>
     \/ /\ ~ MDFNnetplay /\ ActiveMovieMode = "STOPPED" /\ session < MaxSessions(features)
        /\ IF file # <<>> /\ file[1].t = "state"
           THEN /\ mach' = file[1].v.mach /\ PortData' = file[1].v.ports
                /\ ActiveMovieMode' = "PLAYING" /\ fpos' = 1 /\ UNCHANGED file
                /\ NewSession
           ELSE HandleMovieError /\ UNCHANGED <<PortData, mach, history>>
  /\ UNCHANGED <<frame, rewinding, saved, MDFNnetplay>>

MDFNI_SaveState ==
  /\ phase = "idle" /\ "states" \in features
  /\ saved' = {SaveSM}
  /\ UNCHANGED <<frame, PortData, mach, movie, rewinding, MDFNnetplay, history>>

\* What was loaded is what is recorded: not the slot's file but a save state of
\* the machine that has loaded it.  From there on the movie matches again.
LoadSM(s) == mach' = s.mach /\ PortData' = s.ports
RecordLoaded(s) ==
  /\ Record(Loadstate(s))
  /\ departures' = IF ActiveMovieMode = "PLAYING" THEN departures \cup {"state"} ELSE {}

\* A file that cannot be read, or a state without a section that is needed: an older
\* version's, or a damaged one.  The error is kept until all sections have been
\* through, of which some, the ports' or the machine's, may have been loaded before.
LoadFails ==
  /\ "failures" \in features /\ PortData' \in Inputs
  /\ \/ UNCHANGED mach
     \/ Len(mach) < MaxFed(features) /\ mach' = Append(mach, Halfway)
  /\ departures' = departures \cup {d \in {"load"} : mach' # mach}

\* What has failed is not recorded, nor undone.
MDFNI_LoadState ==
  /\ phase = "idle" /\ Len(file) < MaxFile(features)
  /\ \/ \E s \in saved : LoadSM(s) /\ RecordLoaded(s)
     \/ LoadFails /\ UNCHANGED movie
  /\ UNCHANGED <<frame, rewinding, saved, MDFNnetplay, session>>

\* Sent to the server in netplay; ignored while a movie plays.
MDFN_QSimpleCommand(c) ==
  /\ phase = "idle" /\ Len(file) < MaxFile(features) /\ Len(mach) < MaxFed(features)
  /\ ~ MDFNnetplay /\ ActiveMovieMode # "PLAYING"
  /\ mach' = Append(mach, c)
  /\ Record(Command(c))
  /\ UNCHANGED <<frame, PortData, rewinding, saved, MDFNnetplay, history>>

\* Recorded when it is asked for, even in netplay, where it takes effect only when
\* the server has sent it back.
MDFNI_SetMedia(c) ==
  /\ phase = "idle" /\ Len(file) < MaxFile(features) /\ Len(mach) < MaxFed(features)
  /\ Record(Command(c))
  /\ IF ~ MDFNnetplay /\ ActiveMovieMode # "PLAYING"
     THEN mach' = Append(mach, c) ELSE UNCHANGED mach
  /\ departures' = departures \cup {d \in {"netplay"} : MDFNnetplay}
  /\ UNCHANGED <<frame, PortData, rewinding, saved, MDFNnetplay, session>>

MDFNI_EnableStateRewind(enable) ==
  /\ phase = "idle" /\ (enable => "rewind" \in features)
  /\ Active' = enable
  /\ stack' = IF enable THEN stack ELSE <<>>
  /\ UNCHANGED <<frame, PortData, mach, movie, saved, MDFNnetplay, history>>

\* By the player, or because the connection fails while a command is sent.
MDFNI_NetplayDisconnect ==
  /\ phase = "idle" /\ MDFNnetplay /\ MDFNnetplay' = FALSE
  /\ UNCHANGED <<frame, PortData, mach, movie, rewinding, saved, history>>

Player == \/ MDFNI_SaveMovie \/ MDFNI_LoadMovie \/ MDFNI_SaveState \/ MDFNI_LoadState
          \/ \E c \in Commands : MDFN_QSimpleCommand(c)
          \/ \E c \in Media : MDFNI_SetMedia(c)
          \/ \E enable \in BOOLEAN : MDFNI_EnableStateRewind(enable)
          \/ MDFNI_NetplayDisconnect

-----------------------------------------------------------------------------
(* MDFNI_Emulate: the ports as the driver filled them, netplay, the movie,  *)
(* rewinding, the machine.                                                  *)

MDFNI_Emulate(p, rewind) ==
  /\ phase = "idle" /\ Len(file) < MaxFile(features) /\ Len(mach) < MaxFed(features)
  /\ PortData' = p /\ NeedRewind' = rewind /\ phase' = "netplay"
  /\ UNCHANGED <<mach, movie, rewinding, saved, MDFNnetplay, history>>

\* Netplay_Update without a connection, or once the connection fails.
NoNetplay ==
  /\ phase = "netplay" /\ phase' = "input" /\ MDFNnetplay' = FALSE
  /\ UNCHANGED <<NeedRewind, PortData, mach, movie, rewinding, saved, history>>

NetplayStart ==
  /\ phase = "netplay" /\ "netplay" \in features /\ ~ MDFNnetplay /\ MDFNnetplay' = TRUE
  /\ IF ActiveMovieMode = "PLAYING" THEN MDFNMOV_Stop ELSE UNCHANGED movie
  /\ UNCHANGED <<frame, PortData, mach, rewinding, saved, history>>

\* A command from the server is carried out, and no movie hears of it.
RecvCommand(c) ==
  /\ phase = "netplay" /\ MDFNnetplay /\ Len(mach) < MaxFed(features)
  /\ mach' = Append(mach, c)
  /\ departures' = departures \cup {"netplay"}
  /\ UNCHANGED <<frame, PortData, movie, rewinding, saved, MDFNnetplay, session>>

RecvState(s) ==
  /\ phase = "netplay" /\ MDFNnetplay /\ Len(file) < MaxFile(features)
  /\ LoadSM(s) /\ RecordLoaded(s)
  /\ UNCHANGED <<frame, rewinding, saved, MDFNnetplay, session>>

\* The end of the connection: the frame goes on with the ports as they are.
RecvStateFails ==
  /\ phase = "netplay" /\ MDFNnetplay
  /\ LoadFails
  /\ MDFNnetplay' = FALSE /\ phase' = "input"
  /\ UNCHANGED <<NeedRewind, movie, rewinding, saved, session>>

RecvInput(p) ==
  /\ phase = "netplay" /\ MDFNnetplay
  /\ PortData' = p /\ phase' = "input"
  /\ UNCHANGED <<NeedRewind, mach, movie, rewinding, saved, MDFNnetplay, history>>

Netplay_Update == \/ NoNetplay \/ NetplayStart
                  \/ \E c \in Commands \cup Media : RecvCommand(c)
                  \/ (\E s \in saved : RecvState(s)) \/ RecvStateFails
                  \/ \E p \in Inputs : RecvInput(p)

-----------------------------------------------------------------------------
\* MDFNMOV_ProcessInput is called before the machine runs, and again whenever it
\* polls in the middle of the frame.
Polling == phase \in {"input", "midinput"}
Polled == phase' = IF phase = "input" THEN "rewind" ELSE "run"

PlayInput ==
  /\ file[fpos + 1].t = "input"
  /\ PortData' = file[fpos + 1].v /\ fpos' = fpos + 1
  /\ Polled
  /\ UNCHANGED <<mach, ActiveMovieMode, file, departures>>

\* Commands and states come before the input of their frame.
PlayCommand ==
  /\ file[fpos + 1].t = "command"
  /\ mach' = Append(mach, file[fpos + 1].v) /\ fpos' = fpos + 1
  /\ UNCHANGED <<phase, PortData, ActiveMovieMode, file, departures>>

PlayState ==
  /\ file[fpos + 1].t = "state"
  /\ LoadSM(file[fpos + 1].v) /\ fpos' = fpos + 1
  /\ departures' = {}
  /\ UNCHANGED <<phase, ActiveMovieMode, file>>

\* An input cut short has replaced some of the ports when the read fails; a state
\* cut short has no length in its header, and nothing of it is loaded.
PlayTorn ==
  /\ file[fpos + 1].t = "torn"
  /\ HandleMovieError /\ PortData' \in Inputs /\ Polled
  /\ UNCHANGED <<mach, departures>>

MDFNMOV_ProcessInput ==
  /\ Polling
  /\ \/ ActiveMovieMode = "STOPPED" /\ Polled /\ UNCHANGED <<PortData, mach, movie, departures>>
     \/ ActiveMovieMode = "RECORDING" /\ Record(Input(PortData)) /\ Polled
        /\ UNCHANGED <<PortData, mach, departures>>
     \/ /\ ActiveMovieMode = "PLAYING"
        /\ IF fpos >= Len(file)
           THEN MDFNMOV_Stop /\ Polled /\ UNCHANGED <<PortData, mach, departures>>
           ELSE PlayInput \/ PlayCommand \/ PlayState \/ PlayTorn
  /\ UNCHANGED <<NeedRewind, rewinding, saved, MDFNnetplay, session>>

-----------------------------------------------------------------------------
Rewinding == INSTANCE RewindStack WITH running <- Active, States <- {}

\* A rewind state holds the position in the movie if there is one; movie = 0 if not.
\* History: which movie it was, and whether it matched the machine.
SnapshotOf(pos) == [mach |-> mach, ports |-> PortData, pos |-> pos,
                    movie |-> IF ActiveMovieMode = "STOPPED" THEN 0 ELSE session,
                    insync |-> departures = {}]
SnapshotBehind == SnapshotOf(IF fpos = 0 THEN 0 ELSE fpos - 1)   \* mutant
Snapshot == SnapshotOf(fpos)

RecordFrame ==
  /\ ~ NeedRewind
  /\ stack' = Rewinding!Push(stack, Snapshot)
  /\ UNCHANGED <<PortData, mach, movie, Active, departures>>

Truncate(pos) == file' = [i \in 1 .. pos |-> IF i <= Len(file) THEN file[i] ELSE Torn]

\* Mutants: the recording is not cut where it is rewound to; the playback goes on
\* from where it was.
SeekOnly(pos) == fpos' = pos /\ UNCHANGED <<file, ActiveMovieMode>>
SeekRecording(pos) ==
  IF ActiveMovieMode = "RECORDING"
  THEN fpos' = pos /\ Truncate(pos) /\ UNCHANGED ActiveMovieMode ELSE UNCHANGED movie

\* MDFNMOV_StateAction's seek and truncate, which extends a file that is shorter.
SeekMovie(pos) ==
  /\ fpos' = pos
  /\ IF ActiveMovieMode = "RECORDING" THEN Truncate(pos) ELSE UNCHANGED file
  /\ UNCHANGED ActiveMovieMode

\* The state has a movie section if and only if a movie is active: it loads.  The
\* section may be that of another movie.
RewindLoads(s) ==
  /\ (s.movie = 0) = (ActiveMovieMode = "STOPPED")
  /\ LoadSM(s)
  /\ IF s.movie = 0 THEN UNCHANGED movie ELSE SeekMovie(s.pos)
  /\ stack' = Rewinding!Pop(stack)
  /\ departures' = CASE s.movie = 0 -> departures
                      [] s.movie = session /\ s.insync -> {}
                      [] OTHER -> departures \cup {"rewind"}
  /\ UNCHANGED Active

\* It does not: an error after the ports have been loaded and before the machine
\* has, and the end of rewinding.
RewindFails(s) ==
  /\ (s.movie = 0) # (ActiveMovieMode = "STOPPED")
  /\ PortData' = s.ports
  /\ stack' = <<>> /\ Active' = FALSE
  /\ departures' = departures \cup {"rewind"}
  /\ UNCHANGED <<mach, movie>>

RewindFrame ==
  /\ NeedRewind
  /\ IF stack = <<>> THEN UNCHANGED <<PortData, mach, movie, rewinding, departures>>
     ELSE LET s == Rewinding!Top(stack) IN RewindLoads(s) \/ RewindFails(s)

\* Nothing is recorded for rewinding in netplay, and nothing rewound.
MDFNSRW_Frame ==
  /\ phase = "rewind" /\ phase' = "run"
  /\ IF Active /\ ~ MDFNnetplay THEN RecordFrame \/ RewindFrame
     ELSE UNCHANGED <<PortData, mach, movie, rewinding, departures>>
  /\ UNCHANGED <<NeedRewind, saved, MDFNnetplay, session>>

\* The machine runs until it polls or the frame ends; then Netplay_PostProcess
\* clears the ports.
Run ==
  /\ phase = "run"
  /\ mach' = Append(mach, PortData)
  /\ phase' = IF MidSync(mach') THEN "midsync" ELSE "idle"
  /\ PortData' = IF MDFNnetplay /\ phase' = "idle" THEN NoInput ELSE PortData
  /\ NeedRewind' = (NeedRewind /\ phase' # "idle")
  /\ UNCHANGED <<movie, rewinding, saved, MDFNnetplay, history>>

\* The driver polls in the middle of a frame, except in netplay.
MDFN_MidSync ==
  /\ phase = "midsync" /\ phase' = "midinput"
  /\ IF MDFNnetplay THEN UNCHANGED PortData ELSE PortData' \in Inputs
  /\ UNCHANGED <<NeedRewind, mach, movie, rewinding, saved, MDFNnetplay, history>>

Next == /\ \/ Player
           \/ \E p \in Inputs, rewind \in BOOLEAN : MDFNI_Emulate(p, rewind)
           \/ Netplay_Update \/ MDFNMOV_ProcessInput \/ MDFNSRW_Frame \/ Run \/ MDFN_MidSync
        /\ UNCHANGED features

Spec == Init /\ [][Next]_vars

-----------------------------------------------------------------------------
Fed == Inputs \cup Commands \cup Media \cup {Halfway}
State == [mach : Seq(Fed), ports : Inputs]

TypeOK ==
  /\ phase \in {"idle", "netplay", "input", "rewind", "run", "midsync", "midinput"}
  /\ PortData \in Inputs /\ NeedRewind \in BOOLEAN
  /\ mach \in Seq(Fed)
  /\ ActiveMovieMode \in {"STOPPED", "PLAYING", "RECORDING"}
  /\ fpos \in Nat /\ (fpos = 0) = (ActiveMovieMode = "STOPPED")
  /\ \A i \in DOMAIN file :
       file[i] \in {Torn} \cup [t : {"input"}, v : Inputs] \cup [t : {"state"}, v : State]
                     \cup [t : {"command"}, v : Commands \cup Media]
  /\ Active \in BOOLEAN /\ Len(stack) <= Depth
  /\ \A i \in DOMAIN stack : /\ stack[i].mach \in Seq(Fed) /\ stack[i].ports \in Inputs
                             /\ stack[i].pos \in Nat /\ stack[i].movie \in 0 .. session
                             /\ stack[i].insync \in BOOLEAN
  /\ saved \subseteq State /\ Cardinality(saved) <= 1
  /\ MDFNnetplay \in BOOLEAN
  /\ session \in 0 .. MaxSessions(features) /\ departures \subseteq {"state", "load", "netplay", "rewind"}

\* The machine that playing the first n tokens of the movie leads to.
Replay(n) ==
  LET r[k \in 0 .. n] == IF k = 0 THEN <<>>
                         ELSE CASE file[k].t = "state" -> file[k].v.mach
                                [] file[k].t = "torn" -> r[k - 1]
                                [] OTHER -> Append(r[k - 1], file[k].v)
  IN  r[n]

\* The movie being recorded replays to the machine, after every frame and every
\* thing the player does in between: resets, media, loaded states, rewinding, a
\* machine that polls twice, netplay's inputs and states.  (Not: after a state that
\* failed to load on its way, commands in netplay, or rewinding to before the
\* recording was started; then, from the next state that loads and is recorded, or
\* rewinding to a frame before that.)
RecordingInSync ==
  ActiveMovieMode = "RECORDING" /\ phase = "idle" /\ departures = {} =>
    mach = Replay(Len(file))

\* The movie being played has brought the machine where it has been recorded at
\* this point, whatever was rewound.  (Not: after a state loaded over it, or failing
\* to, and rewinding to before playback was started; then, from the next state in
\* the movie, or rewinding to a frame before that.)
PlaybackInSync ==
  ActiveMovieMode = "PLAYING" /\ phase = "idle" /\ departures = {} => mach = Replay(fpos)

\* A rewind state that was taken while this movie matched the machine is the machine
\* just before it runs on what the movie holds up to the position in it, whatever has
\* happened since: rewinding the one rewinds the other.
SnapshotsInSync ==
  ActiveMovieMode # "STOPPED" =>
    \A i \in DOMAIN stack :
      stack[i].movie = session /\ stack[i].insync =>
        /\ stack[i].pos <= fpos
        /\ Replay(stack[i].pos) = Append(stack[i].mach, stack[i].ports)

\* "Call even during netplay, so input-recording movies recorded during netplay
\* will play back properly" (mednafen.cpp:1867).
NetplayRecordingInSync ==
  ActiveMovieMode = "RECORDING" /\ phase = "idle" /\ departures \subseteq {"netplay"} =>
    mach = Replay(Len(file))
=============================================================================
