------------------------------- MODULE Driver -------------------------------
(***************************************************************************)
(* The two threads of the command-line driver, drivers/main.cpp.  The game *)
(* thread emulates a frame into one of two software frame buffers, passes  *)
(* it to the main thread and handles the events the main thread sends it;  *)
(* the main thread polls SDL's events, sets up the video mode and blits.   *)
(*                                                                         *)
(* Sound, timing, the on-screen consoles and the emulation itself are left *)
(* out: a frame is skipped, and a blit takes longer than the game thread   *)
(* will wait, whenever they may.  Events are numbered as they are sent.    *)
(* VTWakeupSem only cuts a wait of a millisecond short and is left out too.*)
(***************************************************************************)
EXTENDS AtomicFIFO, Sequences

CONSTANTS MaxEvents,          \* bound on the events sent
          MaxEventsAmongKeys  \* ... when the player uses the command keys as well

ASSUME DriverAssumption == MaxEvents \in Nat /\ MaxEventsAmongKeys \in Nat

VARIABLES
  keys,                \* whether the player uses the command keys
  VTReady,             \* the buffer to blit, or -1
  SoftFB_BackBuffer,   \* the one to emulate into
  VTMutex, NeedVideoSync, NeedExitNow, GameThreadRun,
  VideoError, FirstVideoSync,
  fs,                  \* the setting video.fs
  mode,                \* what the window is: fs as it was, or "none"
  gtevents, sent, handled, overrun,
  sc_blit_timesync,    \* a setting: blit after the sound has been written
  InFrameAdvance, NeedFrameAdvance, GameLoopPaused, pending_ssnapshot,
  mpc, vtr,            \* where the main thread is, the buffer it blits
  gpc, caller,         \* where the game thread is, and who called it there
  which, passed,       \* MDFND_Update's argument and result
  fskip, do_flip,      \* of GameLoop
  numevents, seen,     \* of GameThread_HandleEvents
  held                 \* history: what is to blit has been passed more than once

bufVars == <<VTReady, SoftFB_BackBuffer>>
syncVars == <<NeedVideoSync, VideoError, FirstVideoSync, fs, mode>>
runVars == <<NeedExitNow, GameThreadRun>>
queueVars == <<gtevents, sent, overrun>>
heldVars == <<InFrameAdvance, NeedFrameAdvance, GameLoopPaused>>
playVars == <<heldVars, pending_ssnapshot>>
updVars == <<caller, which, passed, numevents, seen>>
loopVars == <<fskip, do_flip, held>>
gameVars == <<playVars, gpc, updVars, loopVars>>
driverVars == <<keys, bufVars, VTMutex, syncVars, runVars, queueVars, handled,
                sc_blit_timesync, mpc, vtr, gameVars>>

\* LoadAndRunGame, once the game is loaded and the game thread created.
DriverInit ==
  /\ keys \in BOOLEAN
  /\ VTReady = -1 /\ SoftFB_BackBuffer = 0
  /\ VTMutex = "free" /\ NeedVideoSync = TRUE /\ NeedExitNow = FALSE /\ GameThreadRun = TRUE
  /\ VideoError = FALSE /\ FirstVideoSync = TRUE
  /\ fs \in BOOLEAN /\ mode = "none"
  /\ gtevents = NewFIFO(0) /\ sent = 0 /\ handled = <<>> /\ overrun = FALSE
  /\ sc_blit_timesync \in BOOLEAN
  /\ InFrameAdvance = FALSE /\ NeedFrameAdvance = FALSE /\ GameLoopPaused = FALSE
  /\ pending_ssnapshot = FALSE
  /\ mpc = "lock" /\ vtr = -1 /\ gpc = "loop" /\ caller = "frame"
  /\ which = -1 /\ passed = FALSE /\ fskip = FALSE /\ do_flip = FALSE
  /\ numevents = 0 /\ seen = 0 /\ held = FALSE

Mode == IF fs THEN "full" ELSE "windowed"
-----------------------------------------------------------------------------
(* The main thread: MainVideoLoop, then CloseGame *)

mainRest == <<keys, SoftFB_BackBuffer, sc_blit_timesync, handled, gameVars>>

LoopTop ==
  /\ mpc = "lock"
  /\ IF NeedExitNow THEN mpc' = "close" /\ UNCHANGED VTMutex
     ELSE VTMutex = "free" /\ VTMutex' = "main" /\ mpc' = "pump"
  /\ UNCHANGED <<mainRest, vtr, VTReady, syncVars, runVars, queueVars>>

\* PumpWrap sends the game thread what it does not deal with by itself, if there
\* is room; a change of input focus is sent whether there is room or not.
PumpEvent ==
  /\ mpc \in {"pump", "pump2"}
  /\ sent < IF keys THEN MaxEventsAmongKeys ELSE MaxEvents
  /\ \E focus \in BOOLEAN :
       /\ focus \/ CanWrite(gtevents)
       /\ overrun' = (overrun \/ gtevents.in_count >= Size)
  /\ gtevents' = Store(gtevents, sent + 1)
  /\ sent' = sent + 1
  /\ mpc' = IF mpc = "pump" THEN "publish" ELSE "publish2"
  /\ UNCHANGED <<mainRest, vtr, VTReady, VTMutex, syncVars, runVars>>

EventSent ==
  /\ mpc \in {"publish", "publish2"}
  /\ gtevents' = Publish(gtevents)
  /\ mpc' = IF mpc = "publish" THEN "pump" ELSE "pump2"
  /\ UNCHANGED <<mainRest, vtr, VTReady, VTMutex, syncVars, runVars, sent, overrun>>

\* SDL_QUIT, a signal, or the exit command of the game thread.
ExitWanted ==
  /\ mpc \in {"pump", "pump2"} /\ NeedExitNow' = TRUE
  /\ UNCHANGED <<mainRest, vtr, VTReady, VTMutex, syncVars, GameThreadRun, queueVars, mpc>>

PumpEnd ==
  /\ \/ mpc = "pump" /\ mpc' = IF NeedVideoSync THEN "vsync" ELSE "look"
     \/ mpc = "pump2" /\ mpc' = "synced"
  /\ UNCHANGED <<mainRest, vtr, VTReady, VTMutex, syncVars, runVars, queueVars>>

\* What the handler of MainVideoLoop does with an exception.
Caught(error) ==
  IF FirstVideoSync \/ error
  THEN mpc' = "fail" /\ VideoError' = error /\ UNCHANGED NeedVideoSync
  ELSE mpc' = "unlock" /\ VideoError' = TRUE /\ NeedVideoSync' = FALSE

\* A full screen that cannot be had is given up for a window, or for nothing if
\* that cannot be had either.
Video_Sync ==
  /\ mpc = "vsync"
  /\ \/ /\ mode' = Mode /\ VideoError' = FALSE /\ mpc' = "pump2"
        /\ UNCHANGED <<fs, NeedVideoSync>>
     \/ /\ fs /\ fs' = FALSE /\ mode' = "windowed" /\ VideoError' = FALSE /\ mpc' = "pump2"
        /\ UNCHANGED NeedVideoSync
     \/ mode' = "none" /\ Caught(FALSE) /\ fs' \in {fs, FALSE}
  /\ UNCHANGED <<mainRest, vtr, VTReady, VTMutex, FirstVideoSync, runVars, queueVars>>

Synced ==
  /\ mpc = "synced" /\ mpc' = "look"
  /\ FirstVideoSync' = FALSE /\ NeedVideoSync' = FALSE
  /\ UNCHANGED <<mainRest, vtr, VTReady, VTMutex, VideoError, fs, mode, runVars, queueVars>>

\* Mutant: the buffer is given back before it has been blitted.
LookEarly ==
  /\ mpc = "look"
  /\ mpc' = IF VTReady >= 0 /\ ~ VideoError THEN "blit" ELSE "unlock"
  /\ vtr' = IF VideoError THEN -1 ELSE VTReady
  /\ VTReady' = -1
  /\ UNCHANGED <<mainRest, VTMutex, syncVars, runVars, queueVars>>

\* While VideoError is set a frame is taken, but not shown.
Look ==
  /\ mpc = "look"
  /\ mpc' = IF VTReady >= 0 /\ ~ VideoError THEN "blit" ELSE "unlock"
  /\ vtr' = IF VideoError THEN -1 ELSE VTReady
  /\ VTReady' = IF VideoError THEN -1 ELSE VTReady
  /\ UNCHANGED <<mainRest, VTMutex, syncVars, runVars, queueVars>>

\* BlitScreen sets up the mode again by itself when the picture is rotated or the
\* window has changed, and then and elsewhere it may throw.
BlitScreen ==
  /\ mpc = "blit" /\ vtr' = -1
  /\ fs' \in {fs, FALSE}
  /\ \/ /\ VTReady' = -1 /\ mpc' = "unlock"
        /\ mode' = IF fs' = fs THEN mode ELSE "windowed"
        /\ UNCHANGED <<VideoError, NeedVideoSync>>
     \/ /\ Caught(VideoError) /\ mode' \in {IF fs' = fs THEN mode ELSE "windowed", "none"}
        /\ UNCHANGED VTReady
  /\ UNCHANGED <<mainRest, VTMutex, FirstVideoSync, runVars, queueVars>>

Unlock ==
  /\ mpc \in {"unlock", "fail"}
  /\ VTMutex' = "free"
  /\ mpc' = IF mpc = "unlock" THEN "lock" ELSE "close"
  /\ UNCHANGED <<mainRest, vtr, VTReady, syncVars, runVars, queueVars>>

CloseGame ==
  /\ \/ mpc = "close" /\ GameThreadRun' = FALSE /\ mpc' = "join"
     \/ mpc = "join" /\ gpc = "done" /\ mpc' = "closed" /\ UNCHANGED GameThreadRun
  /\ UNCHANGED <<mainRest, vtr, VTReady, VTMutex, syncVars, NeedExitNow, queueVars>>

MainThread == \/ LoopTop \/ PumpEvent \/ EventSent \/ PumpEnd \/ Video_Sync \/ Synced \/ Look
              \/ BlitScreen \/ Unlock \/ CloseGame

-----------------------------------------------------------------------------
(* The game thread: GameLoop *)

gameRest == <<keys, sc_blit_timesync, VideoError, FirstVideoSync, mode, runVars,
              sent, overrun, mpc, vtr>>

Hold == (InFrameAdvance /\ ~ NeedFrameAdvance) \/ GameLoopPaused

\* A frame that is wanted for a screenshot or by the player is not skipped, but
\* for fast-forwarding in netplay.
FrameStart ==
  /\ gpc = "loop"
  /\ IF ~ GameThreadRun THEN gpc' = "done" /\ UNCHANGED <<fskip, NeedFrameAdvance>>
     ELSE /\ ~ NeedVideoSync /\ gpc' = "emulate"
          /\ fskip' \in BOOLEAN
          /\ NeedFrameAdvance' = FALSE
  /\ UNCHANGED <<do_flip, held>>
  /\ UNCHANGED <<bufVars, VTMutex, NeedVideoSync, fs, gameRest, gtevents, handled, InFrameAdvance,
                 GameLoopPaused, pending_ssnapshot, updVars>>

\* MDFND_Update with buffer w.
Update(who, w) ==
  /\ caller' = who /\ which' = w /\ passed' = FALSE
  /\ gpc' = IF sc_blit_timesync THEN "count" ELSE "pass"

\* In the middle of a frame: the machine polls its inputs, or the debugger stops
\* it and has the frame before shown.
MidFrame ==
  /\ gpc = "emulate"
  /\ \/ gpc' = "count" /\ caller' = "midsync" /\ UNCHANGED <<which, passed>>
     \/ GameThreadRun /\ Update("fudge", 1 - SoftFB_BackBuffer)
  /\ UNCHANGED <<bufVars, VTMutex, NeedVideoSync, fs, gameRest, gtevents, handled, playVars,
                 numevents, seen, loopVars>>

\* What is shown of a frame: the buffer it is in, nothing if it was skipped, or
\* the frame before if the game is held.
ToShow == IF ~ fskip THEN SoftFB_BackBuffer ELSE IF Hold THEN 1 - SoftFB_BackBuffer ELSE -1

FrameEnd ==
  /\ gpc = "emulate"
  /\ Update("frame", ToShow)
  /\ held' = (held /\ VTReady # -1)
  /\ UNCHANGED <<bufVars, VTMutex, NeedVideoSync, fs, gameRest, gtevents, handled, playVars,
                 numevents, seen, fskip, do_flip>>

AfterPass == IF sc_blit_timesync THEN "updated" ELSE "count"

\* Mutant: the end of the game is not looked for.
PassBlitStays ==
  /\ gpc \in {"pass", "late"}
  /\ \/ /\ which = -1 \/ (VTReady >= 0 /\ gpc = "pass" /\ ~ pending_ssnapshot)
        /\ gpc' = AfterPass
        /\ UNCHANGED <<VTReady, pending_ssnapshot, passed>>
     \/ /\ gpc = "pass" /\ which # -1 /\ VTReady >= 0 /\ gpc' = "late"
        /\ UNCHANGED <<VTReady, pending_ssnapshot, passed>>
     \/ /\ which # -1 /\ VTReady = -1
        /\ VTReady' = which /\ pending_ssnapshot' = FALSE /\ passed' = TRUE
        /\ gpc' = AfterPass
  /\ UNCHANGED <<SoftFB_BackBuffer, VTMutex, NeedVideoSync, fs, gameRest, gtevents, handled,
                 heldVars, caller, which, numevents, seen, loopVars>>

\* While the last frame is being blitted the game thread gives up; or if that has
\* been going on for long or a screenshot is wanted it waits, and from then on
\* (late) only for the end of that blit or of the game.
PassBlit ==
  /\ gpc \in {"pass", "late"}
  /\ \/ /\ which = -1 \/ (VTReady >= 0 /\ (~ GameThreadRun \/ (gpc = "pass" /\ ~ pending_ssnapshot)))
        /\ gpc' = AfterPass
        /\ UNCHANGED <<VTReady, pending_ssnapshot, passed>>
     \/ /\ gpc = "pass" /\ which # -1 /\ VTReady >= 0 /\ gpc' = "late"
        /\ UNCHANGED <<VTReady, pending_ssnapshot, passed>>
     \/ /\ which # -1 /\ VTReady = -1
        /\ VTReady' = which /\ pending_ssnapshot' = FALSE /\ passed' = TRUE
        /\ gpc' = AfterPass
  /\ UNCHANGED <<SoftFB_BackBuffer, VTMutex, NeedVideoSync, fs, gameRest, gtevents, handled,
                 heldVars, caller, which, numevents, seen, loopVars>>

\* GameThread_HandleEvents
CountEvents ==
  /\ gpc = "count" /\ gpc' = "handle"
  /\ numevents' = CanRead(gtevents) /\ seen' = 0
  /\ UNCHANGED <<bufVars, VTMutex, NeedVideoSync, fs, gameRest, gtevents, handled, playVars,
                 caller, which, passed, loopVars>>

HandleEvent ==
  /\ gpc = "handle" /\ seen < numevents
  /\ handled' = Append(handled, Peek(gtevents, seen))
  /\ seen' = seen + 1
  /\ UNCHANGED <<bufVars, VTMutex, NeedVideoSync, fs, gameRest, gtevents, playVars, gpc,
                 caller, which, passed, numevents, loopVars>>

\* Mutant: all that have come by now are taken for handled.
TakenAll == CanRead(gtevents)

\* As many as have been handled.
Taken == numevents

\* In the middle of a frame no command keys are looked at.
EventsHandled ==
  /\ gpc = "handle" /\ seen = numevents
  /\ gtevents' = AdvanceRead(gtevents, Taken)
  /\ gpc' = IF caller = "midsync" THEN "emulate" ELSE "input"
  /\ numevents' = 0 /\ seen' = 0
  /\ UNCHANGED <<bufVars, VTMutex, NeedVideoSync, fs, gameRest, handled, playVars,
                 caller, which, passed, loopVars>>

AfterInput == IF sc_blit_timesync THEN "pass" ELSE "updated"

DoFrameAdvance == /\ NeedFrameAdvance' = (NeedFrameAdvance \/ InFrameAdvance)
                  /\ InFrameAdvance' = TRUE
DoRunNormal == NeedFrameAdvance' = FALSE /\ InFrameAdvance' = FALSE

\* Input_Update: of the command keys those that matter here, in the order in which
\* they are looked at.  The cheats' screen pauses the game loop; changing to full
\* screen waits in between.
CheckCommandKeys ==
  /\ gpc \in {"input", "keys"}
  /\ IF ~ keys THEN gpc' = AfterInput /\ UNCHANGED playVars
     ELSE /\ GameLoopPaused' \in BOOLEAN
          /\ gpc = "keys" => UNCHANGED GameLoopPaused
          /\ \/ /\ gpc = "input" /\ gpc' = "fs"
                /\ UNCHANGED <<InFrameAdvance, NeedFrameAdvance, pending_ssnapshot>>
             \/ /\ gpc' = AfterInput
                /\ DoFrameAdvance \/ DoRunNormal \/ UNCHANGED <<InFrameAdvance, NeedFrameAdvance>>
                /\ pending_ssnapshot' \in {pending_ssnapshot, TRUE}
  /\ UNCHANGED <<bufVars, VTMutex, NeedVideoSync, fs, gameRest, gtevents, handled, updVars, loopVars>>

\* Mutant: the setting is changed without the main thread's leave.
GT_ToggleFSUnlocked ==
  /\ \/ /\ gpc = "fs"
        /\ fs' = ~ fs /\ NeedVideoSync' = TRUE /\ gpc' = "fswait"
     \/ /\ gpc = "fswait" /\ (~ NeedVideoSync \/ ~ GameThreadRun)
        /\ gpc' = "keys" /\ UNCHANGED <<fs, NeedVideoSync>>
  /\ UNCHANGED <<bufVars, VTMutex, gameRest, gtevents, handled, playVars, updVars, loopVars>>

\* The setting is changed with VTMutex held; nothing else is done while it is, so
\* that this is one step.
GT_ToggleFS ==
  /\ \/ /\ gpc = "fs" /\ VTMutex = "free"
        /\ fs' = ~ fs /\ NeedVideoSync' = TRUE /\ gpc' = "fswait"
     \/ /\ gpc = "fswait" /\ (~ NeedVideoSync \/ ~ GameThreadRun)
        /\ gpc' = "keys" /\ UNCHANGED <<fs, NeedVideoSync>>
  /\ UNCHANGED <<bufVars, VTMutex, gameRest, gtevents, handled, playVars, updVars, loopVars>>

\* Back in GameLoop, which goes round while the game is held, or in the debugger.
Updated ==
  /\ gpc = "updated"
  /\ \/ /\ caller = "fudge" /\ gpc' = "emulate" /\ which' = -1 /\ passed' = FALSE
        /\ UNCHANGED <<SoftFB_BackBuffer, caller, fskip, do_flip, held>>
     \/ /\ caller = "frame"
        /\ LET flip == IF fskip /\ which # -1 THEN do_flip ELSE passed
           IN  IF Hold /\ GameThreadRun
               THEN /\ Update("frame", ToShow) /\ do_flip' = flip /\ held' = TRUE
                    /\ UNCHANGED <<SoftFB_BackBuffer, fskip>>
               ELSE /\ SoftFB_BackBuffer' = IF flip THEN 1 - SoftFB_BackBuffer ELSE SoftFB_BackBuffer
                    /\ gpc' = "loop" /\ do_flip' = FALSE /\ fskip' = FALSE
                    /\ which' = -1 /\ passed' = FALSE
                    /\ UNCHANGED <<caller, held>>
  /\ UNCHANGED <<VTReady, VTMutex, NeedVideoSync, fs, gameRest, gtevents, handled, playVars,
                 numevents, seen>>

GameThread == \/ FrameStart \/ MidFrame \/ FrameEnd \/ PassBlit \/ CountEvents \/ HandleEvent
              \/ EventsHandled \/ CheckCommandKeys \/ GT_ToggleFS \/ Updated

DriverNext == MainThread \/ ExitWanted \/ GameThread

\* Both threads run, and a frame comes to its end once the game is to end, which
\* keeps the debugger from stopping it.  Nobody is obliged to want to exit.
DriverSpec == DriverInit /\ [][DriverNext]_driverVars
              /\ WF_driverVars(MainThread) /\ WF_driverVars(GameThread)
              /\ SF_driverVars(~ GameThreadRun /\ FrameEnd)

-----------------------------------------------------------------------------
(* Correctness *)

\* "Set to -1 after we're done blitting everything" (main.cpp:2029): as long as a
\* buffer is to be blitted or being blitted no frame is drawn into it.
DrawsOffScreen == gpc = "emulate" /\ ~ fskip => SoftFB_BackBuffer \notin {VTReady, vtr}

\* What is blitted is in the video mode that is set up as the settings say, and,
\* unless the game was held with it on the screen, in a buffer nobody draws into.
BlitsAsAsked == /\ mpc = "blit" => mode = Mode
                /\ DrawsOffScreen \/ held

\* The game thread handles the events in the order they were sent in, each once,
\* unless one was sent without room for it.
EventsInOrder == overrun \/ handled = [i \in 1 .. Len(handled) |-> i]

\* Wanting to exit ends with the game thread joined, wherever it is.
ExitEnds == NeedExitNow ~> mpc = "closed"
=============================================================================
