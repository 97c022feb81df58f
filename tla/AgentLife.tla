------------------------------ MODULE AgentLife ------------------------------
(***************************************************************************)
(* The life of the agent process: BaseApp.run() and shutdown(), the          *)
(* microphone pump with its capture stream (audio_io.py), the device watcher, *)
(* the pump's watchdog and restart_mic_capture(), which the watchdog and the *)
(* dashboard both call.  PortAudio is external.                              *)
(***************************************************************************)
EXTENDS Naturals

CONSTANTS
  PaReset,     \* _PA_RESET_THRESHOLD
  MaxFaults    \* bound: device changes, refused opens, silent streams, restarts asked for

ASSUME LifeBounds == PaReset \in Nat \ {0} /\ MaxFaults \in Nat

VARIABLES
  lPhase,    \* where run() or shutdown() is
  lPump,     \* _mic_task: none, new, reading, busy (in the loop's body), cancelled, done
  lIn,       \* _input_stream: none, open, or silent (open, no chunks come)
  lOut,      \* _output_stream is open
  lFails,    \* _input_open_failures
  lWatch,    \* _device_watcher_task
  lOldGen,   \* a capture generator abandoned in the loop's body: its finally is due
  lLock,     \* _mic_restart_lock
  lPc,       \* the two callers of restart_mic_capture()
  lTurn, lDisp, lPlugins, lSlv,   \* LLM turn, dispatch task, plugins, transport: in use
  lTimer,    \* _sleep_task
  lFaults

lVars == <<lPhase, lPump, lIn, lOut, lFails, lWatch, lOldGen, lLock, lPc, lTurn, lDisp, lPlugins,
           lSlv, lTimer, lFaults>>
lCapture == <<lPump, lIn, lOut, lFails, lWatch, lOldGen>>
lRest == <<lTurn, lDisp, lPlugins, lSlv, lTimer>>
lRestarts == <<lLock, lPc>>

Restarters == {"dog", "api"}
NobodyIn == "nobody"

LInit ==
  /\ lPhase = "start" /\ lPump = "none" /\ lIn = "none" /\ lOut = FALSE /\ lFails = 0
  /\ lWatch = FALSE /\ lOldGen = FALSE /\ lLock = NobodyIn
  /\ lPc = [a \in Restarters |-> "off"]
  /\ lTurn = FALSE /\ lDisp = FALSE /\ lPlugins = FALSE /\ lSlv = FALSE /\ lTimer = FALSE
  /\ lFaults = 0

Fault == lFaults < MaxFaults /\ lFaults' = lFaults + 1

\* run(): connect, the three tasks, then (after the warmup) the plugins.
Boot ==
  /\ lPhase = "start" /\ lPhase' = "run"
  /\ lSlv' = TRUE /\ lDisp' = TRUE /\ lPump' = "new"
  /\ lPc' = [lPc EXCEPT !["dog"] = "idle"]
  /\ UNCHANGED <<lIn, lOut, lFails, lWatch, lOldGen, lLock, lTurn, lPlugins, lTimer, lFaults>>

StartPlugins ==
  /\ lPhase = "run" /\ ~lPlugins
  /\ lPlugins' = TRUE
  /\ lPc' = [lPc EXCEPT !["api"] = "idle"]
  /\ UNCHANGED <<lPhase, lCapture, lLock, lTurn, lDisp, lSlv, lTimer, lFaults>>

-----------------------------------------------------------------------------
(* _open_input_stream() *)

\* It opens, or PortAudio refuses; after PaReset refusals in a row all streams
\* are closed, the library restarted and one more attempt made.
OpenInput(ok) ==
  \/ /\ ok
     /\ lIn' = "open" /\ lFails' = 0 /\ UNCHANGED lOut
  \/ /\ ~ok /\ lFails + 1 < PaReset
     /\ lFails' = lFails + 1 /\ lIn' = "none" /\ UNCHANGED lOut
  \/ /\ ~ok /\ lFails + 1 >= PaReset
     /\ lOut' = FALSE
     /\ \/ lIn' = "open" /\ lFails' = 0
        \/ lIn' = "none" /\ lFails' = lFails + 1

Opened == lIn' = "open"

\* start_capture(): the watcher of an older generator is kept while it runs.
PumpOpens(ok) ==
  /\ lPump = "new"
  /\ IF ok THEN UNCHANGED lFaults ELSE Fault
  /\ lIn = "none" /\ OpenInput(ok)
  /\ lPump' = IF Opened THEN "reading" ELSE "done"
  /\ lWatch' = (lWatch \/ Opened)
  /\ UNCHANGED <<lPhase, lOldGen, lRestarts, lRest>>

\* A chunk: the body of the loop, with its awaits, and back.
PumpChunk ==
  /\ \/ lPump = "reading" /\ lIn = "open" /\ lPump' = "busy"
     \/ lPump = "busy" /\ lPump' = "reading"
  /\ UNCHANGED <<lPhase, lIn, lOut, lFails, lWatch, lOldGen, lRestarts, lRest, lFaults>>

\* A cancelled pump ends: inside the generator its finally runs at once; in
\* the body the generator is left to the event loop.
PumpEnds ==
  /\ lPump \in {"cancelled", "cancelledBusy"}
  /\ lPump' = "done"
  /\ IF lPump = "cancelled" THEN lIn' = "none" /\ lWatch' = FALSE /\ UNCHANGED lOldGen
     ELSE lOldGen' = TRUE /\ UNCHANGED <<lIn, lWatch>>
  /\ UNCHANGED <<lPhase, lOut, lFails, lRestarts, lRest, lFaults>>

\* The abandoned generator is closed: it stops the stream and the watcher that
\* are there now.
OldGenCloses ==
  /\ lOldGen /\ lOldGen' = FALSE
  /\ lIn' = "none" /\ lWatch' = FALSE
  /\ UNCHANGED <<lPhase, lPump, lOut, lFails, lRestarts, lRest, lFaults>>

\* _watch_devices(): the topology has changed, both streams are reopened.
DevicesChange(ok) ==
  /\ lWatch /\ Fault
  /\ IF lIn = "none" THEN UNCHANGED <<lIn, lFails>> /\ lOut' = FALSE
     ELSE OpenInput(ok) /\ (lOut' = FALSE \/ lOut)
  /\ UNCHANGED <<lPhase, lPump, lWatch, lOldGen, lRestarts, lRest>>

StreamSilent ==
  /\ lIn = "open" /\ Fault
  /\ lIn' = "silent"
  /\ UNCHANGED <<lPhase, lPump, lOut, lFails, lWatch, lOldGen, lRestarts, lRest>>

\* play() opens the output on demand.
EnsureOutput ==
  /\ lDisp /\ ~lOut /\ lOut' = TRUE
  /\ UNCHANGED <<lPhase, lPump, lIn, lFails, lWatch, lOldGen, lRestarts, lRest, lFaults>>

-----------------------------------------------------------------------------
(* restart_mic_capture(), by the watchdog and by the dashboard *)

NoChunks == lPump = "reading" /\ lIn # "open"

\* mutant: only a pump that has ended is restarted
NoTask == lPump \in {"none", "done"}

\* The pump has ended, or no chunk has come for five seconds.
MicStale == NoChunks \/ lPump \in {"none", "done"}

\* _mic_watchdog()
WatchdogRestarts ==
  /\ lPc["dog"] = "idle" /\ MicStale
  /\ lPc' = [lPc EXCEPT !["dog"] = "lock"]
  /\ UNCHANGED <<lPhase, lCapture, lLock, lRest, lFaults>>

ApiRestarts ==
  /\ lPc["api"] = "idle" /\ lPlugins /\ Fault
  /\ lPc' = [lPc EXCEPT !["api"] = "lock"]
  /\ UNCHANGED <<lPhase, lCapture, lLock, lRest>>

\* task.cancel(); a pump that was cancelled before its first step never runs.
Cancelled(p) ==
  CASE p = "busy" -> "cancelledBusy" [] p = "reading" -> "cancelled" [] p = "new" -> "done"
    [] OTHER -> p

RestartLocks(a) ==
  /\ lPc[a] = "lock" /\ lLock = NobodyIn
  /\ lLock' = a /\ lPc' = [lPc EXCEPT ![a] = "wait"]
  /\ lPump' = Cancelled(lPump)
  /\ UNCHANGED <<lPhase, lIn, lOut, lFails, lWatch, lOldGen, lRest, lFaults>>

\* The old pump is over: the stream is stopped and a new pump started.
RestartPump(a) ==
  /\ lPc[a] = "wait" /\ lPump \in {"done", "none"}
  /\ lIn' = "none" /\ lPump' = "new"
  /\ lLock' = NobodyIn /\ lPc' = [lPc EXCEPT ![a] = "idle"]
  /\ UNCHANGED <<lPhase, lOut, lFails, lWatch, lOldGen, lRest, lFaults>>

-----------------------------------------------------------------------------
(* What the dispatch task does meanwhile *)

\* A final spawns a turn, in shutdown() too as long as the task is there.
TurnStarts ==
  /\ lDisp /\ ~lTurn
  /\ lTurn' = TRUE
  /\ UNCHANGED <<lPhase, lCapture, lRestarts, lDisp, lPlugins, lSlv, lTimer, lFaults>>

\* The turn is over; a failed one sets the sleep timer again.
TurnEnds ==
  /\ lTurn /\ lTurn' = FALSE
  /\ lTimer' \in {lTimer, TRUE}
  /\ UNCHANGED <<lPhase, lCapture, lRestarts, lDisp, lPlugins, lSlv, lFaults>>

\* A noise final, tts_done: back to IDLE, the sleep timer is set again.
TimerSet ==
  /\ lDisp /\ ~lTimer
  /\ lTimer' = TRUE
  /\ UNCHANGED <<lPhase, lCapture, lRestarts, lTurn, lDisp, lPlugins, lSlv, lFaults>>

\* _sleep_after(): sleep() cancels the turn, unless the state is not IDLE.
SleepFires ==
  /\ lTimer /\ lTimer' = FALSE
  /\ lTurn' \in {lTurn, FALSE}
  /\ UNCHANGED <<lPhase, lCapture, lRestarts, lDisp, lPlugins, lSlv, lFaults>>

-----------------------------------------------------------------------------
(* shutdown() *)

LPhase(from, to) == lPhase = from /\ lPhase' = to

\* The watchdog is cancelled in its sleep or where it restarts the pump, whose
\* wait swallows the cancellation.
ShutdownBegins ==
  /\ LPhase("run", "stopping") /\ lPlugins
  /\ lTurn' = FALSE /\ lTimer' = FALSE
  /\ lPc' = [lPc EXCEPT !["dog"] = IF @ = "wait" THEN "wait" ELSE "off"]
  /\ UNCHANGED <<lCapture, lLock, lDisp, lPlugins, lSlv, lFaults>>

StopMic ==
  /\ LPhase("stopping", "mic")
  /\ lPc["dog"] = "off" \/ lPc["dog"] = "idle"
  /\ lPump' = Cancelled(lPump)
  /\ lPc' = [lPc EXCEPT !["dog"] = "off"]
  /\ UNCHANGED <<lIn, lOut, lFails, lWatch, lOldGen, lLock, lRest, lFaults>>

\* The dashboard's server waits for the calls it is answering.
StopPlugins ==
  /\ LPhase("mic", "plugins")
  /\ lPc["api"] = "idle" /\ lPc' = [lPc EXCEPT !["api"] = "off"]
  /\ lPlugins' = FALSE
  /\ UNCHANGED <<lCapture, lLock, lTurn, lDisp, lSlv, lTimer, lFaults>>

StopDispatch ==
  /\ LPhase("plugins", "dispatch")
  /\ lDisp' = FALSE
  /\ UNCHANGED <<lCapture, lRestarts, lTurn, lPlugins, lSlv, lTimer, lFaults>>

\* Mic and dispatch task are awaited; then transport, audio and clients close.
CloseTransport ==
  /\ LPhase("dispatch", "closed")
  /\ lPump = "done"
  /\ lSlv' = FALSE
  /\ lIn' = "none" /\ lOut' = FALSE
  /\ UNCHANGED <<lPump, lFails, lWatch, lOldGen, lRestarts, lTurn, lDisp, lPlugins, lTimer, lFaults>>

-----------------------------------------------------------------------------
Capture == (\E ok \in BOOLEAN : PumpOpens(ok)) \/ PumpEnds \/ OldGenCloses
Restarting(a) == RestartLocks(a) \/ RestartPump(a)

LNext ==
  \/ Boot \/ StartPlugins \/ Capture \/ PumpChunk \/ (\E ok \in BOOLEAN : DevicesChange(ok))
  \/ StreamSilent \/ EnsureOutput \/ WatchdogRestarts \/ ApiRestarts
  \/ (\E a \in Restarters : Restarting(a)) \/ TurnStarts \/ TurnEnds \/ TimerSet
  \/ SleepFires
  \/ ShutdownBegins \/ StopMic \/ StopPlugins \/ StopDispatch \/ CloseTransport

LFairness ==
  /\ WF_lVars(Capture) /\ WF_lVars(WatchdogRestarts)
  /\ \A a \in Restarters : SF_lVars(RestartLocks(a)) /\ WF_lVars(RestartPump(a))

LSpec == LInit /\ [][LNext]_lVars /\ LFairness

-----------------------------------------------------------------------------
LTypeOK ==
  /\ lPhase \in {"start", "run", "stopping", "mic", "plugins", "dispatch", "closed"}
  /\ lPump \in {"none", "new", "reading", "busy", "cancelled", "cancelledBusy", "done"}
  /\ lIn \in {"none", "open", "silent"} /\ lOut \in BOOLEAN /\ lFails \in Nat
  /\ lWatch \in BOOLEAN /\ lOldGen \in BOOLEAN
  /\ lLock \in Restarters \cup {NobodyIn}
  /\ lPc \in [Restarters -> {"off", "idle", "lock", "wait"}]
  /\ {lTurn, lDisp, lPlugins, lSlv, lTimer} \subseteq BOOLEAN
  /\ lFaults \in 0 .. MaxFaults

\* Two restarts at once do not make two pumps: who waits for the old pump has the lock.
RestartsExclude == \A a \in Restarters : lPc[a] = "wait" <=> lLock = a

\* What shutdown() leaves behind: the pump has ended and nobody can start another, no
\* stream is open, and none is opened again, though an abandoned generator and its device
\* watcher, a turn that began late and a sleep timer may still be there.
ClosedIsSilent ==
  lPhase = "closed" =>
    /\ lPump = "done" /\ \A a \in Restarters : lPc[a] = "off"
    /\ lIn = "none" /\ ~lOut /\ ~lDisp /\ ~lSlv /\ ~lPlugins

\* Whatever takes the microphone away (a refused open, a silent stream, an
\* abandoned generator that stops its successor's stream, two restarts at
\* once), chunks flow again unless the agent shuts down.
CaptureRecovers ==
  (lPhase = "run" /\ lPump # "busy" /\ lIn # "open") ~> (lIn = "open" \/ lPhase # "run")
=============================================================================
