------------------------------ MODULE Dialogue ------------------------------
(***************************************************************************)
(* agent/openvoicestream_agent/app_base.py: the conversation state machine.  *)
(* Its coroutines share one event loop and give way to each other at every   *)
(* await: the dispatch loop (and a second _dispatch_one() for an injected    *)
(* text), the microphone pump with the client VAD, the LLM turn tasks, the   *)
(* two watchdogs, the auto-sleep timer and the dashboard's control calls.    *)
(* The server's side of the wire and the speaker are external.               *)
(***************************************************************************)
EXTENDS Naturals, FiniteSetsExt

CONSTANTS
  Turns,       \* LLM turn tasks that can be alive or awaited at once
  MaxInputs    \* bound: utterances heard, ASR and error events, and control calls

ASSUME DialogueBounds == Turns \subseteq Nat \ {0} /\ MaxInputs \in Nat

Actors == {"disp", "inj", "mic", "api", "tmr", "dog"}
ConvState == {"idle", "listening", "thinking", "speaking", "barged", "sleeping"}
NoTurn == 0

VARIABLES
  dState,    \* _state
  dEos,      \* _eos_sent_this_turn
  dAsrDog,   \* _asr_watchdog_task waits for its time
  dDog,      \* _thinking_watchdog_task waits for its time: off or armed
  dFirst,    \* _first_tts_seen
  dVad,      \* _vad_state is "speech"
  dCur,      \* _llm_turn_task
  dLive,     \* turn tasks that are not done
  dKill,     \* ... and have been cancelled
  dPc,       \* where each coroutine is
  dAwait,    \* the turn task it awaits
  dThen,     \* what follows a reconnect of the dispatch loop, a wake-up of a call
  dTimer,    \* _sleep_task counts down
  dDiscard,  \* audio._discard_playback
  dPlaying,  \* audio._is_playing ("yes"), or only the buffer is not empty ("tail")
  dTts,      \* the server has text to speak, or speaks
  dOwes,     \* ... and owes a tts_done
  dLost,     \* the reader has ended
  dCount     \* inputs so far

dVars == <<dState, dEos, dAsrDog, dDog, dFirst, dVad, dCur, dLive, dKill, dPc, dAwait, dThen, dTimer,
           dDiscard, dPlaying, dTts, dOwes, dLost, dCount>>
dLatches == <<dEos, dAsrDog, dFirst>>
dTask == <<dCur, dLive, dKill, dAwait>>
dRest == <<dThen, dVad>>
dAudio == <<dDiscard, dPlaying>>
dServer == <<dTts, dOwes, dLost>>

\* Between turns, asleep, or in the middle of a reply that is flushed.
DInit ==
  /\ dState \in {"idle", "sleeping", "speaking"}
  /\ dEos = FALSE /\ dAsrDog = FALSE /\ dDog = "off" /\ dVad = FALSE
  /\ dCur = NoTurn /\ dLive = {} /\ dKill = {}
  /\ dPc = [a \in Actors |-> "idle"] /\ dAwait = [a \in Actors |-> NoTurn]
  /\ dThen = [disp |-> "idle", api |-> "idle"]
  /\ dTimer = FALSE /\ dLost = FALSE /\ dCount = 0
  /\ dDiscard = (dState = "sleeping")
  /\ dFirst = (dState = "speaking") /\ dOwes = dFirst
  /\ dPlaying = IF dFirst THEN "yes" ELSE "no"
  /\ dTts = IF dFirst THEN "talk" ELSE "none"

DGoto(a, l) == dPc' = [dPc EXCEPT ![a] = l]
Counts == dCount < MaxInputs /\ dCount' = dCount + 1
IsPlaying == dPlaying # "no"

\* _llm_turn_task is not done: it is cancelled and awaited, and a goes on at l
\* when it is over.
CancelTurn(a, l) ==
  /\ dCur \in dLive
  /\ DGoto(a, l)
  /\ dKill' = dKill \cup {dCur}
  /\ dAwait' = [dAwait EXCEPT ![a] = dCur]
  /\ UNCHANGED <<dCur, dLive>>

\* a is at l, and no turn is left to cancel or to await.
TurnGone(a, l, awaiting) ==
  \/ dPc[a] = l /\ dCur \notin dLive
  \/ dPc[a] = awaiting /\ dAwait[a] = NoTurn

\* _reset_sleep_timer(): a running sleep() of the old timer is cut, unless it
\* swallows the cancellation where it awaits the turn.
ResetTimerAnd(pc) ==
  /\ dTimer' = TRUE
  /\ dPc' = IF dPc["tmr"] \in {"zSaid", "zAbort"} THEN [pc EXCEPT !["tmr"] = "idle"] ELSE pc
ResetTimer(a, l) == ResetTimerAnd([dPc EXCEPT ![a] = l])

\* stop_playback(), arm_for_next_turn()
StopPlayback == dPlaying' = "no" /\ dDiscard' = TRUE
ArmForNextTurn == dDiscard' = FALSE /\ UNCHANGED dPlaying

\* abort: frames that are on their way still arrive, so the server may seem to
\* speak on for a while.
Abort == dTts' \in {dTts, "none"} /\ UNCHANGED <<dOwes, dLost>>
\* A new session knows nothing of the old one's text.
NewSession == dTts' = "none" /\ dOwes' = FALSE /\ dLost' = FALSE

-----------------------------------------------------------------------------
(* LLM turn tasks: _run_user_utterance() *)

TurnOver(t) ==
  /\ dLive' = dLive \ {t} /\ dKill' = dKill \ {t}
  /\ dAwait' = [a \in Actors |-> IF dAwait[a] = t THEN NoTurn ELSE dAwait[a]]
  /\ UNCHANGED dCur

\* A sentence goes to the server.
TurnSpeaks(t) ==
  /\ t \in dLive \ dKill /\ dTts = "none" /\ ~dLost
  /\ dTts' = "text"
  /\ UNCHANGED <<dState, dLatches, dDog, dRest, dTask, dPc, dTimer, dAudio, dOwes, dLost, dCount>>

\* The reply is complete and flushed.
TurnFlushes(t) ==
  /\ t \in dLive \ dKill
  /\ dOwes' = ~dLost
  /\ TurnOver(t)
  /\ UNCHANGED <<dState, dLatches, dDog, dRest, dPc, dTimer, dAudio, dTts, dLost, dCount>>

\* LLMUnavailable, LLMTimeoutError, and any other exception.
TurnFails(t) ==
  /\ t \in dLive \ dKill
  /\ dState' = "idle"
  /\ ResetTimerAnd(dPc)
  /\ TurnOver(t)
  /\ UNCHANGED <<dLatches, dDog, dRest, dAudio, dServer, dCount>>

TurnCancelled(t) ==
  /\ t \in dKill
  /\ TurnOver(t)
  /\ UNCHANGED <<dState, dLatches, dDog, dRest, dPc, dTimer, dAudio, dServer, dCount>>

-----------------------------------------------------------------------------
(* _dispatch_one(): speech recognition events *)

\* _interrupt_current_turn_for_barge_in(), by the dispatch loop or the pump:
\* the turn is cancelled, the speaker stopped and the server told.
Interrupt(a) ==
  \/ CancelTurn(a, "barge") /\ UNCHANGED <<dAudio, dServer>>
  \/ /\ dCur \notin dLive
     /\ StopPlayback /\ Abort
     /\ DGoto(a, "barge2")
     /\ UNCHANGED dTask

\* An asr_partial that is long enough, over the agent's own voice: barge-in.
OnPartial ==
  /\ dPc["disp"] = "idle" /\ ~dLost
  /\ dState \in {"speaking", "barged"} /\ IsPlaying
  /\ Counts
  /\ dState' = "barged"
  /\ Interrupt("disp")
  /\ UNCHANGED <<dLatches, dDog, dRest, dTimer>>

BargeStops(a) ==
  /\ dPc[a] = "barge" /\ dAwait[a] = NoTurn
  /\ StopPlayback /\ Abort
  /\ DGoto(a, "barge2")
  /\ UNCHANGED <<dState, dLatches, dDog, dRest, dTask, dTimer, dCount>>

BargeEnds(a) ==
  /\ dPc[a] = "barge2"
  /\ dEos' = FALSE /\ dAsrDog' = FALSE /\ dFirst' = FALSE
  /\ DGoto(a, "idle")
  /\ UNCHANGED <<dState, dDog, dRest, dTask, dTimer, dAudio, dServer, dCount>>

\* What a final that is not asleep and no duplicate goes on with.
FinalKinds == {"real", "stop", "noise"}
\* _had_pending_eos
FinalKind(kind) == IF kind = "noise" /\ dEos THEN "noiseEos" ELSE kind

\* asr_final: the watchdog is disarmed and the latch cleared; a duplicate
\* ends a THINKING that waits for it; with session_complete the server closes.
OnFinal(kind, complete) ==
  /\ dPc["disp"] = "idle" /\ ~dLost /\ dState # "sleeping"
  /\ Counts
  /\ dAsrDog' = FALSE /\ dEos' = FALSE
  /\ IF kind = "duplicate" /\ dState = "thinking"
     THEN dState' = "idle" /\ ResetTimer("disp", "idle")
     ELSE /\ UNCHANGED <<dState, dTimer>>
          /\ DGoto("disp", CASE kind = "duplicate" -> "idle"
                             [] complete /\ kind # "duplicate" -> "recon"
                             [] OTHER -> FinalKind(kind))
  /\ dThen' = [dThen EXCEPT !["disp"] = IF complete THEN FinalKind(kind) ELSE @]
  /\ dLost' = (dLost \/ complete)
  /\ UNCHANGED <<dDog, dFirst, dVad, dTask, dAudio, dTts, dOwes>>

\* While asleep a final is dropped; the reconnect is still made.
OnFinalAsleep(complete) ==
  /\ dPc["disp"] = "idle" /\ ~dLost /\ dState = "sleeping"
  /\ Counts
  /\ DGoto("disp", IF complete THEN "zRecon" ELSE "idle")
  /\ dLost' = (dLost \/ complete)
  /\ UNCHANGED <<dState, dLatches, dDog, dRest, dTask, dTimer, dAudio, dTts, dOwes>>

ReconAsleep ==
  /\ dPc["disp"] = "zRecon"
  /\ NewSession
  /\ dFirst' = FALSE
  /\ DGoto("disp", "idle")
  /\ UNCHANGED <<dState, dEos, dAsrDog, dDog, dRest, dTask, dTimer, dAudio, dCount>>

\* The final's own reconnect: a new session, or a failure that is logged.
FinalReconnects(ok) ==
  /\ dPc["disp"] = "recon" /\ DGoto("disp", dThen["disp"])
  /\ dThen' = [dThen EXCEPT !["disp"] = "idle"]
  /\ IF ok THEN NewSession /\ dFirst' = FALSE ELSE UNCHANGED <<dServer, dFirst>>
  /\ UNCHANGED <<dState, dEos, dAsrDog, dDog, dVad, dTask, dTimer, dAudio, dCount>>

\* A low-signal final gives back LISTENING and BARGED_IN, and a THINKING that
\* waits for the answer to its EOS, but no turn in flight.
FinalNoise(a) ==
  /\ dPc[a] \in {"noise", "noiseEos"}
  /\ IF dState \in {"listening", "barged"} \/ (dState = "thinking" /\ dPc[a] = "noiseEos")
     THEN dState' = "idle" /\ ResetTimer(a, "idle")
     ELSE UNCHANGED <<dState, dTimer>> /\ DGoto(a, "idle")
  /\ ArmForNextTurn
  /\ UNCHANGED <<dLatches, dDog, dRest, dTask, dServer, dCount>>

\* A real final: the speaker is armed, the VAD starts afresh; then the plugins
\* are told.
FinalReal(a) ==
  /\ \/ dPc[a] = "real" /\ DGoto(a, "realSaid")
     \/ dPc[a] = "stop" /\ DGoto(a, "stopSaid")
  /\ ArmForNextTurn
  /\ dVad' = FALSE /\ dEos' = FALSE
  /\ UNCHANGED <<dThen, dState, dAsrDog, dFirst, dDog, dTask, dTimer, dServer, dCount>>

\* The previous turn is cancelled first, for a stop intent and for a new turn.
FinalCancels(a) ==
  /\ \/ dPc[a] = "stopSaid" /\ CancelTurn(a, "stop2")
     \/ dPc[a] = "realSaid" /\ CancelTurn(a, "real2")
  /\ UNCHANGED <<dState, dLatches, dDog, dRest, dTimer, dAudio, dServer, dCount>>

StopIntent(a) ==
  /\ TurnGone(a, "stopSaid", "stop2")
  /\ Abort /\ StopPlayback
  /\ dState' = "idle" /\ ResetTimer(a, "idle")
  /\ UNCHANGED <<dLatches, dDog, dRest, dTask, dCount>>

FreeTurns == Turns \ (dLive \cup {dAwait[a] : a \in Actors})

\* _arm_thinking_watchdog(): a recovery that awaits the old turn swallows the
\* cancellation and goes on, untracked; one that reconnects is cut.
ArmDog(pc) == /\ dDog' = "armed"
              /\ dPc' = IF pc["dog"] = "recon" THEN [pc EXCEPT !["dog"] = "idle"] ELSE pc

SpawnTurn(a) ==
  /\ TurnGone(a, "realSaid", "real2")
  /\ dState' = "thinking"
  /\ ArmDog([dPc EXCEPT ![a] = "idle"])
  /\ FreeTurns # {}
  /\ dCur' = Min(FreeTurns) /\ dLive' = dLive \cup {dCur'}
  /\ UNCHANGED <<dLatches, dRest, dKill, dAwait, dTimer, dAudio, dServer, dCount>>

-----------------------------------------------------------------------------
(* _dispatch_one(): speech synthesis events *)

\* _cancel_thinking_watchdog()
CancelDog(pc) ==
  /\ dDog' = "off"
  /\ dPc' = IF pc["dog"] = "recon" THEN [pc EXCEPT !["dog"] = "idle"] ELSE pc

OnTtsStarted ==
  /\ dPc["disp"] = "idle" /\ ~dLost /\ dTts = "text"
  /\ dTts' = "talk"
  /\ CancelDog(dPc)
  /\ UNCHANGED <<dState, dLatches, dRest, dTask, dTimer, dAudio, dOwes, dLost, dCount>>

\* A frame; the tail of a reply that was barged in on is passed over.
OnTtsAudio ==
  /\ dPc["disp"] = "idle" /\ ~dLost /\ dTts = "talk"
  /\ dState # "barged"
  /\ dState' = IF dFirst THEN dState ELSE "speaking"
  /\ dFirst' = TRUE
  /\ DGoto("disp", "play")
  /\ UNCHANGED <<dEos, dAsrDog, dDog, dRest, dTask, dTimer, dAudio, dServer, dCount>>

\* audio.play(), after the plugins have seen the frame
Play ==
  /\ dPc["disp"] = "play"
  /\ dPlaying' = IF dDiscard THEN dPlaying ELSE "yes"
  /\ DGoto("disp", "idle")
  /\ UNCHANGED <<dState, dLatches, dDog, dRest, dTask, dTimer, dDiscard, dServer, dCount>>

\* tts_done: IDLE, unless the user has barged in.
OnTtsDone ==
  /\ dPc["disp"] = "idle" /\ ~dLost /\ dOwes
  /\ dOwes' = FALSE /\ dTts' = "none"
  /\ dFirst' = FALSE /\ dPlaying' \in IF dPlaying = "yes" THEN {"tail", "no"} ELSE {dPlaying}
  /\ dDog' = "off"
  /\ LET pc == [dPc EXCEPT !["disp"] = "done",
                           !["dog"] = IF @ = "recon" THEN "idle" ELSE @]
     IN IF dState = "barged"
        THEN dPc' = pc /\ UNCHANGED <<dState, dTimer>>
        ELSE dState' = "idle" /\ ResetTimerAnd(pc)
  /\ UNCHANGED <<dEos, dAsrDog, dRest, dTask, dDiscard, dLost, dCount>>

\* ... and again after the plugins have been told.
TtsDoneEnds ==
  /\ dPc["disp"] = "done"
  /\ dFirst' = FALSE /\ dEos' = FALSE
  /\ DGoto("disp", "idle")
  /\ UNCHANGED <<dState, dAsrDog, dDog, dRest, dTask, dTimer, dAudio, dServer, dCount>>

\* An error event; both watchdogs are disarmed and the state remembered.
OnError ==
  /\ dPc["disp"] = "idle" /\ ~dLost
  /\ Counts
  /\ dAsrDog' = FALSE
  /\ CancelDog([dPc EXCEPT !["disp"] = IF dState = "sleeping" THEN "errAsleep" ELSE "err"])
  /\ UNCHANGED <<dState, dEos, dFirst, dRest, dTask, dTimer, dAudio, dServer>>

ErrorCancels ==
  /\ \/ dPc["disp"] = "err" /\ CancelTurn("disp", "err2")
     \/ dPc["disp"] = "errAsleep" /\ CancelTurn("disp", "errAsleep2")
  /\ UNCHANGED <<dState, dLatches, dDog, dRest, dTimer, dAudio, dServer, dCount>>

\* mutant: the state is left to the watchdogs, which are disarmed
ErrorLeaves ==
  /\ TurnGone("disp", "err", "err2") \/ TurnGone("disp", "errAsleep", "errAsleep2")
  /\ DGoto("disp", "idle")
  /\ UNCHANGED <<dState, dLatches, dDog, dRest, dTask, dTimer, dAudio, dServer, dCount>>

\* IDLE, unless the agent was asleep when the error came.
ErrorEnds ==
  /\ \/ TurnGone("disp", "err", "err2") /\ dState' = "idle"
     \/ TurnGone("disp", "errAsleep", "errAsleep2") /\ UNCHANGED dState
  /\ DGoto("disp", "idle")
  /\ UNCHANGED <<dLatches, dDog, dRest, dTask, dTimer, dAudio, dServer, dCount>>

-----------------------------------------------------------------------------
(* _slv_dispatch(): the server ends the session (normally: no error event) *)

ConnectionLost ==
  /\ ~dLost
  /\ Counts
  /\ dLost' = TRUE
  /\ UNCHANGED <<dState, dLatches, dDog, dRest, dTask, dPc, dTimer, dAudio, dTts, dOwes>>

\* events() returns; reconnect() has its failures and its timeout in SlvClient.
DispatchReconnects ==
  /\ dPc["disp"] = "idle" /\ dLost
  /\ NewSession
  /\ dFirst' = FALSE /\ dEos' = FALSE /\ dAsrDog' = FALSE
  /\ dState' = IF dState \in {"thinking", "barged"} THEN "idle" ELSE dState
  /\ UNCHANGED <<dDog, dRest, dTask, dPc, dTimer, dAudio, dCount>>

-----------------------------------------------------------------------------
(* The microphone pump: _update_vad(), send_asr_eos_once() *)

\* Speech begins: a THINKING that waits for a final is given up, and over the
\* agent's own voice it is a barge-in.
SpeechStarts ==
  /\ dPc["mic"] = "idle" /\ ~dVad /\ dState # "sleeping"
  /\ Counts
  /\ dVad' = TRUE
  /\ dEos' = (dEos /\ dState # "thinking")
  /\ dAsrDog' = (dAsrDog /\ ~(dEos /\ dState = "thinking"))
  /\ dState' = IF IsPlaying THEN "barged" ELSE "listening"
  /\ IF IsPlaying THEN Interrupt("mic") ELSE UNCHANGED <<dPc, dTask, dAudio, dServer>>
  /\ UNCHANGED <<dThen, dFirst, dDog, dTimer>>

\* Silence: the plugins are told, then the server.
SpeechEnds ==
  /\ dPc["mic"] = "idle" /\ dVad /\ dState # "sleeping"
  /\ \E drives \in BOOLEAN : DGoto("mic", IF drives THEN "eos" ELSE "ended")
  /\ UNCHANGED <<dState, dLatches, dDog, dRest, dTask, dTimer, dAudio, dServer, dCount>>

\* send_asr_eos_once(), by the pump or by ptt/end: once per turn
SendEos(a) ==
  /\ dPc[a] = "eos"
  /\ dEos' = TRUE
  /\ DGoto(a, IF dEos THEN "ended" ELSE "sent")
  /\ UNCHANGED <<dState, dAsrDog, dFirst, dDog, dRest, dTask, dTimer, dAudio, dServer, dCount>>

EosSent(a) ==
  /\ dPc[a] = "sent"
  /\ dAsrDog' = TRUE
  /\ DGoto(a, "ended")
  /\ UNCHANGED <<dState, dEos, dFirst, dDog, dRest, dTask, dTimer, dAudio, dServer, dCount>>

UtteranceEnds(a) ==
  /\ dPc[a] = "ended"
  /\ dState' = "thinking"
  /\ ArmDog([dPc EXCEPT ![a] = "idle"])
  /\ dVad' = (dVad /\ a # "mic")
  /\ UNCHANGED <<dThen, dLatches, dTask, dTimer, dAudio, dServer, dCount>>

\* The speaker has played what it had.
Drained ==
  /\ dPlaying = "tail" /\ dPlaying' = "no"
  /\ UNCHANGED <<dState, dLatches, dDog, dRest, dTask, dPc, dTimer, dDiscard, dServer, dCount>>

-----------------------------------------------------------------------------
(* Watchdogs and the timer *)

AsrFinalWatchdog ==
  /\ dAsrDog /\ dAsrDog' = FALSE
  /\ dEos' = FALSE
  /\ dState' = IF dEos /\ dState = "thinking" THEN "idle" ELSE dState
  /\ UNCHANGED <<dFirst, dDog, dRest, dTask, dPc, dTimer, dAudio, dServer, dCount>>

ThinkingWatchdog ==
  /\ dDog = "armed" /\ dPc["dog"] = "idle"
  /\ dDog' = "off"
  /\ \/ dState # "thinking" /\ UNCHANGED <<dPc, dTask>>
     \/ dState = "thinking" /\ CancelTurn("dog", "turn")
     \/ dState = "thinking" /\ dCur \notin dLive /\ DGoto("dog", "turn") /\ UNCHANGED dTask
  /\ UNCHANGED <<dState, dLatches, dRest, dTimer, dAudio, dServer, dCount>>

DogReconnects ==
  /\ dPc["dog"] = "turn" /\ dAwait["dog"] = NoTurn
  /\ NewSession
  /\ DGoto("dog", "recon")
  /\ UNCHANGED <<dState, dLatches, dDog, dRest, dTask, dTimer, dAudio, dCount>>

\* Done, or after three seconds given up.
DogRecovers ==
  /\ dPc["dog"] = "recon"
  /\ dFirst' = FALSE /\ dEos' = FALSE
  /\ dState' = "idle" /\ ResetTimer("dog", "idle")
  /\ UNCHANGED <<dAsrDog, dDog, dRest, dTask, dAudio, dServer, dCount>>

SleepTimer ==
  /\ dTimer /\ dTimer' = FALSE
  /\ dPc["tmr"] = "idle" /\ Counts
  /\ DGoto("tmr", IF dState = "idle" THEN "zSaid" ELSE "idle")
  /\ UNCHANGED <<dState, dLatches, dDog, dRest, dTask, dAudio, dServer>>

\* sleep(), by the timer or by a control call
SleepCancels(a) ==
  /\ dPc[a] = "zSaid"
  /\ CancelTurn(a, "zTurn")
  /\ UNCHANGED <<dState, dLatches, dDog, dRest, dTimer, dAudio, dServer, dCount>>

SleepAborts(a) ==
  /\ TurnGone(a, "zSaid", "zTurn")
  /\ Abort
  /\ DGoto(a, "zAbort")
  /\ UNCHANGED <<dState, dLatches, dDog, dRest, dTask, dTimer, dAudio, dCount>>

Sleeps(a) ==
  /\ dPc[a] = "zAbort"
  /\ StopPlayback
  /\ dFirst' = FALSE
  /\ dState' = "sleeping"
  /\ dTimer' = FALSE
  /\ dPc' = [dPc EXCEPT ![a] = "idle",
                        !["tmr"] = IF @ \in {"zSaid", "zAbort"} THEN "idle" ELSE @]
  /\ UNCHANGED <<dEos, dAsrDog, dDog, dRest, dTask, dServer, dCount>>

-----------------------------------------------------------------------------
(* Control calls of the dashboard and of the wake sources *)

Calls(from, l) == dPc["api"] = from /\ DGoto("api", l) /\ Counts

\* wake(): no-op unless asleep; with or without a reconnect.  ptt/start and
\* the injection of a text wake first; the injection is refused while a turn runs.
CallWake(then) ==
  /\ Calls("idle", IF dState # "sleeping" THEN then ELSE "wake")
  /\ dThen' = [dThen EXCEPT !["api"] = then]
  /\ then = "inject" => dPc["inj"] = "idle" /\ dCur \notin dLive
  /\ dDiscard' = (dDiscard /\ then # "inject")
  /\ UNCHANGED <<dState, dLatches, dDog, dVad, dTask, dTimer, dPlaying, dServer>>

WakeThens == {"idle", "ptt", "inject"}

WakeReconnects(ok) ==
  /\ dPc["api"] = "wake" /\ DGoto("api", IF ok THEN "woken" ELSE dThen["api"])
  /\ \/ NewSession
     \/ UNCHANGED dServer
  /\ UNCHANGED <<dState, dLatches, dDog, dRest, dTask, dTimer, dAudio, dCount>>

Wakes ==
  /\ dPc["api"] = "woken" /\ ResetTimer("api", dThen["api"])
  /\ ArmForNextTurn
  /\ dState' = "idle"
  /\ UNCHANGED <<dLatches, dDog, dRest, dTask, dServer, dCount>>

PttStart ==
  /\ dPc["api"] = "ptt" /\ DGoto("api", "idle")
  /\ dState' = "listening"
  /\ dVad' = TRUE /\ dEos' = FALSE
  /\ UNCHANGED <<dThen, dAsrDog, dFirst, dDog, dTask, dTimer, dAudio, dServer, dCount>>

\* A second _dispatch_one() runs beside the dispatch loop, on a text that may be
\* low-signal or a stop intent as well as a real one.
Inject ==
  /\ dPc["api"] = "inject" /\ dPc["inj"] = "idle"
  /\ IF dState = "sleeping"
     THEN DGoto("api", "idle") /\ UNCHANGED <<dEos, dAsrDog>>
     ELSE /\ \E kind \in FinalKinds :
               dPc' = [dPc EXCEPT !["api"] = "idle", !["inj"] = FinalKind(kind)]
          /\ dAsrDog' = FALSE /\ dEos' = FALSE
  /\ UNCHANGED <<dState, dFirst, dDog, dRest, dTask, dTimer, dAudio, dServer, dCount>>

CallPttEnd ==
  /\ Calls("idle", "eos")
  /\ UNCHANGED <<dState, dLatches, dDog, dRest, dTask, dTimer, dAudio, dServer>>

CallSleep ==
  /\ Calls("idle", IF dState = "sleeping" THEN "idle" ELSE "zSaid")
  /\ UNCHANGED <<dState, dLatches, dDog, dRest, dTask, dTimer, dAudio, dServer>>

CallSendText ==
  /\ Calls("idle", "idle")
  /\ ArmForNextTurn
  /\ IF dLost THEN UNCHANGED <<dTts, dOwes>>
     ELSE dOwes' = TRUE /\ dTts' = IF dTts = "none" THEN "text" ELSE dTts
  /\ UNCHANGED <<dState, dLatches, dDog, dRest, dTask, dTimer, dLost>>

CallAbort ==
  /\ Calls("idle", "idle")
  /\ Abort /\ StopPlayback
  /\ UNCHANGED <<dState, dLatches, dDog, dRest, dTask, dTimer>>

CallReconnect ==
  /\ Calls("idle", "rRecon")
  /\ StopPlayback
  /\ dFirst' = FALSE /\ dState' = "idle"
  /\ UNCHANGED <<dEos, dAsrDog, dDog, dRest, dTask, dTimer, dServer>>

Reconnected(ok) ==
  /\ dPc["api"] = "rRecon" /\ DGoto("api", "idle")
  /\ IF ok THEN ArmForNextTurn /\ NewSession ELSE UNCHANGED <<dAudio, dServer>>
  /\ UNCHANGED <<dState, dLatches, dDog, dRest, dTask, dTimer, dCount>>

\* restart_mic_capture(): the pump is cancelled where it waits, and started anew.
CallRestartMic ==
  /\ dPc["api"] = "idle" /\ Counts
  /\ dPc' = [dPc EXCEPT !["mic"] = "idle"]
  /\ dAwait' = [dAwait EXCEPT !["mic"] = NoTurn]
  /\ dVad' = FALSE
  /\ UNCHANGED <<dThen, dState, dLatches, dDog, dCur, dLive, dKill, dTimer, dAudio, dServer>>

-----------------------------------------------------------------------------
Final == \E k \in FinalKinds \cup {"duplicate"}, c \in BOOLEAN : OnFinal(k, c)
InFinal(a) ==
  \/ FinalNoise(a) \/ FinalReal(a) \/ FinalCancels(a) \/ StopIntent(a) \/ SpawnTurn(a)
Dispatching ==
  \/ BargeStops("disp") \/ BargeEnds("disp") \/ ReconAsleep
  \/ \E ok \in BOOLEAN : FinalReconnects(ok)
  \/ InFinal("disp") \/ Play \/ TtsDoneEnds \/ ErrorCancels \/ ErrorEnds \/ DispatchReconnects
Pumping == BargeStops("mic") \/ BargeEnds("mic") \/ SendEos("mic") \/ EosSent("mic") \/ UtteranceEnds("mic")
Sleeping(a) == SleepCancels(a) \/ SleepAborts(a) \/ Sleeps(a)
Controlling ==
  \/ SendEos("api") \/ EosSent("api") \/ UtteranceEnds("api") \/ Sleeping("api")
  \/ \E ok \in BOOLEAN : WakeReconnects(ok) \/ Reconnected(ok)
  \/ Wakes \/ PttStart \/ Inject
TurnRuns(t) == TurnFlushes(t) \/ TurnFails(t) \/ TurnCancelled(t)
DogRuns == ThinkingWatchdog \/ DogReconnects \/ DogRecovers

DNext ==
  \/ OnPartial \/ Final \/ (\E c \in BOOLEAN : OnFinalAsleep(c)) \/ OnTtsStarted \/ OnTtsAudio
  \/ OnTtsDone \/ OnError \/ ConnectionLost \/ Dispatching \/ InFinal("inj")
  \/ SpeechStarts \/ SpeechEnds \/ Pumping \/ Drained
  \/ AsrFinalWatchdog \/ DogRuns \/ SleepTimer \/ Sleeping("tmr")
  \/ (\E then \in WakeThens : CallWake(then)) \/ CallPttEnd \/ CallSleep \/ CallSendText
  \/ CallAbort \/ CallReconnect \/ CallRestartMic \/ Controlling
  \/ \E t \in Turns : TurnSpeaks(t) \/ TurnRuns(t)

\* Every coroutine that can go on does; timers fire; an LLM call ends or times
\* out; the server answers a flush.
DFairness ==
  /\ WF_dVars(Dispatching) /\ WF_dVars(InFinal("inj")) /\ WF_dVars(Pumping) /\ WF_dVars(Controlling)
  /\ WF_dVars(Sleeping("tmr")) /\ WF_dVars(AsrFinalWatchdog) /\ WF_dVars(DogRuns)
  /\ \A t \in Turns : WF_dVars(TurnRuns(t))
  /\ SF_dVars(OnTtsDone)

DSpec == DInit /\ [][DNext]_dVars /\ DFairness

-----------------------------------------------------------------------------
DTypeOK ==
  /\ dState \in ConvState
  /\ {dEos, dAsrDog, dFirst, dVad, dTimer, dDiscard, dOwes, dLost} \subseteq BOOLEAN
  /\ dPlaying \in {"yes", "tail", "no"}
  /\ dDog \in {"off", "armed"} /\ dTts \in {"none", "text", "talk"}
  /\ dCur \in Turns \cup {NoTurn}

\* Nobody waits for a turn that has not been told to end: the wait of a barge-in, a new
\* turn, an error, a watchdog or sleep() is for a task that is cancelled, so it is over
\* when the task has taken note of it.
AwaitedTurnsEnd ==
  /\ dKill \subseteq dLive /\ dLive \subseteq Turns
  /\ \A a \in Actors : dAwait[a] \in dKill \cup {NoTurn}

\* A THINKING state that the watchdog guards is left, or the server has begun
\* to speak: whichever turn, final, error, reconnect or call comes between, and
\* although TTS events and new turns cancel the watchdog at any point of its
\* recovery.
ThinkingWatched ==
  (dState = "thinking" /\ dDog = "armed") ~> (dState # "thinking" \/ dTts = "talk")

\* "Honour the gate at the dispatch boundary so a late asr_final can't wake the
\* agent and trigger a new LLM turn."
AsleepStartsNoTurn == [][dState = "sleeping" => dCur' = dCur]_dVars
=============================================================================
