------------------------------- MODULE V2VTts -------------------------------
(***************************************************************************)
(* The TTS half of /v2v/stream (app/main.py): the dispatcher puts sentences  *)
(* into tts_q, tts_out_task takes them one by one and runs drain() for each, *)
(* a thread of the stream executor synthesizes.  Barge-ins cancel drain(),   *)
(* a reload of a backend cancels the handler, the client may be gone.  The   *)
(* ASR half is V2VAsr; here its task only ends.                              *)
(***************************************************************************)
EXTENDS Naturals, Sequences, FiniteSets

CONSTANT MaxText     \* bound: sentences of a session
ASSUME V2VText == MaxText \in Nat

Texts == 1 .. MaxText

VARIABLES
  yMulti,   \* multi_utterance
  yMade,    \* sentences the buffer has emitted so far
  yQ,       \* tts_q
  yFlush,   \* state["tts_flush"]
  yClosed,  \* state["client_closed"]
  yShut,    \* state["asr_session_closed"]
  yGone,    \* nothing can be sent any more
  yOut,     \* tts_out_task: "loop", "drain", "done", "raised", "cancelled"
  yHit,     \* ... has a cancellation pending
  yCur,     \* the sentence of the running drain(), 0 if none
  yDrain,   \* drain(): "none", "acquire", "play", "done", "cancelled", "raised"
  yStop,    \* sentences whose stop_event is set
  yJobs,    \* the executor's queue; its head is on the thread
  yEnded,   \* sentences whose audio queue ends with None
  yAsr,     \* asr_out_task: "run", "done", "cancelled"
  yDisp,    \* the dispatcher runs
  yMain,    \* the handler: "gather", "teardown", "closed"
  yDropped  \* sentences that were queued or playing at a barge-in

yVars == <<yMulti, yMade, yQ, yFlush, yClosed, yShut, yGone, yOut, yHit, yCur, yDrain,
           yStop, yJobs, yEnded, yAsr, yDisp, yMain, yDropped>>
yText == <<yMulti, yMade, yQ, yDropped>>
yFlags == <<yFlush, yClosed, yShut, yGone>>
yTasks == <<yOut, yHit, yCur, yDrain>>
ySynth == <<yStop, yJobs, yEnded>>
yRest == <<yAsr, yDisp, yMain>>

YInit ==
  /\ yMulti \in BOOLEAN
  /\ yMade = 0 /\ yQ = <<>> /\ yDropped = {}
  /\ yFlush = FALSE /\ yClosed = FALSE /\ yShut = FALSE /\ yGone = FALSE
  /\ yOut = "loop" /\ yHit = FALSE /\ yCur = 0 /\ yDrain = "none"
  /\ yStop = {} /\ yJobs = <<>> /\ yEnded = {}
  /\ yAsr \in {"run", "done"}                 \* "done": no asr_language
  /\ yDisp = TRUE /\ yMain = "gather"

Finished == yOut \in {"done", "raised", "cancelled"}
Listening == yDisp /\ ~yClosed /\ ~yGone

-----------------------------------------------------------------------------
(* dispatcher() *)

\* CLIENT_TEXT: what the buffer emits goes to the queue.
OnText ==
  /\ Listening /\ yMade < MaxText
  /\ yMade' = yMade + 1
  /\ yQ' = Append(yQ, yMade')
  /\ UNCHANGED <<yMulti, yDropped, yFlags, yTasks, ySynth, yRest>>

\* CLIENT_TTS_FLUSH: the rest of the buffer, then the flag.
OnFlush ==
  /\ Listening /\ ~yFlush
  /\ \/ UNCHANGED <<yMade, yQ>>
     \/ yMade < MaxText /\ yMade' = yMade + 1 /\ yQ' = Append(yQ, yMade')
  /\ yFlush' = TRUE
  /\ UNCHANGED <<yMulti, yDropped, yClosed, yShut, yGone, yTasks, ySynth, yRest>>

\* CLIENT_ASR_EOS ends the session's ASR in single-utterance mode.
OnEos ==
  /\ Listening /\ ~yMulti /\ ~yShut
  /\ yShut' = TRUE
  /\ UNCHANGED <<yText, yFlush, yClosed, yGone, yTasks, ySynth, yRest>>

Queued == {yQ[n] : n \in DOMAIN yQ}

\* current_tts_task.cancel() and current_tts_stop.set()
CancelDrain ==
  /\ yDrain' = IF yDrain \in {"acquire", "play"} THEN "cancelled" ELSE yDrain
  /\ yStop' = yStop \cup ({yCur} \ {0})
  /\ yDropped' = yDropped \cup Queued \cup ({yCur} \ {0})
  /\ UNCHANGED <<yOut, yHit, yCur>>

\* CLIENT_ABORT: the queue is emptied too.
OnAbort ==
  /\ Listening /\ (yCur # 0 \/ yQ # <<>>)
  /\ CancelDrain
  /\ yQ' = <<>>
  /\ UNCHANGED <<yMulti, yMade, yFlags, yJobs, yEnded, yRest>>

\* The VAD hears the user speak: the queue stays as it is.
OnSpeechStart ==
  /\ Listening /\ yAsr = "run" /\ yCur # 0
  /\ CancelDrain
  /\ UNCHANGED <<yMulti, yMade, yQ, yFlags, yJobs, yEnded, yRest>>

\* The socket breaks: the next send fails and sets client_closed, ...
SocketBreaks ==
  /\ ~yGone
  /\ yGone' = TRUE
  /\ UNCHANGED <<yText, yFlush, yClosed, yShut, yTasks, ySynth, yRest>>

\* ... or receive() reports it first, and the work tasks are cancelled.
OnDisconnect ==
  /\ yDisp /\ yGone
  /\ yClosed' = TRUE /\ yDisp' = FALSE
  /\ yHit' = ~Finished
  /\ yAsr' = IF yAsr = "run" THEN "cancelled" ELSE yAsr
  /\ UNCHANGED <<yText, yFlush, yShut, yGone, yOut, yCur, yDrain, ySynth, yMain>>

\* _force_close_ws_sessions(): close the socket, cancel the handler, and with
\* it the tasks it gathers.
Kick ==
  /\ yMain = "gather" /\ ~yGone
  /\ yGone' = TRUE
  /\ yHit' = ~Finished
  /\ yAsr' = IF yAsr = "run" THEN "cancelled" ELSE yAsr
  /\ UNCHANGED <<yText, yFlush, yClosed, yShut, yOut, yCur, yDrain, ySynth, yDisp, yMain>>

-----------------------------------------------------------------------------
(* tts_out_task() *)

\* mutant: the loop is not left when the client is gone
NeverLeaves == FALSE

\* while not state["client_closed"]
LeavesLoop == yClosed

OutLeaves ==
  /\ yOut = "loop" /\ ~yHit /\ LeavesLoop
  /\ yOut' = "done"
  /\ UNCHANGED <<yText, yFlags, yHit, yCur, yDrain, ySynth, yRest>>

\* A send() on a broken socket.
Sending == yClosed' = (yClosed \/ yGone)

\* Multi-utterance: the flush ended a turn, not the session.
TurnOnly == yMulti /\ ~yShut

\* mutant: the flag of a turn stays set
FlushKept ==
  /\ yOut = "loop" /\ ~yHit /\ ~LeavesLoop
  /\ yFlush /\ yQ = <<>>
  /\ IF TurnOnly THEN UNCHANGED <<yFlush, yOut>> ELSE yOut' = "done" /\ UNCHANGED yFlush
  /\ Sending
  /\ UNCHANGED <<yText, yShut, yGone, yHit, yCur, yDrain, ySynth, yRest>>

\* The queue is drained after a flush: tts_done of the turn, or the last one.
OutFlushed ==
  /\ yOut = "loop" /\ ~yHit /\ ~LeavesLoop
  /\ yFlush /\ yQ = <<>>
  /\ IF TurnOnly THEN yFlush' = FALSE /\ UNCHANGED yOut
                 ELSE yOut' = "done" /\ UNCHANGED yFlush
  /\ Sending
  /\ UNCHANGED <<yText, yShut, yGone, yHit, yCur, yDrain, ySynth, yRest>>

OutTakes ==
  /\ yOut = "loop" /\ ~yHit /\ ~LeavesLoop
  /\ yQ # <<>>
  /\ yCur' = Head(yQ) /\ yQ' = Tail(yQ)
  /\ yDrain' = "acquire"
  /\ yOut' = "drain"
  /\ UNCHANGED <<yMulti, yMade, yDropped, yFlags, yHit, ySynth, yRest>>

\* The task's own cancellation at tts_q.get().
OutCancelled ==
  /\ yOut = "loop" /\ yHit
  /\ yOut' = "cancelled" /\ yHit' = FALSE
  /\ UNCHANGED <<yText, yFlags, yCur, yDrain, ySynth, yRest>>

SentenceOver == yCur' = 0 /\ yDrain' = "none"

\* mutant: the drain of a sentence has no deadline
OutBlocks ==
  /\ yOut = "drain" /\ ~yHit
  /\ yDrain = "play"
  /\ yOut' = "loop" /\ SentenceOver
  /\ yStop' = yStop \cup {yCur}
  /\ UNCHANGED <<yText, yFlags, yHit, yJobs, yEnded, yRest>>

\* wait_for(task, timeout): the deadline covers what drain() waits for before
\* its own watchdog; the client is told.
OutDeadline ==
  /\ yOut = "drain" /\ ~yHit
  /\ yDrain \in {"acquire", "play"}
  /\ yOut' = "loop" /\ SentenceOver
  /\ yStop' = yStop \cup {yCur}
  /\ Sending
  /\ UNCHANGED <<yText, yFlush, yShut, yGone, yHit, yJobs, yEnded, yRest>>

\* except CancelledError: a barge-in, or the task's own cancellation, which
\* looks the same and is swallowed.
OutBargeIn ==
  /\ yOut = "drain" /\ (yHit \/ yDrain = "cancelled")
  /\ yOut' = "loop" /\ yHit' = FALSE /\ SentenceOver
  /\ yStop' = yStop \cup {yCur}
  /\ UNCHANGED <<yText, yFlags, yJobs, yEnded, yRest>>

OutNext ==
  /\ yOut = "drain" /\ ~yHit /\ yDrain = "done"
  /\ yOut' = "loop" /\ SentenceOver
  /\ UNCHANGED <<yText, yFlags, yHit, ySynth, yRest>>

\* drain() raised: nobody catches it before the handler.
OutRaises ==
  /\ yOut = "drain" /\ ~yHit /\ yDrain = "raised"
  /\ yOut' = "raised" /\ SentenceOver
  /\ UNCHANGED <<yText, yFlags, yHit, ySynth, yRest>>

-----------------------------------------------------------------------------
(* drain() and the synth thread *)

\* BackendManager.acquire() and the coordinator; then tts_started and the job.
DrainStarts ==
  /\ yDrain = "acquire"
  /\ yDrain' = "play"
  /\ yJobs' = Append(yJobs, yCur)
  /\ Sending
  /\ UNCHANGED <<yText, yFlush, yShut, yGone, yOut, yHit, yCur, yStop, yEnded, yRest>>

\* The manager is draining or failed: 503.
DrainRefused ==
  /\ yDrain = "acquire"
  /\ yDrain' = "raised"
  /\ UNCHANGED <<yText, yFlags, yOut, yHit, yCur, ySynth, yRest>>

\* None, an error, or the watchdog: no chunk for ten seconds.
DrainEnds ==
  /\ yDrain = "play"
  /\ yDrain' = "done"
  /\ yStop' = IF yCur \in yEnded THEN yStop ELSE yStop \cup {yCur}
  /\ Sending
  /\ UNCHANGED <<yText, yFlush, yShut, yGone, yOut, yHit, yCur, yJobs, yEnded, yRest>>

\* _run_synth(): done, failed, or stopped at a chunk.
SynthEnds ==
  /\ yJobs # <<>>
  /\ yEnded' = yEnded \cup {Head(yJobs)}
  /\ yJobs' = Tail(yJobs)
  /\ UNCHANGED <<yText, yFlags, yTasks, yStop, yRest>>

-----------------------------------------------------------------------------
(* The handler *)

\* asr_out_task ends with the session or with the client.
AsrOver ==
  /\ yAsr = "run" /\ (yShut \/ yClosed)
  /\ yAsr' = "done"
  /\ UNCHANGED <<yText, yFlags, yTasks, ySynth, yDisp, yMain>>

\* gather() returns or raises: the dispatcher and the other task are cancelled
\* and the synth thread is told to stop.
TeardownTts ==
  /\ yMain = "gather"
  /\ \/ Finished /\ yAsr # "run"
     \/ yOut \in {"raised", "cancelled"} \/ yAsr = "cancelled"
  /\ yMain' = "teardown" /\ yDisp' = FALSE
  /\ yHit' = ~Finished
  /\ yAsr' = IF yAsr = "run" THEN "cancelled" ELSE yAsr
  /\ yStop' = yStop \cup ({yCur} \ {0})
  /\ UNCHANGED <<yText, yFlags, yOut, yCur, yDrain, yJobs, yEnded>>

\* The tasks are awaited, the socket closed, the slot released.
CloseTts ==
  /\ yMain = "teardown" /\ Finished
  /\ yMain' = "closed"
  /\ UNCHANGED <<yText, yFlags, yTasks, ySynth, yAsr, yDisp>>

-----------------------------------------------------------------------------
OutStep == OutLeaves \/ OutFlushed \/ OutTakes \/ OutCancelled \/ OutBargeIn \/ OutNext \/ OutRaises
DrainStep == DrainStarts \/ DrainRefused \/ DrainEnds
MainStep == AsrOver \/ TeardownTts \/ CloseTts

YNext ==
  \/ OnText \/ OnFlush \/ OnEos \/ OnAbort \/ OnSpeechStart
  \/ SocketBreaks \/ OnDisconnect \/ Kick
  \/ OutStep \/ OutDeadline \/ DrainStep \/ SynthEnds \/ MainStep

\* The tasks are scheduled, receive() reports a broken socket, the deadline
\* strikes; nothing is assumed of the synth thread or of drain()'s waiting.
YFairness ==
  WF_yVars(OutStep) /\ WF_yVars(OutDeadline) /\ WF_yVars(MainStep)

YSpec == YInit /\ [][YNext]_yVars /\ YFairness

-----------------------------------------------------------------------------
YTypeOK ==
  /\ {yMulti, yFlush, yClosed, yShut, yGone, yHit, yDisp} \subseteq BOOLEAN
  /\ yMade \in 0 .. MaxText /\ yCur \in 0 .. MaxText
  /\ yQ \in Seq(Texts) /\ yJobs \in Seq(Texts)
  /\ yStop \subseteq Texts /\ yEnded \subseteq Texts /\ yDropped \subseteq Texts
  /\ yOut \in {"loop", "drain", "done", "raised", "cancelled"}
  /\ yDrain \in {"none", "acquire", "play", "done", "cancelled", "raised"}
  /\ yAsr \in {"run", "done", "cancelled"} /\ yMain \in {"gather", "teardown", "closed"}

\* "waits forever on a promise the server can never fulfil": a flush is always
\* answered, although the backend may be wedged, drain() may wait for ever for
\* the manager or the coordinator, and the thread of an earlier sentence may
\* never come back.
FlushAnswered == yFlush ~> (~yFlush \/ Finished)

\* "cancel the (possibly worker-blocked) work tasks so the SessionLimiter slot
\* frees": once the server knows that the client is gone, the session is torn
\* down, although tts_out_task takes its own cancellation for a barge-in.
ClosedFreesSlot == yClosed ~> yMain = "closed"

\* "await the cancelled work tasks before releasing the ASR/TTS slot": a
\* teardown that has begun ends, after a reload's cancellation too.
TeardownEnds == yMain = "teardown" ~> yMain = "closed"

\* A thread of the executor that nobody listens to any more has been told to stop:
\* after a barge-in, a deadline, the watchdog of drain() and the teardown.
LeftBehindStops ==
  \A n \in DOMAIN yJobs :
    yJobs[n] \in yStop \/ (yDrain = "play" /\ yJobs[n] = yCur /\ yMain # "closed")

\* The executor gets the sentences of a session in their order, and none twice.
SynthOrder ==
  /\ \A m, n \in DOMAIN yJobs : m < n => yJobs[m] < yJobs[n]
  /\ \A e \in yEnded : \A n \in DOMAIN yJobs : e < yJobs[n]

\* docs/api/v2v-stream.md, "Barge-in": both triggers "cancel the in-flight TTS
\* synth task + drop queued sentences".
BargeInDropsQueue == yDrain = "play" => yCur \notin yDropped
=============================================================================
