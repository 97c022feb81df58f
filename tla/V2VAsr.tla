------------------------------- MODULE V2VAsr -------------------------------
(***************************************************************************)
(* The ASR half of one /v2v/stream connection (app/main.py, v2v_stream):   *)
(* the dispatcher that reads client frames, asr_out_task that polls and    *)
(* finalizes, and the handler that waits for the work tasks and tears the  *)
(* connection down, all three calling one ASRSessionManager and sharing    *)
(* the `state' dictionary.                                                 *)
(*                                                                         *)
(* The audio of a frame, transcripts and the TTS half are left out; the    *)
(* TTS task only matters for when the handler's gather() ends.             *)
(***************************************************************************)
EXTENDS AsrSessionManager

CONSTANT Configs  \* what the config frame may ask for: a VAD, multi_utterance

ASSUME V2VAssumption ==
  /\ Tasks = {"dispatcher", "out", "handler"}
  /\ Configs \subseteq [vad : BOOLEAN, multi : BOOLEAN]

VARIABLES
  config,   \* the config frame of this connection
  flags,    \* the shared `state' dictionary
  speech,   \* inside VADSession: speech is going on
  dpc,      \* where the dispatcher is
  dend,     \* its local speech_ended_now
  opc,      \* where asr_out_task is
  out,      \* its locals: is_endpoint, endpoint_reason, finalize_gen, the
            \* generation the endpoint was stamped with, and whether the task is
            \* suspended in a send
  hpc,      \* where the handler is
  ttsOver,  \* the TTS task has returned, or there is none
  aborted,  \* history: the last utterance was ended by an abort
  cut       \* history: a reload cut the handler's own clean-up short

vvars == <<config, cut, flags, speech, dpc, dend, opc, out, hpc, ttsOver, aborted>>
vars == <<mvars, vvars>>

Reasons == {"none", "vad", "client_eos"}
Flags == [active : BOOLEAN, activeGen : 0 .. MaxGen, turn : BOOLEAN,
          pending : Reasons, pendingGen : 0 .. MaxGen,
          sessClosed : BOOLEAN, clientClosed : BOOLEAN]
OutLocals == [endpoint : BOOLEAN, reason : Reasons, gen : 0 .. MaxGen,
              stamp : 0 .. MaxGen, sending : BOOLEAN]
NoLocals == [endpoint |-> FALSE, reason |-> "none", gen |-> 0, stamp |-> 0,
             sending |-> FALSE]

Init ==
  /\ MInit
  /\ config \in Configs
  /\ flags = [active |-> FALSE, activeGen |-> 0, turn |-> FALSE, pending |-> "none",
              pendingGen |-> 0, sessClosed |-> FALSE, clientClosed |-> FALSE]
  /\ speech = FALSE
  /\ dpc = "recv"
  /\ dend = FALSE
  /\ opc = "top"
  /\ out = NoLocals
  /\ hpc = "run"
  /\ ttsOver \in BOOLEAN
  /\ aborted = FALSE
  /\ cut = FALSE

\* A coroutine runs on until it suspends: one whose call has come back takes
\* the result at once (leaving the manager and the coordinator suspends nobody),
\* asr_out_task goes through its tick unless a send holds it up, and joining a
\* cancelled dispatcher waits for nothing but the event loop.
Returned == \E t \in Tasks : call[t].pc = "done"
MidTick == opc \in {"gate", "fire"} /\ ~out.sending
Settled == ~Returned /\ ~MidTick /\ hpc # "joining"

NoEndpoint(f) == [f EXCEPT !.pending = "none", !.pendingGen = 0]
TurnOver(f) == [f EXCEPT !.active = FALSE, !.turn = FALSE]

-----------------------------------------------------------------------------
(* dispatcher *)

\* Blocked in ws.receive(), past the loop's test of client_closed.
Receiving == dpc = "recv" /\ Settled

\* The next turn of the dispatcher's loop.
NextFrame == IF flags.clientClosed THEN "end" ELSE "recv"

\* A VAD speech end or asr_eos: the endpoint, stamped with the utterance it ends.
Endpoint(f, reason) ==
  [f EXCEPT !.pending = reason, !.pendingGen = f.activeGen,
            !.sessClosed = @ \/ ~config.multi]

\* Audio that starts an utterance: a VAD speech start, or any first audio
\* without a VAD.
DispatchStart ==
  /\ Receiving
  /\ ~flags.sessClosed
  /\ IF config.vad THEN ~speech ELSE ~flags.active
  /\ speech' = config.vad
  /\ Invoke("dispatcher", "start")
  /\ dpc' = "starting"
  /\ aborted' = FALSE
  /\ UNCHANGED <<config, cut, flags, dend, opc, out, hpc, ttsOver>>

\* Mutant: a new turn does not start its clock.
ClockNotStarted == flags.turn

\* asr_turn_started_at of a new turn.
TurnClock == TRUE

\* on_speech_start() returned: the flags, then this frame's own audio.
DispatchStarted ==
  /\ dpc = "starting"
  /\ call["dispatcher"].pc = "done"
  /\ call["dispatcher"].res = "ok"
  /\ flags' = [NoEndpoint(flags) EXCEPT !.active = TRUE, !.turn = TurnClock,
                                        !.activeGen = call["dispatcher"].gen]
  /\ call' = [call EXCEPT !["dispatcher"] = [NoCall EXCEPT !.op = "audio", !.pc = "wait"]]
  /\ dpc' = "feeding"
  /\ dend' = FALSE
  /\ UNCHANGED <<lock, state, stream, generation, made, genOf, closed,
                 config, cut, speech, opc, out, hpc, ttsOver, aborted>>

\* ASRSessionUnavailable: the client is told, the frame is dropped.
DispatchUnavailable ==
  /\ dpc = "starting"
  /\ call["dispatcher"].res = "unavailable"
  /\ Return("dispatcher")
  /\ flags' = [(IF config.vad THEN NoEndpoint(flags) ELSE flags) EXCEPT !.active = FALSE]
  /\ dpc' = NextFrame
  /\ UNCHANGED <<config, cut, speech, dend, opc, out, hpc, ttsOver, aborted>>

\* Any other audio frame, fed while an utterance is active; `end' is a VAD
\* speech end, which is flagged only after the audio was accepted.
DispatchAudio(end) ==
  /\ Receiving
  /\ ~flags.sessClosed
  /\ config.vad \/ flags.active
  /\ end => config.vad /\ speech
  /\ speech' = (speech /\ ~end)
  /\ \/ /\ flags.active
        /\ Invoke("dispatcher", "audio")
        /\ dpc' = "feeding"
        /\ dend' = end
        /\ UNCHANGED flags
     \/ /\ ~flags.active
        /\ flags' = IF end THEN Endpoint(flags, "vad") ELSE flags
        /\ dpc' = NextFrame
        /\ UNCHANGED <<mvars, dend>>
  /\ UNCHANGED <<config, cut, opc, out, hpc, ttsOver, aborted>>

DispatchFed ==
  /\ dpc = "feeding"
  /\ Return("dispatcher")
  /\ flags' = IF dend THEN Endpoint(flags, "vad") ELSE flags
  /\ dpc' = NextFrame
  /\ dend' = FALSE
  /\ UNCHANGED <<config, cut, speech, opc, out, hpc, ttsOver, aborted>>

DispatchEos ==
  /\ Receiving
  /\ flags' = Endpoint(flags, "client_eos")
  /\ dpc' = NextFrame
  /\ UNCHANGED <<mvars, config, cut, speech, dend, opc, out, hpc, ttsOver, aborted>>

\* abort: a pending endpoint is left alone.
DispatchAbort ==
  /\ Receiving
  /\ flags.active
  /\ Invoke("dispatcher", "cancel")
  /\ dpc' = "aborting"
  /\ UNCHANGED <<config, cut, flags, speech, dend, opc, out, hpc, ttsOver, aborted>>

DispatchAborted ==
  /\ dpc = "aborting"
  /\ Return("dispatcher")
  /\ flags' = TurnOver(flags)
  /\ aborted' = TRUE
  /\ dpc' = NextFrame
  /\ UNCHANGED <<config, cut, speech, dend, opc, out, hpc, ttsOver>>

\* The client is gone: the work tasks are cancelled where they stand.
Disconnect ==
  /\ Receiving
  /\ flags' = [flags EXCEPT !.clientClosed = TRUE]
  /\ Abandon("out")
  /\ opc' = "end"
  /\ dpc' = "end"
  /\ ttsOver' = TRUE
  /\ UNCHANGED <<config, cut, speech, dend, out, hpc, aborted>>

\* send_json() or send_bytes() fails in one of the three tasks: client_closed is
\* set, nobody is cancelled.
SendFails ==
  /\ hpc = "run" /\ Settled
  /\ \/ ~ttsOver
     \/ opc \in {"gate", "fire"} /\ out.sending
     \/ dpc = "starting" /\ call["dispatcher"].pc = "wait"
  /\ ~flags.clientClosed
  /\ flags' = [flags EXCEPT !.clientClosed = TRUE]
  /\ UNCHANGED <<mvars, config, cut, speech, dpc, dend, opc, out, hpc, ttsOver, aborted>>

-----------------------------------------------------------------------------
(* asr_out_task *)

Ticking == opc = "top" /\ Settled /\ ~flags.clientClosed

\* Mutant: the loop does not look at client_closed.
LoopsOn ==
  /\ opc = "top" /\ Settled
  /\ flags.clientClosed
  /\ UNCHANGED vars

\* The loop's test of client_closed.
OutGone ==
  /\ opc = "top" /\ Settled
  /\ flags.clientClosed
  /\ opc' = "end"
  /\ UNCHANGED <<mvars, config, cut, flags, speech, dpc, dend, out, hpc, ttsOver, aborted>>

\* The turn's wall-clock deadline has passed (at any moment of an active turn).
OutDeadline ==
  /\ Ticking
  /\ flags.active /\ flags.turn
  /\ Invoke("out", "cancel")
  /\ opc' = "deadline"
  /\ UNCHANGED <<config, cut, flags, speech, dpc, dend, out, hpc, ttsOver, aborted>>

\* cancel() did not come back in two seconds: it is abandoned and the worker
\* restarted directly.
OutDeadlineStuck ==
  /\ opc = "deadline" /\ Settled
  /\ call["out"].pc = "wait" => ~Free
  /\ Abandon("out")
  /\ opc' = "restarting"
  /\ UNCHANGED <<config, cut, flags, speech, dpc, dend, out, hpc, ttsOver, aborted>>

\* Forget the turn, whichever it is now, and send the error.
OutDeadlineOver ==
  /\ \/ opc = "deadline" /\ Return("out")
     \/ opc = "restarting" /\ Settled /\ UNCHANGED mvars
  /\ flags' = NoEndpoint(TurnOver(flags))
  /\ opc' = IF config.multi /\ ~flags.sessClosed THEN "top" ELSE "end"
  /\ UNCHANGED <<config, cut, speech, dpc, dend, out, hpc, ttsOver, aborted>>

\* One tick: poll the active stream, or go straight to the endpoint test.
OutPoll ==
  /\ Ticking
  /\ out' = NoLocals
  /\ \/ flags.active /\ Invoke("out", "partial") /\ opc' = "polling"
     \/ ~flags.active /\ opc' = "gate" /\ UNCHANGED mvars
  /\ UNCHANGED <<config, cut, flags, speech, dpc, dend, hpc, ttsOver, aborted>>

OutPolled ==
  /\ opc = "polling"
  /\ Return("out")
  /\ opc' = "gate"
  /\ \E endpoint, partial \in BOOLEAN :
       /\ endpoint \/ partial => call["out"].res = "ok"
       /\ out' = [out EXCEPT !.endpoint = endpoint,
                 !.sending = /\ partial
                             /\ call["out"].gen = generation
                             /\ call["out"].gen = flags.activeGen]
  /\ UNCHANGED <<config, cut, flags, speech, dpc, dend, hpc, ttsOver, aborted>>

\* endpoint_pending belongs to an utterance that has been preempted.
StaleEndpoint == flags.pending # "none" /\ flags.pendingGen # flags.activeGen

\* The endpoint test.  When it fires, asr_endpoint is sent before finalize().
OutGate ==
  /\ opc = "gate" /\ ~Returned
  /\ LET reason == IF StaleEndpoint THEN "none" ELSE flags.pending
         fired == reason # "none" \/ (out.endpoint /\ flags.active)
     IN /\ flags' = IF fired \/ StaleEndpoint THEN NoEndpoint(flags) ELSE flags
        /\ out' = [out EXCEPT !.reason = reason, !.stamp = flags.pendingGen,
                           !.sending = reason # "client_eos"]
        /\ opc' = IF fired THEN "fire"
                  ELSE IF flags.sessClosed /\ ~flags.active THEN "end" ELSE "top"
  /\ UNCHANGED <<mvars, config, cut, speech, dpc, dend, hpc, ttsOver, aborted>>

\* After an asr_final: a session that is over ends the task.
AfterFinal(f) == IF ~config.multi \/ f.sessClosed THEN "end" ELSE "top"

OutFinalize ==
  /\ opc = "fire" /\ ~Returned
  /\ flags.active
  /\ Invoke("out", "finalize")
  /\ out' = [out EXCEPT !.gen = flags.activeGen]
  /\ opc' = "finalizing"
  /\ UNCHANGED <<config, cut, flags, speech, dpc, dend, hpc, ttsOver, aborted>>

\* An endpoint without an active utterance is answered with an empty final.
OutEmptyFinal ==
  /\ opc = "fire" /\ ~Returned
  /\ ~flags.active
  /\ opc' = AfterFinal(flags)
  /\ UNCHANGED <<mvars, config, cut, flags, speech, dpc, dend, out, hpc, ttsOver, aborted>>

\* The turn is over only if the utterance active now is the finalized one.
ClearFinalized(f) == IF f.activeGen = out.gen THEN TurnOver(f) ELSE f

\* Mutant: finalize_accepted is not looked at.
AcceptanceIgnored ==
  /\ opc = "finalizing"
  /\ Return("out")
  /\ flags' = TurnOver(flags)
  /\ opc' = AfterFinal(flags)
  /\ UNCHANGED <<config, cut, speech, dpc, dend, out, hpc, ttsOver, aborted>>

\* A discarded final is suppressed.
OutFinalized ==
  /\ opc = "finalizing"
  /\ Return("out")
  /\ \/ /\ call["out"].res = "accepted"
        /\ flags' = ClearFinalized(flags)
        /\ opc' = AfterFinal(flags)
     \/ /\ call["out"].res = "rejected"
        /\ opc' = "top"
        /\ UNCHANGED flags
  /\ UNCHANGED <<config, cut, speech, dpc, dend, out, hpc, ttsOver, aborted>>

-----------------------------------------------------------------------------
(* The handler *)

TtsEnds ==
  /\ hpc = "run" /\ Settled
  /\ ~ttsOver
  /\ ttsOver' = TRUE
  /\ UNCHANGED <<mvars, config, cut, flags, speech, dpc, dend, opc, out, hpc, aborted>>

\* tts_out_task raises (its backend is not ready): gather() raises at once.
TtsFails ==
  /\ hpc = "run" /\ Settled
  /\ ~ttsOver
  /\ ttsOver' = TRUE
  /\ hpc' = "failed"
  /\ UNCHANGED <<mvars, config, cut, flags, speech, dpc, dend, opc, out, aborted>>

\* gather() is over: the finally block cancels the dispatcher and waits for it...
Teardown ==
  /\ Settled
  /\ \/ hpc = "run" /\ opc = "end" /\ ttsOver
     \/ hpc = "failed"
  /\ Abandon("dispatcher")
  /\ dpc' = "end"
  /\ hpc' = "joining"
  /\ UNCHANGED <<config, cut, flags, speech, dend, opc, out, ttsOver, aborted>>

\* ... then the work task that is still there.
JoinWork ==
  /\ hpc = "joining"
  /\ Abandon("out")
  /\ opc' = "end"
  /\ hpc' = "joined"
  /\ UNCHANGED <<config, cut, flags, speech, dpc, dend, out, ttsOver, aborted>>

\* Mutant: the finally block cancels only a FINALIZING session.
CancelIfFinalizing == state = "finalizing"

\* The finally block cancels whatever utterance is still in flight.
CancelOnClose == TRUE

CancelSession ==
  /\ hpc = "joined"
  /\ IF CancelOnClose
     THEN Invoke("handler", "cancel") /\ hpc' = "closing"
     ELSE hpc' = "closed" /\ UNCHANGED mvars
  /\ UNCHANGED <<config, cut, flags, speech, dpc, dend, opc, out, ttsOver, aborted>>

Closed ==
  /\ hpc = "closing"
  /\ Return("handler")
  /\ hpc' = "closed"
  /\ UNCHANGED <<config, cut, flags, speech, dpc, dend, opc, out, ttsOver, aborted>>

\* A reload cancels the handler where it stands.  Inside gather() the work tasks
\* are cancelled with it (tts_out_task may swallow that); while the dispatcher is
\* joined, or an error is sent, nothing comes of it.  The second gather() and the
\* last cancel() are guarded by `except Exception' only: the rest is skipped.
HandlerCancelled ==
  /\ Settled
  /\ \/ /\ hpc = "run"
        /\ Abandon("out")
        /\ opc' = "end"
        /\ hpc' = IF opc = "end" THEN "run" ELSE "failed"
        /\ ttsOver' \in {ttsOver, TRUE}
        /\ cut' = cut
     \/ /\ hpc = "joined"
        /\ hpc' = "closed"
        /\ cut' = TRUE
        /\ UNCHANGED <<mvars, opc, ttsOver>>
     \/ /\ hpc = "closing"
        /\ Abandon("handler")
        /\ hpc' = "closed"
        /\ cut' = TRUE
        /\ UNCHANGED <<opc, ttsOver>>
  /\ UNCHANGED <<config, flags, speech, dpc, dend, out, aborted>>

-----------------------------------------------------------------------------
Manager(t) == Settled /\ Work(t) /\ UNCHANGED vvars

Dispatcher ==
  \/ DispatchStart \/ DispatchStarted \/ DispatchUnavailable
  \/ (\E end \in BOOLEAN : DispatchAudio(end)) \/ DispatchFed
  \/ DispatchEos \/ DispatchAbort \/ DispatchAborted \/ Disconnect \/ SendFails

OutTask ==
  \/ OutGone \/ OutDeadline \/ OutDeadlineStuck \/ OutDeadlineOver \/ OutPoll
  \/ OutPolled \/ OutGate \/ OutFinalize \/ OutEmptyFinal \/ OutFinalized

Closing == Teardown \/ JoinWork \/ CancelSession \/ Closed

Handler == TtsEnds \/ TtsFails \/ HandlerCancelled \/ Closing

Next == (\E t \in Tasks : Manager(t)) \/ Dispatcher \/ OutTask \/ Handler

Spec == Init /\ [][Next]_vars

\* A call of the backend that has no timeout is under way: a worker that hangs
\* never answers it.
Unanswered(t) == call[t].pc \in {"poll", "final", "feed", "create", "rebuild", "last"}

\* What the manager does without such a call.
Promptly(t) == ~Unanswered(t) /\ Manager(t)

\* Fairness: the event loop's ready queue and the lock are first come first
\* served, so a coroutine that can run again and again is not passed over for
\* ever; a worker's cancel() has a timeout, a worker's restart and sends end; the
\* clock of a turn runs out, and is looked at on every tick; the TTS task sees
\* client_closed.  No other call of the backend is assumed to be answered, and no
\* frame to come from the client.
FairSpec ==
  /\ Spec
  /\ \A t \in Tasks : SF_vars(Promptly(t))
  /\ SF_vars(OutTask)
  /\ SF_vars(OutDeadline)
  /\ SF_vars(Closing)
  /\ SF_vars(flags.clientClosed /\ TtsEnds)
  /\ WF_vars(DispatchStarted \/ DispatchUnavailable \/ DispatchFed \/ DispatchAborted)

-----------------------------------------------------------------------------
(* Properties *)

\* Type invariant.
TypeOK ==
  /\ MTypeOK
  /\ config \in Configs
  /\ flags \in Flags
  /\ speech \in BOOLEAN /\ dend \in BOOLEAN /\ ttsOver \in BOOLEAN /\ aborted \in BOOLEAN
  /\ cut \in BOOLEAN
  /\ dpc \in {"recv", "starting", "feeding", "aborting", "end"}
  /\ opc \in {"top", "deadline", "restarting", "polling", "gate", "fire",
             "finalizing", "end"}
  /\ out \in OutLocals
  /\ hpc \in {"run", "failed", "joining", "joined", "closing", "closed"}

\* finalize() of one utterance never ends a newer one: asr_active is cleared by
\* a final only for the generation the final was read from.
FinalKeepsNewUtterance ==
  [][(opc = "finalizing" /\ opc' # opc /\ flags.active /\ ~flags'.active) =>
        call["out"].gen = flags.activeGen]_vars

\* However a connection ends, be it by a disconnect, a failed send, an error of
\* the TTS task or a reload that cancels the handler while it waits for its tasks,
\* the manager it leaves is at rest: unless the reload's cancellation meets the
\* handler in its clean-up, behind the join of the dispatcher.
ClosedIsIdle == hpc = "closed" /\ ~cut => state = "idle" /\ stream = NoStream

\* The same without the exception, which is what the comment at the last cancel()
\* expects: it does not hold.
ClosedIsAlwaysIdle == hpc = "closed" => state = "idle" /\ stream = NoStream

\* An endpoint fires finalize() only against the utterance it was stamped for.
EndpointFinalizesItsOwn ==
  [][(opc = "finalizing" /\ out.reason # "none" /\ call["out"].res = "accepted") =>
        call["out"].gen = out.stamp]_vars

\* After an abort, until new speech starts, the manager of a running connection
\* is IDLE whenever nobody is inside it.
AbortResetsToIdle ==
  (/\ aborted
   /\ hpc = "run"
   /\ ~flags.clientClosed
   /\ \A t \in Tasks : call[t].pc = "idle") => state = "idle"

\* A closed connection leaves no stream behind that was neither cancelled nor
\* closed.
NothingLeftOpen == hpc = "closed" => \A s \in 1 .. made : genOf[s] # 0

\* asr_out_task waits for an answer of the backend, or for the lock of a task
\* that does: what the deadline of a turn, which it polls itself, cannot end.
Blocked == \E t \in Tasks : Unanswered(t) /\ (t = "out" \/ lock = t)

\* A turn ends, with a final or with the deadline's error, or a newer one has
\* taken its place, unless a call of the backend that blocks asr_out_task is never
\* answered: cancel() may hang, its stream may not close and transcripts may stay
\* empty, and still no client waits for ever on an utterance.
TurnEnds ==
  []<>~Blocked =>
    \A g \in 1 .. MaxGen :
       (flags.active /\ flags.activeGen = g)
          ~> (~flags.active \/ flags.activeGen # g \/ hpc # "run" \/ flags.clientClosed)

\* After the client has gone the connection is torn down, with the same exception:
\* a failed send cancels nobody, and asr_out_task is not waiting for the client.
DisconnectCloses == []<>~Blocked => (flags.clientClosed ~> hpc = "closed")
=============================================================================
