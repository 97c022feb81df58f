-------------------------- MODULE AsrSessionManager --------------------------
(***************************************************************************)
(* app/core/asr_session_manager.py: one ASRSessionManager, owned by one    *)
(* /v2v/stream connection, with one fresh ASRStream per utterance.         *)
(*                                                                         *)
(* The callers are coroutines of one event loop.  `_lock' is an            *)
(* asyncio.Lock; the calls into the backend run on an executor, some while *)
(* the lock is held (create_stream, cancel, restart_worker), some not      *)
(* (accept_waveform, get_partial, finalize).  A step of the model is the   *)
(* code between two awaits of one coroutine; what an executor call returns *)
(* is a choice.  A call is invoked, waits for the lock, works, and stays   *)
(* "done" until its caller takes the result.                               *)
(***************************************************************************)
EXTENDS Naturals

CONSTANTS
  Tasks,       \* the coroutines that call the manager
  MayCall,     \* the operations each of them calls
  Retries,     \* length of _REBUILD_BACKOFF_S
  MaxGen,      \* bound: on_speech_start calls
  MaxStreams   \* bound: streams ever created

Ops == {"start", "audio", "partial", "finalize", "cancel"}

ASSUME TasksAssumption == MayCall \in [Tasks -> SUBSET Ops] /\ "none" \notin Tasks
ASSUME OneFinalizer ==   \* only asr_out_task finalizes
  \A t, u \in Tasks : "finalize" \in MayCall[t] /\ "finalize" \in MayCall[u] => t = u
ASSUME BoundsAssumption == Retries \in Nat /\ MaxGen \in Nat /\ MaxStreams \in Nat

VARIABLES
  lock,        \* the holder of _lock
  state,       \* _state
  stream,      \* _stream
  generation,  \* _generation
  call,        \* the locals of each task's call
  made,        \* streams created so far: 1 .. made
  genOf,       \* history: the generation a stream was adopted for, 0: never adopted
  closed       \* history: streams that close() was called on

mvars == <<lock, state, stream, generation, call, made, genOf, closed>>

NoTask == "none"
NoStream == 0
StreamIds == 1 .. MaxStreams
SessionStates == {"idle", "active", "finalizing", "cancelling", "error_rebuild"}
Pcs == {"idle", "wait", "cancel", "cancelRestart", "create", "rebuild", "last",
        "feed", "poll", "final", "commit", "error", "done"}
Results == {"none", "ok", "dropped", "unavailable", "accepted", "rejected"}
Call == [op : Ops, pc : Pcs, gen : 0 .. MaxGen, s : StreamIds \cup {NoStream},
         n : 0 .. Retries, res : Results]
NoCall == [op |-> "audio", pc |-> "idle", gen |-> 0, s |-> NoStream, n |-> 0,
           res |-> "none"]

MInit ==
  /\ lock = NoTask
  /\ state = "idle"
  /\ stream = NoStream
  /\ generation = 0
  /\ call = [t \in Tasks |-> NoCall]
  /\ made = 0
  /\ genOf = [s \in StreamIds |-> 0]
  /\ closed = {}

At(t, op, pc) == call[t].op = op /\ call[t].pc = pc
Free == lock = NoTask

\* The caller's `await manager.op()': the task now waits for the lock.
Invoke(t, op) ==
  /\ call[t].pc = "idle"
  /\ op \in MayCall[t]
  /\ op = "start" => generation < MaxGen
  /\ call' = [call EXCEPT ![t] = [NoCall EXCEPT !.op = op, !.pc = "wait"]]
  /\ UNCHANGED <<lock, state, stream, generation, made, genOf, closed>>

\* The caller takes the result.
Return(t) ==
  /\ call[t].pc = "done"
  /\ call' = [call EXCEPT ![t] = NoCall]
  /\ UNCHANGED <<lock, state, stream, generation, made, genOf, closed>>

\* Leave the method: the lock is free and the result is there to be taken.
Leave(t, res) ==
  /\ lock' = NoTask
  /\ call' = [call EXCEPT ![t].pc = "done", ![t].res = res]

\* _safe_close_stream
Close(s) == closed' = closed \cup ({s} \ {NoStream})

\* What _stream is after the stream was closed.
AfterClose == NoStream

\* The manager adopts a stream create_stream() has returned, and is ACTIVE.
NewStream(s) ==
  /\ made < MaxStreams
  /\ s = made + 1
  /\ made' = s
  /\ stream' = s
  /\ genOf' = [genOf EXCEPT ![s] = generation]
  /\ state' = "active"

-----------------------------------------------------------------------------
(* _inner_cancel, under the lock. *)

\* The stream is taken out of the manager and its cancel() submitted.
BeginCancel(t) ==
  /\ lock' = t
  /\ state' = "cancelling"
  /\ stream' = NoStream
  /\ call' = [call EXCEPT ![t].pc = "cancel", ![t].s = stream]
  /\ UNCHANGED <<generation, made, genOf, closed>>

\* Mutant: the stream is dropped without close().
CloseForgotten(t) == UNCHANGED closed

CloseCancelled(t) == Close(call[t].s)

\* The tail of _inner_cancel: close the stream, IDLE; on_speech_start goes on to
\* a new generation, cancel() returns.
EndCancel(t) ==
  /\ CloseCancelled(t)
  /\ state' = "idle"
  /\ IF call[t].op = "start"
     THEN /\ generation' = generation + 1
          /\ call' = [call EXCEPT ![t].pc = "create", ![t].s = NoStream,
                                  ![t].gen = generation + 1]
          /\ UNCHANGED lock
     ELSE Leave(t, "ok") /\ UNCHANGED generation
  /\ UNCHANGED <<stream, made, genOf>>

\* cancel() was acknowledged in time, or raised something that is swallowed.
CancelAck(t) == call[t].pc = "cancel" /\ EndCancel(t)

\* No acknowledgement within _CANCEL_ACK_TIMEOUT_S, or a worker error.
CancelStuck(t) ==
  /\ call[t].pc = "cancel"
  /\ call' = [call EXCEPT ![t].pc = "cancelRestart"]
  /\ UNCHANGED <<lock, state, stream, generation, made, genOf, closed>>

\* restart_worker() returned (or raised, which is logged).
CancelRestarted(t) == call[t].pc = "cancelRestart" /\ EndCancel(t)

-----------------------------------------------------------------------------
(* _handle_error_locked and _do_rebuild_locked.  The lock is held from the  *)
(* first to the last line, so _recovery_in_progress is False whenever it is *)
(* tested.                                                                 *)
HandleError(t) ==
  /\ lock' = t
  /\ Close(stream)
  /\ stream' = AfterClose
  /\ state' = "error_rebuild"
  /\ call' = [call EXCEPT ![t].pc = "rebuild", ![t].s = NoStream, ![t].n = Retries]
  /\ UNCHANGED <<generation, made, genOf>>

\* What the interrupted operation answers once a stream is there again.
RecoveredResult == [op \in Ops |-> CASE op = "start" -> "ok"
                                     [] op = "finalize" -> "rejected"
                                     [] OTHER -> "dropped"]

\* A create_stream of the ladder succeeds.
RebuildOk(t, s) ==
  /\ \/ call[t].pc = "rebuild" /\ call[t].n > 0
     \/ call[t].pc = "last"
  /\ NewStream(s)
  /\ Leave(t, RecoveredResult[call[t].op])
  /\ UNCHANGED <<generation, closed>>

\* Another attempt fails.
RebuildFail(t) ==
  /\ call[t].pc = "rebuild"
  /\ call[t].n > 0
  /\ call' = [call EXCEPT ![t].n = @ - 1]
  /\ UNCHANGED <<lock, state, stream, generation, made, genOf, closed>>

\* Mutant: the ladder starts again.
RebuildAgain(t) ==
  /\ call[t].pc = "rebuild"
  /\ call[t].n = 0
  /\ call' = [call EXCEPT ![t].n = Retries]
  /\ UNCHANGED <<lock, state, stream, generation, made, genOf, closed>>

\* restart_worker() after the last attempt (it may raise, which is logged).
RebuildRestart(t) ==
  /\ call[t].pc = "rebuild"
  /\ call[t].n = 0
  /\ call' = [call EXCEPT ![t].pc = "last"]
  /\ UNCHANGED <<lock, state, stream, generation, made, genOf, closed>>

GivenUp == "idle"

\* The attempt after the restart fails too: give up to IDLE.
\* on_speech_start turns this into ASRSessionUnavailable.
RebuildGiveUp(t) ==
  /\ call[t].pc = "last"
  /\ Close(stream)
  /\ stream' = AfterClose
  /\ state' = GivenUp
  /\ Leave(t, IF call[t].op = "start" THEN "unavailable"
              ELSE RecoveredResult[call[t].op])
  /\ UNCHANGED <<generation, made, genOf>>

-----------------------------------------------------------------------------
(* on_speech_start *)

EnterStart(t) ==
  /\ At(t, "start", "wait")
  /\ Free
  /\ generation < MaxGen
  /\ \/ state \in {"active", "finalizing"} /\ BeginCancel(t)
     \/ /\ state \notin {"active", "finalizing"}
        /\ lock' = t
        /\ generation' = generation + 1
        /\ call' = [call EXCEPT ![t].pc = "create", ![t].gen = generation + 1]
        /\ UNCHANGED <<state, stream, made, genOf, closed>>

CreateOk(t, s) ==
  /\ call[t].pc = "create"
  /\ NewStream(s)
  /\ Leave(t, "ok")
  /\ UNCHANGED <<generation, closed>>

CreateFail(t) == call[t].pc = "create" /\ HandleError(t)

(* accept_audio.  (ACTIVE without a stream, for which the code recreates one, *)
(* does not occur: ActiveHasStream.)                                        *)
EnterAudio(t) ==
  /\ At(t, "audio", "wait")
  /\ Free
  /\ call' = IF state = "active"
             THEN [call EXCEPT ![t].pc = "feed", ![t].s = stream, ![t].gen = generation]
             ELSE [call EXCEPT ![t].pc = "done", ![t].res = "dropped"]
  /\ UNCHANGED <<lock, state, stream, generation, made, genOf, closed>>

FeedOk(t) ==
  /\ call[t].pc = "feed"
  /\ call' = [call EXCEPT ![t].pc = "done", ![t].res = "ok"]
  /\ UNCHANGED <<lock, state, stream, generation, made, genOf, closed>>

\* accept_waveform() or finalize() raised: the handler asks for the lock again.
Raise(t) ==
  /\ call[t].pc \in {"feed", "final"}
  /\ call' = [call EXCEPT ![t].pc = "error"]
  /\ UNCHANGED <<lock, state, stream, generation, made, genOf, closed>>

EnterError(t) == call[t].pc = "error" /\ Free /\ HandleError(t)

(* get_partial_for_generation *)
EnterPartial(t) ==
  /\ At(t, "partial", "wait")
  /\ Free
  /\ call' = [call EXCEPT ![t].pc = IF state = "active" THEN "poll" ELSE "done",
                          ![t].s = IF state = "active" THEN stream ELSE NoStream,
                          ![t].gen = generation, ![t].res = "dropped"]
  /\ UNCHANGED <<lock, state, stream, generation, made, genOf, closed>>

\* get_partial() returned; an exception counts as an empty partial.
PollDone(t) ==
  /\ call[t].pc = "poll"
  /\ \E res \in {"ok", "dropped"} :
       call' = [call EXCEPT ![t].pc = "done", ![t].res = res]
  /\ UNCHANGED <<lock, state, stream, generation, made, genOf, closed>>

(* finalize_with_status *)
EnterFinalize(t) ==
  /\ At(t, "finalize", "wait")
  /\ Free
  /\ \/ /\ state = "active"
        /\ state' = "finalizing"
        /\ call' = [call EXCEPT ![t].pc = "final", ![t].s = stream,
                                ![t].gen = generation]
     \/ /\ state # "active"
        /\ call' = [call EXCEPT ![t].pc = "done", ![t].res = "rejected",
                                ![t].gen = generation]
        /\ UNCHANGED state
  /\ UNCHANGED <<lock, stream, generation, made, genOf, closed>>

FinalOk(t) ==
  /\ call[t].pc = "final"
  /\ call' = [call EXCEPT ![t].pc = "commit"]
  /\ UNCHANGED <<lock, state, stream, generation, made, genOf, closed>>

\* The two checks behind "finalize result discarded".
StillWanted(t) == state = "finalizing" /\ generation = call[t].gen

Commit(t) ==
  /\ call[t].pc = "commit"
  /\ Free
  /\ \/ /\ StillWanted(t)
        /\ Close(stream)
        /\ stream' = AfterClose
        /\ state' = "idle"
        /\ call' = [call EXCEPT ![t].pc = "done", ![t].res = "accepted"]
     \/ /\ ~StillWanted(t)
        /\ call' = [call EXCEPT ![t].pc = "done", ![t].res = "rejected"]
        /\ UNCHANGED <<closed, stream, state>>
  /\ UNCHANGED <<lock, generation, made, genOf>>

(* cancel.  CANCELLING or ERROR_REBUILD without a stream is what a cancelled *)
(* coroutine leaves behind.                                                 *)
EnterCancel(t) ==
  /\ At(t, "cancel", "wait")
  /\ Free
  /\ \/ state # "idle" /\ stream # NoStream /\ BeginCancel(t)
     \/ /\ state = "idle" \/ stream = NoStream
        /\ state' = "idle"
        /\ call' = [call EXCEPT ![t].pc = "done", ![t].res = "ok"]
        /\ UNCHANGED <<lock, stream, generation, made, genOf, closed>>

(* asyncio cancellation of a caller (Task.cancel(), wait_for()): no handler of *)
(* the manager catches CancelledError, so the lock is released and nothing     *)
(* else happens.  A create_stream already running still makes its stream,     *)
(* which nobody adopts.                                                       *)
Abandon(t) ==
  /\ call' = [call EXCEPT ![t] = NoCall]
  /\ lock' = IF lock = t THEN NoTask ELSE lock
  /\ \/ UNCHANGED made
     \/ /\ call[t].pc \in {"create", "rebuild", "last"}
        /\ made < MaxStreams
        /\ made' = made + 1
  /\ UNCHANGED <<state, stream, generation, genOf, closed>>

-----------------------------------------------------------------------------
\* What a task does inside the manager.
Work(t) ==
  \/ CancelAck(t) \/ CancelStuck(t) \/ CancelRestarted(t)
  \/ \E s \in StreamIds : RebuildOk(t, s) \/ CreateOk(t, s)
  \/ RebuildFail(t) \/ RebuildRestart(t) \/ RebuildGiveUp(t)
  \/ EnterStart(t) \/ CreateFail(t)
  \/ EnterAudio(t) \/ FeedOk(t) \/ Raise(t) \/ EnterError(t)
  \/ EnterPartial(t) \/ PollDone(t)
  \/ EnterFinalize(t) \/ FinalOk(t) \/ Commit(t)
  \/ EnterCancel(t)

MNext == \E t \in Tasks : Work(t) \/ Return(t) \/ \E op \in Ops : Invoke(t, op)

MSpec == MInit /\ [][MNext]_mvars

\* Fairness: executor calls end (the worker layer has its own timeouts) and
\* _lock is first come first served, so no waiter is overtaken for ever.
MFairSpec == MSpec /\ \A t \in Tasks : SF_mvars(Work(t))

-----------------------------------------------------------------------------
(* Properties *)

\* Type invariant.
MTypeOK ==
  /\ lock \in Tasks \cup {NoTask}
  /\ state \in SessionStates
  /\ stream \in StreamIds \cup {NoStream}
  /\ generation \in 0 .. MaxGen
  /\ call \in [Tasks -> Call]
  /\ made \in 0 .. MaxStreams
  /\ genOf \in [StreamIds -> 0 .. MaxGen]
  /\ closed \subseteq StreamIds

\* ACTIVE and FINALIZING have a stream, it is open, and it was created for the
\* current generation: accept_audio never feeds a closed or an older stream of
\* the manager.  Conversely a manager between utterances holds no stream.
ActiveHasStream ==
  /\ state \in {"active", "finalizing"} <=> stream # NoStream
  /\ stream # NoStream => stream \notin closed /\ genOf[stream] = generation

\* No stream is forgotten: one that was created and not closed is the
\* manager's, or is being cancelled by the call that took it.
NoStreamForgotten ==
  \A s \in 1 .. made :
     \/ s \in closed
     \/ s = stream
     \/ \E t \in Tasks : call[t].pc \in {"cancel", "cancelRestart"} /\ call[t].s = s

\* While nobody is inside a critical section the manager is in one of the three
\* states the callers are written for: CANCELLING and ERROR_REBUILD are never
\* seen by anyone but the holder of the lock.
SettledWhenFree == Free => state \in {"idle", "active", "finalizing"}

\* The three together: between any two steps of its callers, and after every
\* failure, timeout and rebuild, the manager's state tells what streams there are.
StreamsAccounted == ActiveHasStream /\ NoStreamForgotten /\ SettledWhenFree

\* A final that is accepted was read from the manager's own stream, created for
\* the generation it is reported under, although the backend was called without
\* the lock: no cancel, preemption or rebuild in between goes unnoticed.
AcceptedIsCurrent ==
  [][\A t \in Tasks :
       (call[t].pc = "commit" /\ call'[t].res = "accepted") =>
          /\ call[t].s = stream
          /\ genOf[call[t].s] = call[t].gen
          /\ call[t].gen = generation]_mvars

\* A call that has asked for the lock comes back.
CallsReturn ==
  \A t \in Tasks : (call[t].pc # "idle") ~> (call[t].pc \in {"idle", "done"})
=============================================================================
