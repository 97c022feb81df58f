---------------------- MODULE AsrSessionManager_proofs ----------------------
(***************************************************************************)
(* TLAPS proofs about AsrSessionManager: the type invariant, the state and *)
(* stream of the manager, that no stream is forgotten and that an accepted *)
(* final is the current one, for any tasks, retries and bounds; and about  *)
(* V2VAsr, where one connection uses the manager and its tasks may be      *)
(* cancelled.  Nothing of the first part uses V2VAsr.                      *)
(***************************************************************************)
EXTENDS V2VAsr, TLAPS

Cancelling == {"cancel", "cancelRestart"}
Rebuilding == {"rebuild", "last"}
Finalizing == {"final", "commit"}
Holding == Cancelling \cup Rebuilding \cup {"create"}

\* A task is in a critical section that awaits iff it holds the lock.
LockInv == \A t \in Tasks : call[t].pc \in Holding <=> lock = t

\* What a critical section has made of the manager while it awaits.
SectionInv ==
  \A t \in Tasks :
    /\ call[t].pc \in Cancelling => state = "cancelling"
    /\ call[t].pc \in Rebuilding => state = "error_rebuild"
    /\ call[t].pc = "create" => state = "idle"
    /\ (call[t].pc \in Cancelling /\ call[t].op = "start") => generation < MaxGen

\* Only streams that were created are referred to.
MadeInv ==
  /\ stream <= made
  /\ closed \subseteq 1 .. made
  /\ \A t \in Tasks : call[t].s <= made

\* The one finalizer's stream is the manager's as long as its generation is
\* the current one and nobody has left FINALIZING.
FinalInv ==
  \A t \in Tasks :
    /\ call[t].op = "finalize" => "finalize" \in MayCall[t]
    /\ call[t].pc \in Finalizing => call[t].op = "finalize"
    /\ call[t].pc \in Finalizing \cup {"wait"} => call[t].res = "none"
    /\ (call[t].pc \in Finalizing /\ state = "finalizing" /\ call[t].gen = generation)
         => call[t].s = stream

MInv ==
  /\ MTypeOK
  /\ LockInv
  /\ SectionInv
  /\ SettledWhenFree
  /\ ActiveHasStream
  /\ MadeInv
  /\ NoStreamForgotten
  /\ FinalInv

-----------------------------------------------------------------------------
(* A step that changes one call's locals only *)

\* What the new locals c of task t must keep, for the shared state to need no
\* change: whether t is in a critical section and which, the stream it is
\* cancelling, and the stream and generation it is finalizing.
Keeps(t, c) ==
  /\ c \in Call
  /\ c.pc \in Cancelling <=> call[t].pc \in Cancelling
  /\ c.pc \in Cancelling => c.s = call[t].s /\ c.op = call[t].op
  /\ c.pc \in Rebuilding <=> call[t].pc \in Rebuilding
  /\ c.pc = "create" <=> call[t].pc = "create"
  /\ c.s <= made
  /\ c.op = "finalize" => "finalize" \in MayCall[t]
  /\ c.pc \in Finalizing => /\ call[t].pc \in Finalizing
                            /\ c.s = call[t].s
                            /\ c.gen = call[t].gen
                            /\ c.op = "finalize"
  /\ c.pc \in Finalizing \cup {"wait"} => c.res = "none"

Others == <<lock, state, stream, generation, made, genOf, closed>>

\* Such a step preserves the invariant.
LEMMA LocalStep ==
  ASSUME MInv, NEW t \in Tasks, NEW c, Keeps(t, c),
         call' = [call EXCEPT ![t] = c], UNCHANGED Others
  PROVE  MInv'
<1>1. /\ call'[t] = c
      /\ \A u \in Tasks \ {t} : call'[u] = call[u]
      /\ call' \in [Tasks -> Call]
  BY DEF MInv, MTypeOK, Keeps
<1>2. MTypeOK'
  BY <1>1 DEF MInv, MTypeOK, Others
<1>3. LockInv'
  BY <1>1 DEF MInv, LockInv, Keeps, Others, Holding
<1>4. SectionInv'
  BY <1>1 DEF MInv, SectionInv, Keeps, Others
<1>5. SettledWhenFree'
  BY DEF MInv, SettledWhenFree, Others, Free
<1>6. ActiveHasStream'
  BY DEF MInv, ActiveHasStream, Others
<1>7. MadeInv'
  BY <1>1 DEF MInv, MadeInv, Keeps, Others
<1>8. NoStreamForgotten'
  <2>1. SUFFICES ASSUME NEW s \in 1 .. made, s \notin closed, s # stream
                 PROVE  \E u \in Tasks : call'[u].pc \in Cancelling /\ call'[u].s = s
    BY DEF NoStreamForgotten, Others, Cancelling
  <2>2. PICK u \in Tasks : call[u].pc \in Cancelling /\ call[u].s = s
    BY <2>1 DEF MInv, NoStreamForgotten, Cancelling
  <2>3. call'[u].pc \in Cancelling /\ call'[u].s = s
    BY <1>1, <2>2 DEF Keeps
  <2> QED BY <2>3
<1>9. FinalInv'
  BY <1>1 DEF MInv, FinalInv, Keeps, Others
<1> QED BY <1>2, <1>3, <1>4, <1>5, <1>6, <1>7, <1>8, <1>9 DEF MInv

\* The actions that touch nothing but the locals of the task.
Local(t) ==
  \/ CancelStuck(t) \/ RebuildFail(t) \/ RebuildRestart(t)
  \/ EnterAudio(t) \/ FeedOk(t) \/ Raise(t) \/ EnterPartial(t) \/ PollDone(t)
  \/ FinalOk(t) \/ Return(t) \/ \E op \in Ops : Invoke(t, op)

\* Each of them preserves the invariant.
LEMMA LocalActions ==
  ASSUME MInv, NEW t \in Tasks, Local(t)
  PROVE  MInv'
<1>0. /\ call[t] \in Call
      /\ call[t].s <= made /\ made \in Nat /\ made <= MaxStreams
      /\ generation \in 0 .. MaxGen
      /\ stream \in StreamIds \cup {NoStream} /\ stream <= made
      /\ call[t].op = "finalize" => "finalize" \in MayCall[t]
      /\ call[t].pc \in Finalizing => call[t].op = "finalize"
      /\ call[t].pc \in Finalizing \cup {"wait"} => call[t].res = "none"
  BY BoundsAssumption DEF MInv, MTypeOK, MadeInv, FinalInv
<1>1. CASE CancelStuck(t)
  <2> DEFINE c == [call[t] EXCEPT !.pc = "cancelRestart"]
  <2>1. call' = [call EXCEPT ![t] = c] /\ UNCHANGED Others
    BY <1>1 DEF CancelStuck, Others
  <2>2. Keeps(t, c)
    BY <1>0, <1>1, BoundsAssumption
    DEF CancelStuck, Keeps, Call, Pcs, Results, Ops, NoCall, NoStream, StreamIds,
        Cancelling, Rebuilding, Finalizing
  <2> QED BY <2>1, <2>2, LocalStep
<1>2. CASE RebuildFail(t)
  <2> DEFINE c == [call[t] EXCEPT !.n = @ - 1]
  <2>1. call' = [call EXCEPT ![t] = c] /\ UNCHANGED Others
    BY <1>2 DEF RebuildFail, Others
  <2>2. Keeps(t, c)
    BY <1>0, <1>2, BoundsAssumption
    DEF RebuildFail, Keeps, Call, Pcs, Results, Ops, NoCall, NoStream, StreamIds,
        Cancelling, Rebuilding, Finalizing
  <2> QED BY <2>1, <2>2, LocalStep
<1>3. CASE RebuildRestart(t)
  <2> DEFINE c == [call[t] EXCEPT !.pc = "last"]
  <2>1. call' = [call EXCEPT ![t] = c] /\ UNCHANGED Others
    BY <1>3 DEF RebuildRestart, Others
  <2>2. Keeps(t, c)
    BY <1>0, <1>3, BoundsAssumption
    DEF RebuildRestart, Keeps, Call, Pcs, Results, Ops, NoCall, NoStream, StreamIds,
        Cancelling, Rebuilding, Finalizing
  <2> QED BY <2>1, <2>2, LocalStep
<1>4. CASE EnterAudio(t)
  <2> DEFINE c == IF state = "active"
                   THEN [call[t] EXCEPT !.pc = "feed", !.s = stream, !.gen = generation]
                   ELSE [call[t] EXCEPT !.pc = "done", !.res = "dropped"]
  <2>1. call' = [call EXCEPT ![t] = c] /\ UNCHANGED Others
    BY <1>4 DEF EnterAudio, Others
  <2>2. Keeps(t, c)
    BY <1>0, <1>4, BoundsAssumption
    DEF EnterAudio, At, Keeps, Call, Pcs, Results, Ops, NoCall, NoStream, StreamIds,
        Cancelling, Rebuilding, Finalizing
  <2> QED BY <2>1, <2>2, LocalStep
<1>5. CASE FeedOk(t)
  <2> DEFINE c == [call[t] EXCEPT !.pc = "done", !.res = "ok"]
  <2>1. call' = [call EXCEPT ![t] = c] /\ UNCHANGED Others
    BY <1>5 DEF FeedOk, Others
  <2>2. Keeps(t, c)
    BY <1>0, <1>5, BoundsAssumption
    DEF FeedOk, Keeps, Call, Pcs, Results, Ops, NoCall, NoStream, StreamIds,
        Cancelling, Rebuilding, Finalizing
  <2> QED BY <2>1, <2>2, LocalStep
<1>6. CASE Raise(t)
  <2> DEFINE c == [call[t] EXCEPT !.pc = "error"]
  <2>1. call' = [call EXCEPT ![t] = c] /\ UNCHANGED Others
    BY <1>6 DEF Raise, Others
  <2>2. Keeps(t, c)
    BY <1>0, <1>6, BoundsAssumption
    DEF Raise, Keeps, Call, Pcs, Results, Ops, NoCall, NoStream, StreamIds,
        Cancelling, Rebuilding, Finalizing
  <2> QED BY <2>1, <2>2, LocalStep
<1>7. CASE EnterPartial(t)
  <2> DEFINE c == [call[t] EXCEPT !.pc = IF state = "active" THEN "poll" ELSE "done",
                                   !.s = IF state = "active" THEN stream ELSE NoStream,
                                   !.gen = generation, !.res = "dropped"]
  <2>1. call' = [call EXCEPT ![t] = c] /\ UNCHANGED Others
    BY <1>7 DEF EnterPartial, Others
  <2>2. /\ c.pc \in {"poll", "done"} /\ c.op = "partial" /\ c.s <= made
        /\ c.gen = generation /\ c.n = call[t].n /\ c.res = "dropped"
        /\ c.s \in StreamIds \cup {NoStream}
        /\ call[t].pc = "wait"
    BY <1>0, <1>7 DEF EnterPartial, At, Call, NoStream
  <2>3. c \in Call
    BY <1>0, <2>2 DEF Call, Pcs, Results, Ops
  <2>4. Keeps(t, c)
    BY <2>2, <2>3 DEF Keeps, Cancelling, Rebuilding, Finalizing
  <2> QED BY <2>1, <2>4, LocalStep
<1>8. CASE FinalOk(t)
  <2> DEFINE c == [call[t] EXCEPT !.pc = "commit"]
  <2>1. call' = [call EXCEPT ![t] = c] /\ UNCHANGED Others
    BY <1>8 DEF FinalOk, Others
  <2>2. Keeps(t, c)
    BY <1>0, <1>8, BoundsAssumption
    DEF FinalOk, Keeps, Call, Pcs, Results, Ops, NoCall, NoStream, StreamIds,
        Cancelling, Rebuilding, Finalizing
  <2> QED BY <2>1, <2>2, LocalStep
<1>9. CASE Return(t)
  <2> DEFINE c == NoCall
  <2>1. call' = [call EXCEPT ![t] = c] /\ UNCHANGED Others
    BY <1>9 DEF Return, Others
  <2>2. Keeps(t, c)
    BY <1>0, <1>9, BoundsAssumption
    DEF Return, Keeps, Call, Pcs, Results, Ops, NoCall, NoStream, StreamIds,
        Cancelling, Rebuilding, Finalizing
  <2> QED BY <2>1, <2>2, LocalStep
<1>10. CASE PollDone(t)
  <2>1. PICK r \in {"ok", "dropped"} :
            call' = [call EXCEPT ![t] = [call[t] EXCEPT !.pc = "done", !.res = r]]
    BY <1>10 DEF PollDone
  <2> DEFINE c == [call[t] EXCEPT !.pc = "done", !.res = r]
  <2>2. call' = [call EXCEPT ![t] = c] /\ UNCHANGED Others
    BY <1>10, <2>1 DEF PollDone, Others
  <2>3. Keeps(t, c)
    BY <1>0, <1>10
    DEF PollDone, Keeps, Call, Pcs, Results, Ops, Cancelling, Rebuilding, Finalizing
  <2> QED BY <2>2, <2>3, LocalStep
<1>11. ASSUME NEW o \in Ops, Invoke(t, o)
      PROVE  MInv'
  <2> DEFINE c == [NoCall EXCEPT !.op = o, !.pc = "wait"]
  <2>1. call' = [call EXCEPT ![t] = c] /\ UNCHANGED Others
    BY <1>11 DEF Invoke, Others
  <2>2. NoCall \in Call
    BY BoundsAssumption DEF NoCall, Call, Pcs, Results, Ops, NoStream
  <2>3. /\ c \in Call
        /\ c.op = o /\ c.pc = "wait" /\ c.s = NoStream /\ c.res = "none"
    BY <2>2 DEF NoCall, Call, Pcs
  <2>4. Keeps(t, c)
    BY <1>0, <1>11, <2>2, <2>3
    DEF Invoke, Keeps, NoStream, Cancelling, Rebuilding, Finalizing
  <2> QED BY <2>1, <2>4, LocalStep
<1> QED BY <1>1, <1>2, <1>3, <1>4, <1>5, <1>6, <1>7, <1>8, <1>9, <1>10, <1>11 DEF Local

-----------------------------------------------------------------------------
(* The actions on shared state *)

\* While t holds the lock, or nobody does, no other task is in a critical section.
LEMMA Alone ==
  ASSUME MInv, NEW t \in Tasks, lock \in {t, NoTask}
  PROVE  \A u \in Tasks \ {t} : call[u].pc \notin Holding
BY TasksAssumption DEF MInv, LockInv, NoTask

\* The types of what an action reads.
LEMMA Types ==
  ASSUME MInv, NEW t \in Tasks
  PROVE  /\ call \in [Tasks -> Call] /\ call[t] \in Call
         /\ made \in Nat /\ made <= MaxStreams /\ MaxStreams \in Nat
         /\ generation \in 0 .. MaxGen /\ MaxGen \in Nat
         /\ stream \in StreamIds \cup {NoStream}
         /\ closed \subseteq StreamIds
         /\ genOf \in [StreamIds -> 0 .. MaxGen]
         /\ t # NoTask
BY BoundsAssumption, TasksAssumption DEF MInv, MTypeOK, NoTask

\* _inner_cancel takes the stream out of the manager.
LEMMA BeginCancelStep ==
  ASSUME MInv, NEW t \in Tasks, Free, call[t].pc = "wait",
         call[t].op = "start" => generation < MaxGen, BeginCancel(t)
  PROVE  MInv'
<1> DEFINE c == [call[t] EXCEPT !.pc = "cancel", !.s = stream]
<1>a. call' = [call EXCEPT ![t] = c]
  BY DEF BeginCancel, Free
<1>b. \A u \in Tasks \ {t} : call[u].pc \notin Holding
  BY Alone, Types
  DEF MInv, LockInv, BeginCancel, Free, Holding, Cancelling, Rebuilding, Finalizing
<1>c. c \in Call
  BY Types DEF Call, Pcs, Results
<1>d. /\ call'[t] = c
      /\ \A u \in Tasks \ {t} : call'[u] = call[u]
      /\ call' \in [Tasks -> Call]
  BY <1>a, <1>c, Types
<1>1. MTypeOK'
  BY <1>d, Types
  DEF MInv, MTypeOK, BeginCancel, Free, SessionStates, NoStream, StreamIds
<1>2. LockInv'
  BY <1>b, <1>d, Types
  DEF MInv, LockInv, BeginCancel, Free, Holding, Cancelling, Rebuilding, Finalizing
<1>3. SectionInv'
  BY <1>b, <1>d, Types
  DEF MInv, SectionInv, BeginCancel, Free, Holding, Cancelling, Rebuilding, Finalizing
<1>4. SettledWhenFree'
  BY Types DEF MInv, SettledWhenFree, Free, BeginCancel, Free
<1>5. ActiveHasStream'
  BY Types DEF MInv, ActiveHasStream, MadeInv, BeginCancel, Free, NoStream, StreamIds
<1>6. MadeInv'
  BY <1>d, Types DEF MInv, MadeInv, BeginCancel, Free, NoStream, StreamIds
<1>7. NoStreamForgotten'
  BY <1>b, <1>d, Types
  DEF MInv, NoStreamForgotten, BeginCancel, Free, NoStream, Holding, Cancelling,
      Rebuilding, Finalizing
<1>8. FinalInv'
  BY <1>d, Types
  DEF MInv, FinalInv, BeginCancel, Free, Cancelling, Rebuilding, Finalizing
<1> QED BY <1>1, <1>2, <1>3, <1>4, <1>5, <1>6, <1>7, <1>8 DEF MInv

\* create_stream() has returned and the method leaves with its result.
LEMMA NewStreamStep ==
  ASSUME MInv, NEW t \in Tasks, lock = t, call[t].pc \in {"create", "rebuild", "last"},
         NEW r \in Results, NEW s \in StreamIds, NewStream(s), Leave(t, r),
         UNCHANGED <<generation, closed>>
  PROVE  MInv'
<1> DEFINE c == [call[t] EXCEPT !.pc = "done", !.res = r]
<1>a. call' = [call EXCEPT ![t] = c]
  BY DEF NewStream, Leave
<1>b. \A u \in Tasks \ {t} : call[u].pc \notin Holding
  BY Alone, Types
  DEF MInv, LockInv, NewStream, Leave, Holding, Cancelling, Rebuilding, Finalizing
<1>c. c \in Call
  BY Types DEF Call, Pcs, Results
<1>d. /\ call'[t] = c
      /\ \A u \in Tasks \ {t} : call'[u] = call[u]
      /\ call' \in [Tasks -> Call]
  BY <1>a, <1>c, Types
<1>e. stream = NoStream
  BY TasksAssumption DEF MInv, SectionInv, ActiveHasStream, Rebuilding
<1>f. /\ made' = made + 1 /\ stream' = made + 1 /\ made + 1 \in StreamIds
      /\ state' = "active" /\ genOf'[made + 1] = generation
      /\ closed' = closed /\ closed \subseteq 1 .. made /\ generation' = generation
  BY Types DEF NewStream, MInv, MadeInv
<1>g. \A x \in 1 .. made : x \in closed
  BY <1>b, <1>e, Types
  DEF MInv, NoStreamForgotten, NoStream, StreamIds, Holding, Cancelling, Rebuilding
<1>h. c.s = call[t].s
  BY Types DEF Call
<1>i. \A u \in Tasks : call'[u].s = call[u].s
  BY <1>d, <1>h
<1>j. \A u \in Tasks : call[u].s \in Nat
  BY Types DEF Call, NoStream, StreamIds
<1>1. MTypeOK'
  BY <1>d, Types DEF MInv, MTypeOK, NewStream, Leave, SessionStates, NoStream, StreamIds
<1>2. LockInv'
  BY <1>b, <1>d, Types
  DEF MInv, LockInv, NewStream, Leave, Holding, Cancelling, Rebuilding, Finalizing
<1>3. SectionInv'
  BY <1>b, <1>d, Types
  DEF MInv, SectionInv, NewStream, Leave, Holding, Cancelling, Rebuilding, Finalizing
<1>4. SettledWhenFree'
  BY Types DEF MInv, SettledWhenFree, Free, NewStream, Leave
<1>5. ActiveHasStream'
  BY <1>f, Types
  DEF MInv, ActiveHasStream, MadeInv, NewStream, Leave, NoStream, StreamIds
<1>6. MadeInv'
  BY <1>f, <1>i, <1>j, <1>d, Types
  DEF MInv, MadeInv, NewStream, Leave, NoStream, StreamIds
<1>7. NoStreamForgotten'
  BY <1>f, <1>g, <1>b, <1>d, Types
  DEF MInv, NoStreamForgotten, NewStream, Leave, NoStream, Holding, Cancelling,
      Rebuilding, Finalizing
<1>8. FinalInv'
  BY <1>d, Types
  DEF MInv, FinalInv, NewStream, Leave, Cancelling, Rebuilding, Finalizing
<1> QED BY <1>1, <1>2, <1>3, <1>4, <1>5, <1>6, <1>7, <1>8 DEF MInv

\* _handle_error_locked starts the rebuild ladder.
LEMMA HandleErrorStep ==
  ASSUME MInv, NEW t \in Tasks, lock \in {t, NoTask},
         call[t].pc \in {"create", "error"}, HandleError(t)
  PROVE  MInv'
<1> DEFINE c == [call[t] EXCEPT !.pc = "rebuild", !.s = NoStream, !.n = Retries]
<1>a. call' = [call EXCEPT ![t] = c]
  BY DEF HandleError, Close, AfterClose
<1>b. \A u \in Tasks \ {t} : call[u].pc \notin Holding
  BY Alone, Types
  DEF MInv, LockInv, HandleError, Close, AfterClose, Holding, Cancelling, Rebuilding,
      Finalizing
<1>c. c \in Call
  <2>1. Retries \in 0 .. Retries /\ NoStream \in StreamIds \cup {NoStream}
    BY BoundsAssumption
  <2> QED BY <2>1, Types DEF Call, Pcs
<1>d. /\ call'[t] = c
      /\ \A u \in Tasks \ {t} : call'[u] = call[u]
      /\ call' \in [Tasks -> Call]
  BY <1>a, <1>c, Types
<1>1. MTypeOK'
  BY <1>d, Types
  DEF MInv, MTypeOK, HandleError, Close, AfterClose, SessionStates, NoStream,
      StreamIds
<1>2. LockInv'
  BY <1>b, <1>d, Types
  DEF MInv, LockInv, HandleError, Close, AfterClose, Holding, Cancelling, Rebuilding,
      Finalizing
<1>3. SectionInv'
  BY <1>b, <1>d, Types
  DEF MInv, SectionInv, HandleError, Close, AfterClose, Holding, Cancelling,
      Rebuilding, Finalizing
<1>4. SettledWhenFree'
  BY Types DEF MInv, SettledWhenFree, Free, HandleError, Close, AfterClose
<1>5. ActiveHasStream'
  BY Types
  DEF MInv, ActiveHasStream, MadeInv, HandleError, Close, AfterClose, NoStream,
      StreamIds
<1>6. MadeInv'
  BY <1>d, Types DEF MInv, MadeInv, HandleError, Close, AfterClose, NoStream, StreamIds
<1>7. NoStreamForgotten'
  BY <1>b, <1>d, Types
  DEF MInv, NoStreamForgotten, HandleError, Close, AfterClose, NoStream, Holding,
      Cancelling, Rebuilding, Finalizing
<1>8. FinalInv'
  BY <1>d, Types
  DEF MInv, FinalInv, HandleError, Close, AfterClose, Cancelling, Rebuilding,
      Finalizing
<1> QED BY <1>1, <1>2, <1>3, <1>4, <1>5, <1>6, <1>7, <1>8 DEF MInv

\* on_speech_start has cancelled the old utterance and goes on to a new one.
LEMMA EndCancelStart ==
  ASSUME MInv, NEW t \in Tasks, call[t].pc \in Cancelling, call[t].op = "start",
         closed' = closed \cup ({call[t].s} \ {NoStream}), state' = "idle",
         generation' = generation + 1,
         call' = [call EXCEPT ![t].pc = "create", ![t].s = NoStream,
                              ![t].gen = generation + 1],
         UNCHANGED <<lock, stream, made, genOf>>
  PROVE  MInv'
<1> DEFINE c == [call[t] EXCEPT !.pc = "create", !.s = NoStream, !.gen = generation + 1]
<1>a. call' = [call EXCEPT ![t] = c]
  BY DEF Cancelling
<1>b. \A u \in Tasks \ {t} : call[u].pc \notin Holding
  BY Alone, Types
  DEF MInv, LockInv, Cancelling, Holding, Cancelling, Rebuilding, Finalizing
<1>c. c \in Call
  <2>1. generation + 1 \in 0 .. MaxGen /\ NoStream \in StreamIds \cup {NoStream}
    BY Types DEF MInv, SectionInv
  <2> QED BY <2>1, Types DEF Call, Pcs
<1>d. /\ call'[t] = c
      /\ \A u \in Tasks \ {t} : call'[u] = call[u]
      /\ call' \in [Tasks -> Call]
  BY <1>a, <1>c, Types
<1>e. /\ state = "cancelling" /\ stream = NoStream /\ lock = t
      /\ call[t].s \in Nat /\ call[t].s <= made
  BY Types
  DEF MInv, SectionInv, ActiveHasStream, LockInv, MadeInv, Holding, Cancelling, Call,
      NoStream, StreamIds
<1>f. generation < MaxGen
  BY DEF MInv, SectionInv
<1>1. MTypeOK'
  BY <1>e, <1>f, <1>d, Types
  DEF MInv, MTypeOK, Cancelling, SessionStates, NoStream, StreamIds
<1>2. LockInv'
  BY <1>e, <1>b, <1>d, Types
  DEF MInv, LockInv, Cancelling, Holding, Cancelling, Rebuilding, Finalizing
<1>3. SectionInv'
  BY <1>e, <1>b, <1>d, Types
  DEF MInv, SectionInv, Cancelling, Holding, Cancelling, Rebuilding, Finalizing
<1>4. SettledWhenFree'
  BY <1>e, Types DEF MInv, SettledWhenFree, Free, Cancelling
<1>5. ActiveHasStream'
  BY <1>e, Types DEF MInv, ActiveHasStream, MadeInv, Cancelling, NoStream, StreamIds
<1>6. MadeInv'
  BY <1>e, <1>d, Types DEF MInv, MadeInv, Cancelling, NoStream, StreamIds
<1>7. NoStreamForgotten'
  BY <1>e, <1>b, <1>d, Types
  DEF MInv, NoStreamForgotten, Cancelling, NoStream, Holding, Cancelling, Rebuilding,
      Finalizing
<1>8. FinalInv'
  BY <1>e, <1>d, Types
  DEF MInv, FinalInv, Cancelling, Cancelling, Rebuilding, Finalizing
<1> QED BY <1>1, <1>2, <1>3, <1>4, <1>5, <1>6, <1>7, <1>8 DEF MInv

\* cancel() has cancelled the utterance and returns.
LEMMA EndCancelLeave ==
  ASSUME MInv, NEW t \in Tasks, call[t].pc \in Cancelling, call[t].op # "start",
         closed' = closed \cup ({call[t].s} \ {NoStream}), state' = "idle",
         lock' = NoTask, call' = [call EXCEPT ![t].pc = "done", ![t].res = "ok"],
         UNCHANGED <<stream, generation, made, genOf>>
  PROVE  MInv'
<1> DEFINE c == [call[t] EXCEPT !.pc = "done", !.res = "ok"]
<1>a. call' = [call EXCEPT ![t] = c]
  BY DEF Cancelling
<1>b. \A u \in Tasks \ {t} : call[u].pc \notin Holding
  BY Alone, Types
  DEF MInv, LockInv, Cancelling, Holding, Cancelling, Rebuilding, Finalizing
<1>c. c \in Call
  BY Types DEF Call, Pcs, Results
<1>d. /\ call'[t] = c
      /\ \A u \in Tasks \ {t} : call'[u] = call[u]
      /\ call' \in [Tasks -> Call]
  BY <1>a, <1>c, Types
<1>e. /\ state = "cancelling" /\ stream = NoStream /\ lock = t
      /\ call[t].s \in Nat /\ call[t].s <= made
  BY Types
  DEF MInv, SectionInv, ActiveHasStream, LockInv, MadeInv, Holding, Cancelling, Call,
      NoStream, StreamIds
<1>1. MTypeOK'
  BY <1>e, <1>d, Types DEF MInv, MTypeOK, Cancelling, SessionStates, NoStream, StreamIds
<1>2. LockInv'
  BY <1>e, <1>b, <1>d, Types
  DEF MInv, LockInv, Cancelling, Holding, Cancelling, Rebuilding, Finalizing
<1>3. SectionInv'
  BY <1>e, <1>b, <1>d, Types
  DEF MInv, SectionInv, Cancelling, Holding, Cancelling, Rebuilding, Finalizing
<1>4. SettledWhenFree'
  BY <1>e, Types DEF MInv, SettledWhenFree, Free, Cancelling
<1>5. ActiveHasStream'
  BY <1>e, Types DEF MInv, ActiveHasStream, MadeInv, Cancelling, NoStream, StreamIds
<1>6. MadeInv'
  BY <1>e, <1>d, Types DEF MInv, MadeInv, Cancelling, NoStream, StreamIds
<1>7. NoStreamForgotten'
  BY <1>e, <1>b, <1>d, Types
  DEF MInv, NoStreamForgotten, Cancelling, NoStream, Holding, Cancelling, Rebuilding,
      Finalizing
<1>8. FinalInv'
  BY <1>e, <1>d, Types
  DEF MInv, FinalInv, Cancelling, Cancelling, Rebuilding, Finalizing
<1> QED BY <1>1, <1>2, <1>3, <1>4, <1>5, <1>6, <1>7, <1>8 DEF MInv

\* The rebuild ladder is exhausted.
LEMMA GiveUpStep ==
  ASSUME MInv, NEW t \in Tasks, call[t].pc = "last", NEW r \in Results, Leave(t, r),
         Close(stream), stream' = AfterClose, state' = "idle",
         UNCHANGED <<generation, made, genOf>>
  PROVE  MInv'
<1> DEFINE c == [call[t] EXCEPT !.pc = "done", !.res = r]
<1>a. call' = [call EXCEPT ![t] = c]
  BY DEF Leave, Close, AfterClose
<1>b. \A u \in Tasks \ {t} : call[u].pc \notin Holding
  BY Alone, Types
  DEF MInv, LockInv, Leave, Close, AfterClose, Holding, Cancelling, Rebuilding,
      Finalizing
<1>c. c \in Call
  BY Types DEF Call, Pcs, Results
<1>d. /\ call'[t] = c
      /\ \A u \in Tasks \ {t} : call'[u] = call[u]
      /\ call' \in [Tasks -> Call]
  BY <1>a, <1>c, Types
<1>1. MTypeOK'
  BY <1>d, Types
  DEF MInv, MTypeOK, Leave, Close, AfterClose, SessionStates, NoStream, StreamIds
<1>2. LockInv'
  BY <1>b, <1>d, Types
  DEF MInv, LockInv, Leave, Close, AfterClose, Holding, Cancelling, Rebuilding,
      Finalizing
<1>3. SectionInv'
  BY <1>b, <1>d, Types
  DEF MInv, SectionInv, Leave, Close, AfterClose, Holding, Cancelling, Rebuilding,
      Finalizing
<1>4. SettledWhenFree'
  BY Types DEF MInv, SettledWhenFree, Free, Leave, Close, AfterClose
<1>5. ActiveHasStream'
  BY Types
  DEF MInv, ActiveHasStream, MadeInv, Leave, Close, AfterClose, NoStream, StreamIds
<1>6. MadeInv'
  BY <1>d, Types DEF MInv, MadeInv, Leave, Close, AfterClose, NoStream, StreamIds
<1>7. NoStreamForgotten'
  BY <1>b, <1>d, Types
  DEF MInv, NoStreamForgotten, Leave, Close, AfterClose, NoStream, Holding, Cancelling,
      Rebuilding, Finalizing
<1>8. FinalInv'
  BY <1>d, Types
  DEF MInv, FinalInv, Leave, Close, AfterClose, Cancelling, Rebuilding, Finalizing
<1> QED BY <1>1, <1>2, <1>3, <1>4, <1>5, <1>6, <1>7, <1>8 DEF MInv

\* on_speech_start finds nothing to preempt.
LEMMA StartStep ==
  ASSUME MInv, NEW t \in Tasks, Free, At(t, "start", "wait"), generation < MaxGen,
         state \notin {"active", "finalizing"}, lock' = t,
         generation' = generation + 1,
         call' = [call EXCEPT ![t].pc = "create", ![t].gen = generation + 1],
         UNCHANGED <<state, stream, made, genOf, closed>>
  PROVE  MInv'
<1> DEFINE c == [call[t] EXCEPT !.pc = "create", !.gen = generation + 1]
<1>a. call' = [call EXCEPT ![t] = c]
  BY DEF Free, At
<1>b. \A u \in Tasks \ {t} : call[u].pc \notin Holding
  BY Alone, Types
  DEF MInv, LockInv, Free, At, Holding, Cancelling, Rebuilding, Finalizing
<1>c. c \in Call
  <2>1. generation + 1 \in 0 .. MaxGen
    BY Types
  <2> QED BY <2>1, Types DEF Call, Pcs
<1>d. /\ call'[t] = c
      /\ \A u \in Tasks \ {t} : call'[u] = call[u]
      /\ call' \in [Tasks -> Call]
  BY <1>a, <1>c, Types
<1>e. state = "idle"
  BY DEF MInv, SettledWhenFree, Free
<1>1. MTypeOK'
  BY <1>d, Types DEF MInv, MTypeOK, Free, At, SessionStates, NoStream, StreamIds
<1>2. LockInv'
  BY <1>b, <1>d, Types
  DEF MInv, LockInv, Free, At, Holding, Cancelling, Rebuilding, Finalizing
<1>3. SectionInv'
  BY <1>e, <1>b, <1>d, Types
  DEF MInv, SectionInv, Free, At, Holding, Cancelling, Rebuilding, Finalizing
<1>4. SettledWhenFree'
  BY Types DEF MInv, SettledWhenFree, Free, Free, At
<1>5. ActiveHasStream'
  BY Types DEF MInv, ActiveHasStream, MadeInv, Free, At, NoStream, StreamIds
<1>6. MadeInv'
  BY <1>d, Types DEF MInv, MadeInv, Free, At, NoStream, StreamIds
<1>7. NoStreamForgotten'
  BY <1>b, <1>d, Types
  DEF MInv, NoStreamForgotten, Free, At, NoStream, Holding, Cancelling, Rebuilding,
      Finalizing
<1>8. FinalInv'
  BY <1>d, Types DEF MInv, FinalInv, Free, At, Cancelling, Rebuilding, Finalizing
<1> QED BY <1>1, <1>2, <1>3, <1>4, <1>5, <1>6, <1>7, <1>8 DEF MInv

\* finalize_with_status goes to FINALIZING.
LEMMA FinalizeStep ==
  ASSUME MInv, NEW t \in Tasks, Free, At(t, "finalize", "wait"), state = "active",
         state' = "finalizing",
         call' = [call EXCEPT ![t].pc = "final", ![t].s = stream, ![t].gen = generation],
         UNCHANGED <<lock, stream, generation, made, genOf, closed>>
  PROVE  MInv'
<1> DEFINE c == [call[t] EXCEPT !.pc = "final", !.s = stream, !.gen = generation]
<1>a. call' = [call EXCEPT ![t] = c]
  BY DEF Free, At
<1>b. \A u \in Tasks \ {t} : call[u].pc \notin Holding
  BY Alone, Types
  DEF MInv, LockInv, Free, At, Holding, Cancelling, Rebuilding, Finalizing
<1>c. c \in Call
  BY Types DEF Call, Pcs, Results
<1>d. /\ call'[t] = c
      /\ \A u \in Tasks \ {t} : call'[u] = call[u]
      /\ call' \in [Tasks -> Call]
  BY <1>a, <1>c, Types
<1>e. "finalize" \in MayCall[t]
  BY DEF MInv, FinalInv, At
<1>f. \A u \in Tasks \ {t} : call[u].pc \notin Finalizing
  BY <1>e, OneFinalizer DEF MInv, FinalInv
<1>1. MTypeOK'
  BY <1>d, Types DEF MInv, MTypeOK, Free, At, SessionStates, NoStream, StreamIds
<1>2. LockInv'
  BY <1>b, <1>d, Types
  DEF MInv, LockInv, Free, At, Holding, Cancelling, Rebuilding, Finalizing
<1>3. SectionInv'
  BY <1>b, <1>d, Types
  DEF MInv, SectionInv, Free, At, Holding, Cancelling, Rebuilding, Finalizing
<1>4. SettledWhenFree'
  BY Types DEF MInv, SettledWhenFree, Free, Free, At
<1>5. ActiveHasStream'
  BY Types DEF MInv, ActiveHasStream, MadeInv, Free, At, NoStream, StreamIds
<1>6. MadeInv'
  BY <1>d, Types DEF MInv, MadeInv, Free, At, NoStream, StreamIds
<1>7. NoStreamForgotten'
  BY <1>b, <1>d, Types
  DEF MInv, NoStreamForgotten, Free, At, NoStream, Holding, Cancelling, Rebuilding,
      Finalizing
<1>8. FinalInv'
  BY <1>e, <1>f, <1>d, Types
  DEF MInv, FinalInv, Free, At, Cancelling, Rebuilding, Finalizing
<1> QED BY <1>1, <1>2, <1>3, <1>4, <1>5, <1>6, <1>7, <1>8 DEF MInv

\* A final is accepted.
LEMMA AcceptStep ==
  ASSUME MInv, NEW t \in Tasks, Free, call[t].pc = "commit", StillWanted(t),
         Close(stream), stream' = AfterClose, state' = "idle",
         call' = [call EXCEPT ![t].pc = "done", ![t].res = "accepted"],
         UNCHANGED <<lock, generation, made, genOf>>
  PROVE  MInv'
<1> DEFINE c == [call[t] EXCEPT !.pc = "done", !.res = "accepted"]
<1>a. call' = [call EXCEPT ![t] = c]
  BY DEF Free, StillWanted, Close, AfterClose
<1>b. \A u \in Tasks \ {t} : call[u].pc \notin Holding
  BY Alone, Types
  DEF MInv, LockInv, Free, StillWanted, Close, AfterClose, Holding, Cancelling,
      Rebuilding, Finalizing
<1>c. c \in Call
  BY Types DEF Call, Pcs, Results
<1>d. /\ call'[t] = c
      /\ \A u \in Tasks \ {t} : call'[u] = call[u]
      /\ call' \in [Tasks -> Call]
  BY <1>a, <1>c, Types
<1>1. MTypeOK'
  BY <1>d, Types
  DEF MInv, MTypeOK, Free, StillWanted, Close, AfterClose, SessionStates, NoStream,
      StreamIds
<1>2. LockInv'
  BY <1>b, <1>d, Types
  DEF MInv, LockInv, Free, StillWanted, Close, AfterClose, Holding, Cancelling,
      Rebuilding, Finalizing
<1>3. SectionInv'
  BY <1>b, <1>d, Types
  DEF MInv, SectionInv, Free, StillWanted, Close, AfterClose, Holding, Cancelling,
      Rebuilding, Finalizing
<1>4. SettledWhenFree'
  BY Types DEF MInv, SettledWhenFree, Free, Free, StillWanted, Close, AfterClose
<1>5. ActiveHasStream'
  BY Types
  DEF MInv, ActiveHasStream, MadeInv, Free, StillWanted, Close, AfterClose, NoStream,
      StreamIds
<1>6. MadeInv'
  BY <1>d, Types
  DEF MInv, MadeInv, Free, StillWanted, Close, AfterClose, NoStream, StreamIds
<1>7. NoStreamForgotten'
  BY <1>b, <1>d, Types
  DEF MInv, NoStreamForgotten, Free, StillWanted, Close, AfterClose, NoStream, Holding,
      Cancelling, Rebuilding, Finalizing
<1>8. FinalInv'
  BY <1>d, Types
  DEF MInv, FinalInv, Free, StillWanted, Close, AfterClose, Cancelling, Rebuilding,
      Finalizing
<1> QED BY <1>1, <1>2, <1>3, <1>4, <1>5, <1>6, <1>7, <1>8 DEF MInv

\* cancel() finds nothing to cancel.
LEMMA NothingToCancelStep ==
  ASSUME MInv, NEW t \in Tasks, Free, At(t, "cancel", "wait"),
         state = "idle" \/ stream = NoStream, state' = "idle",
         call' = [call EXCEPT ![t].pc = "done", ![t].res = "ok"],
         UNCHANGED <<lock, stream, generation, made, genOf, closed>>
  PROVE  MInv'
<1> DEFINE c == [call[t] EXCEPT !.pc = "done", !.res = "ok"]
<1>a. call' = [call EXCEPT ![t] = c]
  BY DEF Free, At
<1>b. \A u \in Tasks \ {t} : call[u].pc \notin Holding
  BY Alone, Types
  DEF MInv, LockInv, Free, At, Holding, Cancelling, Rebuilding, Finalizing
<1>c. c \in Call
  BY Types DEF Call, Pcs, Results
<1>d. /\ call'[t] = c
      /\ \A u \in Tasks \ {t} : call'[u] = call[u]
      /\ call' \in [Tasks -> Call]
  BY <1>a, <1>c, Types
<1>1. MTypeOK'
  BY <1>d, Types DEF MInv, MTypeOK, Free, At, SessionStates, NoStream, StreamIds
<1>2. LockInv'
  BY <1>b, <1>d, Types
  DEF MInv, LockInv, Free, At, Holding, Cancelling, Rebuilding, Finalizing
<1>3. SectionInv'
  BY <1>b, <1>d, Types
  DEF MInv, SectionInv, Free, At, Holding, Cancelling, Rebuilding, Finalizing
<1>4. SettledWhenFree'
  BY Types DEF MInv, SettledWhenFree, Free, Free, At
<1>5. ActiveHasStream'
  BY Types DEF MInv, ActiveHasStream, MadeInv, Free, At, NoStream, StreamIds
<1>6. MadeInv'
  BY <1>d, Types DEF MInv, MadeInv, Free, At, NoStream, StreamIds
<1>7. NoStreamForgotten'
  BY <1>b, <1>d, Types
  DEF MInv, NoStreamForgotten, Free, At, NoStream, Holding, Cancelling, Rebuilding,
      Finalizing
<1>8. FinalInv'
  BY <1>d, Types DEF MInv, FinalInv, Free, At, Cancelling, Rebuilding, Finalizing
<1> QED BY <1>1, <1>2, <1>3, <1>4, <1>5, <1>6, <1>7, <1>8 DEF MInv

-----------------------------------------------------------------------------
(* The invariant and the theorems *)

\* The initial state satisfies the invariant.
LEMMA MInitInv == MInit => MInv
<1> SUFFICES ASSUME MInit PROVE MInv
  OBVIOUS
<1>1. NoCall \in Call
  BY BoundsAssumption DEF NoCall, Call, Ops, Pcs, Results, NoStream
<1>2. call \in [Tasks -> Call] /\ \A t \in Tasks : call[t] = NoCall
  BY <1>1 DEF MInit
<1>3. MTypeOK
  BY <1>2, BoundsAssumption DEF MInit, MTypeOK, SessionStates
<1>4. LockInv /\ SectionInv /\ FinalInv
  BY <1>2, TasksAssumption
  DEF MInit, LockInv, SectionInv, FinalInv, NoCall, NoTask, Holding, Cancelling,
      Rebuilding, Finalizing
<1>5. SettledWhenFree /\ ActiveHasStream /\ NoStreamForgotten
  BY DEF MInit, SettledWhenFree, ActiveHasStream, NoStreamForgotten, NoStream
<1>6. MadeInv
  BY <1>2 DEF MInit, MadeInv, NoCall, NoStream
<1> QED BY <1>3, <1>4, <1>5, <1>6 DEF MInv

\* Every step of a task inside the manager preserves the invariant.
LEMMA WorkStep ==
  ASSUME MInv, NEW t \in Tasks, Work(t)
  PROVE  MInv'
<1>0. call[t] \in Call /\ call[t].op \in Ops /\ t # NoTask
  BY Types DEF Call
<1>1. ASSUME EndCancel(t), call[t].pc \in Cancelling
      PROVE  MInv'
  <2>1. CASE call[t].op = "start"
    BY <1>1, <2>1, EndCancelStart DEF EndCancel, CloseCancelled, Close
  <2>2. CASE call[t].op # "start"
    BY <1>1, <2>2, EndCancelLeave DEF EndCancel, CloseCancelled, Close, Leave
  <2> QED BY <2>1, <2>2
<1>2. CASE CancelAck(t) \/ CancelRestarted(t)
  BY <1>1, <1>2 DEF CancelAck, CancelRestarted, Cancelling
<1>3. \A op \in Ops : RecoveredResult[op] \in Results
  BY DEF RecoveredResult, Ops, Results
<1>4. ASSUME NEW s \in StreamIds, RebuildOk(t, s)
      PROVE  MInv'
  <2>1. lock = t
    BY <1>4 DEF MInv, LockInv, RebuildOk, Holding, Rebuilding
  <2> QED BY <1>0, <1>3, <1>4, <2>1, NewStreamStep DEF RebuildOk
<1>5. ASSUME NEW s \in StreamIds, CreateOk(t, s)
      PROVE  MInv'
  <2>1. lock = t
    BY <1>5 DEF MInv, LockInv, CreateOk, Holding
  <2> QED BY <1>5, <2>1, NewStreamStep DEF CreateOk, Results
<1>6. CASE RebuildGiveUp(t)
  <2> DEFINE r == IF call[t].op = "start" THEN "unavailable"
                  ELSE RecoveredResult[call[t].op]
  <2>1. r \in Results
    BY <1>0, <1>3 DEF Results
  <2>2. Leave(t, r)
    BY <1>6 DEF RebuildGiveUp
  <2> QED BY <1>6, <2>1, <2>2, GiveUpStep DEF RebuildGiveUp, GivenUp
<1>7. CASE EnterStart(t)
  <2>1. CASE state \in {"active", "finalizing"}
    BY <1>7, <2>1, BeginCancelStep DEF EnterStart, At
  <2>2. CASE state \notin {"active", "finalizing"}
    BY <1>7, <2>2, StartStep DEF EnterStart
  <2> QED BY <2>1, <2>2
<1>8. CASE CreateFail(t)
  <2>1. lock = t
    BY <1>8 DEF MInv, LockInv, CreateFail, Holding
  <2> QED BY <1>8, <2>1, HandleErrorStep DEF CreateFail
<1>9. CASE EnterError(t)
  BY <1>9, HandleErrorStep DEF EnterError, Free
<1>10. CASE EnterFinalize(t)
  <2>1. CASE state = "active"
    BY <1>10, <2>1, FinalizeStep DEF EnterFinalize
  <2>2. CASE state # "active"
    <3> DEFINE c == [call[t] EXCEPT !.pc = "done", !.res = "rejected", !.gen = generation]
    <3>1. call' = [call EXCEPT ![t] = c] /\ UNCHANGED Others
      BY <1>10, <2>2 DEF EnterFinalize, Others
    <3>2. c \in Call
      BY Types DEF Call, Pcs, Results
    <3>3. Keeps(t, c)
      BY <1>0, <1>10, <3>2
      DEF EnterFinalize, At, MInv, MadeInv, FinalInv, Keeps, Call, Cancelling, Rebuilding,
          Finalizing
    <3> QED BY <3>1, <3>3, LocalStep
  <2> QED BY <2>1, <2>2
<1>11. CASE Commit(t)
  <2>1. CASE StillWanted(t)
    BY <1>11, <2>1, AcceptStep DEF Commit
  <2>2. CASE ~StillWanted(t)
    <3> DEFINE c == [call[t] EXCEPT !.pc = "done", !.res = "rejected"]
    <3>1. call' = [call EXCEPT ![t] = c] /\ UNCHANGED Others
      BY <1>11, <2>2 DEF Commit, Others
    <3>2. c \in Call
      BY Types DEF Call, Pcs, Results
    <3>3. Keeps(t, c)
      BY <1>0, <1>11, <3>2
      DEF Commit, MInv, MadeInv, FinalInv, Keeps, Call, Cancelling, Rebuilding, Finalizing
    <3> QED BY <3>1, <3>3, LocalStep
  <2> QED BY <2>1, <2>2
<1>12. CASE EnterCancel(t)
  <2>1. CASE state # "idle" /\ stream # NoStream
    BY <1>12, <2>1, BeginCancelStep DEF EnterCancel, At
  <2>2. CASE state = "idle" \/ stream = NoStream
    BY <1>12, <2>2, NothingToCancelStep DEF EnterCancel
  <2> QED BY <2>1, <2>2
<1>13. CASE Local(t)
  BY <1>13, LocalActions
<1> QED BY <1>2, <1>4, <1>5, <1>6, <1>7, <1>8, <1>9, <1>10, <1>11, <1>12, <1>13
        DEF Work, Local

\* The invariant is inductive.
LEMMA MInvStep == MInv /\ [MNext]_mvars => MInv'
<1> SUFFICES ASSUME MInv, [MNext]_mvars PROVE MInv'
  OBVIOUS
<1>1. CASE UNCHANGED mvars
  BY <1>1
  DEF mvars, MInv, MTypeOK, LockInv, SectionInv, SettledWhenFree, Free, ActiveHasStream,
      MadeInv, NoStreamForgotten, FinalInv
<1>2. ASSUME NEW t \in Tasks, Work(t) PROVE MInv'
  BY <1>2, WorkStep
<1>3. ASSUME NEW t \in Tasks, Local(t) PROVE MInv'
  BY <1>3, LocalActions
<1> QED BY <1>1, <1>2, <1>3 DEF MNext, Local

\* The inductive invariant holds in every reachable state.
THEOREM SessionInvariance == MSpec => []MInv
BY MInitInv, MInvStep, PTL DEF MSpec

\* Type correctness of the manager's fields and of its callers' locals.
THEOREM SessionTypeCorrect == MSpec => []MTypeOK
<1>1. MInv => MTypeOK
  BY DEF MInv
<1> QED BY <1>1, SessionInvariance, PTL

\* ACTIVE and FINALIZING always have an open stream of the current generation,
\* the other states none: accept_audio() and finalize() never use a stale one.
THEOREM StreamCorrect == MSpec => []ActiveHasStream
<1>1. MInv => ActiveHasStream
  BY DEF MInv
<1> QED BY <1>1, SessionInvariance, PTL

\* A stream the manager has created is closed, current, or being cancelled.
THEOREM NoLeak == MSpec => []NoStreamForgotten
<1>1. MInv => NoStreamForgotten
  BY DEF MInv
<1> QED BY <1>1, SessionInvariance, PTL

\* CANCELLING and ERROR_REBUILD are visible to the lock's holder only.
THEOREM SettledCorrect == MSpec => []SettledWhenFree
<1>1. MInv => SettledWhenFree
  BY DEF MInv
<1> QED BY <1>1, SessionInvariance, PTL

\* The manager's state, its stream and its callers agree at every moment: the
\* three facts above, which every later call of the manager relies on.
THEOREM SessionConsistent == MSpec => []StreamsAccounted
<1>1. MInv => StreamsAccounted
  BY DEF MInv, StreamsAccounted
<1> QED BY <1>1, SessionInvariance, PTL

\* finalize_with_status() accepts a final only from the manager's own stream,
\* under the generation it was created for.
THEOREM FinalCorrect == MSpec => AcceptedIsCurrent
<1>1. ASSUME MInv, NEW t \in Tasks, NEW u \in Tasks, call[t].pc = "commit",
             Work(u) \/ Return(u) \/ \E op \in Ops : Invoke(u, op)
      PROVE  (t = u /\ Commit(t)) \/ call'[t].res = "none"
  <2>1. call[t].res = "none" /\ call \in [Tasks -> Call]
    BY <1>1, Types DEF MInv, FinalInv, Finalizing
  <2>2. CASE t = u
    BY <1>1, <2>2
    DEF Work, CancelAck, CancelStuck, CancelRestarted, RebuildOk, CreateOk, RebuildFail,
        RebuildRestart, RebuildGiveUp, EnterStart, CreateFail, EnterAudio, FeedOk, Raise,
        EnterError, EnterPartial, PollDone, EnterFinalize, FinalOk, EnterCancel, At,
        Return, Invoke
  <2>3. CASE t # u
    <3>1. call'[t] = call[t]
      BY <1>1, <2>1, <2>3
      DEF Work, CancelAck, CancelStuck, CancelRestarted, RebuildOk, CreateOk, RebuildFail,
          RebuildRestart, RebuildGiveUp, EnterStart, CreateFail, EnterAudio, FeedOk, Raise,
          EnterError, EnterPartial, PollDone, EnterFinalize, FinalOk, EnterCancel, Commit,
          Return, Invoke, EndCancel, BeginCancel, HandleError, Leave
    <3> QED BY <2>1, <3>1
  <2> QED BY <2>2, <2>3
<1>2. ASSUME MInv, NEW t \in Tasks, Commit(t), call'[t].res = "accepted"
      PROVE  /\ call[t].s = stream
             /\ genOf[call[t].s] = call[t].gen
             /\ call[t].gen = generation
  <2>1. call' = [call EXCEPT ![t] = [call[t] EXCEPT !.pc = "done", !.res = "rejected"]]
          => call'[t].res = "rejected"
    BY <1>2, Types DEF Call
  <2>2. StillWanted(t) /\ call[t].pc = "commit"
    BY <1>2, <2>1 DEF Commit
  <2>3. call[t].s = stream /\ stream # NoStream
    BY <1>2, <2>2 DEF MInv, FinalInv, StillWanted, Finalizing, ActiveHasStream
  <2> QED BY <1>2, <2>2, <2>3 DEF StillWanted, MInv, ActiveHasStream
<1>3. MInv /\ [MNext]_mvars =>
        [\A t \in Tasks :
            (call[t].pc = "commit" /\ call'[t].res = "accepted") =>
               /\ call[t].s = stream
               /\ genOf[call[t].s] = call[t].gen
               /\ call[t].gen = generation]_mvars
  BY <1>1, <1>2 DEF MNext
<1> QED BY <1>3, SessionInvariance, PTL DEF MSpec, AcceptedIsCurrent

-----------------------------------------------------------------------------
(* V2VAsr: the manager as one connection uses it *)

Begun == {"create", "rebuild", "last", "done"}
CancelPcs == {"wait", "done"} \cup Cancelling
StartPcs == CancelPcs \cup Begun
Rest == {"idle", "cancelling", "error_rebuild"}
Starting == call["dispatcher"].op = "start" /\ call["dispatcher"].pc \in Begun

\* Also when a coroutine may be abandoned: nobody but the lock's holder is inside, and
\* whoever is inside has taken the stream out of the manager.
UsedInv ==
  /\ MTypeOK
  /\ LockInv
  /\ (state \in Rest) => stream = NoStream
  /\ \A t \in Tasks :
       /\ call[t].pc \in Holding => stream = NoStream
       /\ call[t].op = "start" => t = "dispatcher" /\ call[t].pc \in StartPcs
       /\ call[t].op = "cancel" => call[t].pc \in CancelPcs
       /\ call[t].op = "start" /\ call[t].pc \in Cancelling => generation < MaxGen
       /\ call[t].op = "start" /\ call[t].pc \in Begun => call[t].gen = generation

\* The handler leaves one task after the other behind before it cancels the session
\* itself.
ClosingInv ==
  /\ hpc \in {"run", "failed", "joining", "joined", "closing", "closed"}
  /\ hpc \notin {"run", "failed"} => dpc = "end" /\ call["dispatcher"].pc = "idle"
  /\ hpc \in {"joined", "closing", "closed"} => opc = "end" /\ call["out"].pc = "idle"
  /\ hpc # "closing" => call["handler"].pc = "idle"
  /\ hpc = "closing" => call["handler"].op = "cancel"
  /\ hpc = "closing" /\ call["handler"].pc = "done" => state = "idle"
  /\ hpc = "closed" /\ ~cut => state = "idle"

\* asr_active is about the manager's own generation, except while the dispatcher is
\* inside on_speech_start(); and an accepted final is of that generation.
UtteranceInv ==
  /\ flags \in Flags
  /\ call["dispatcher"].op = "start" <=> dpc = "starting"
  /\ hpc \in {"run", "failed"} /\ flags.active /\ ~Starting => flags.activeGen = generation
  /\ call["out"].pc = "done" /\ call["out"].res = "accepted" =>
       /\ call["out"].gen = generation /\ hpc \in {"run", "failed"}
       /\ ~Starting /\ call["dispatcher"].pc # "done"

ConnectionInv == UsedInv /\ ClosingInv /\ UtteranceInv

-----------------------------------------------------------------------------
\* A step of task t in the manager, after which the locals of its call are c.
Moves(t, c) ==
  /\ c \in Call /\ call' = [call EXCEPT ![t] = c]
  /\ lock' = lock \/ (lock \in {t, NoTask} /\ lock' \in {t, NoTask})
  /\ c.pc \in Holding <=> lock' = t
  /\ stream' = stream \/ lock \in {t, NoTask}
  /\ c.pc \in Holding => stream' = NoStream
  /\ (state' \in Rest) => stream' = NoStream
  /\ state' \in SessionStates /\ stream' \in StreamIds \cup {NoStream}
  /\ made' \in 0 .. MaxStreams /\ genOf' \in [StreamIds -> 0 .. MaxGen]
  /\ closed' \subseteq StreamIds
  /\ \/ generation' = generation
     \/ t = "dispatcher" /\ c.op = "start" /\ c.pc = "create"
        /\ generation < MaxGen /\ generation' = generation + 1
  /\ c.op = "start" => t = "dispatcher" /\ c.pc \in StartPcs
  /\ c.op = "cancel" => c.pc \in CancelPcs
  /\ (c.op = "start" /\ c.pc \in Cancelling) => generation' < MaxGen
  /\ (c.op = "start" /\ c.pc \in Begun) => c.gen = generation'

\* Such a step keeps what holds of the manager.
LEMMA MovesKeep ==
  ASSUME UsedInv, NEW t \in Tasks, NEW c, Moves(t, c)
  PROVE  /\ UsedInv' /\ call'[t] = c /\ \A u \in Tasks \ {t} : call'[u] = call[u]
         /\ generation' = generation \/ (t = "dispatcher" /\ c.op = "start" /\ c.pc \in Begun)
<1>1. /\ call'[t] = c /\ \A u \in Tasks \ {t} : call'[u] = call[u]
      /\ call' \in [Tasks -> Call]
  BY DEF Moves, UsedInv, MTypeOK
<1>2. MTypeOK'
  BY <1>1, BoundsAssumption DEF Moves, UsedInv, MTypeOK
<1>3. LockInv'
  BY <1>1, TasksAssumption DEF Moves, UsedInv, LockInv, NoTask
<1>4. ASSUME NEW u \in Tasks
      PROVE  /\ call'[u].pc \in Holding => stream' = NoStream
             /\ call'[u].op = "start" => u = "dispatcher" /\ call'[u].pc \in StartPcs
             /\ call'[u].op = "cancel" => call'[u].pc \in CancelPcs
             /\ call'[u].op = "start" /\ call'[u].pc \in Cancelling => generation' < MaxGen
             /\ call'[u].op = "start" /\ call'[u].pc \in Begun => call'[u].gen = generation'
  <2>1. CASE u = t
    BY <1>1, <2>1 DEF Moves
  <2>2. CASE u # t
    <3>1. call'[u] = call[u]
      BY <1>1, <2>2
    <3>2. call[u].pc \in Holding => stream' = NoStream
      BY <2>2, TasksAssumption DEF Moves, UsedInv, LockInv, NoTask
    <3>3. call[u].op = "start" => generation' = generation
      BY <2>2 DEF Moves, UsedInv
    <3> QED
      BY <3>1, <3>2, <3>3 DEF UsedInv
  <2> QED
    BY <2>1, <2>2
<1> QED
  BY <1>1, <1>2, <1>3, <1>4 DEF UsedInv, Moves, Begun

\* What is there to be read.
LEMMA UsedTypes ==
  ASSUME UsedInv, NEW t \in Tasks
  PROVE  /\ call \in [Tasks -> Call] /\ call[t] \in Call /\ t # NoTask
         /\ call[t].pc \in Holding <=> lock = t
         /\ state \in SessionStates /\ stream \in StreamIds \cup {NoStream}
         /\ generation \in 0 .. MaxGen /\ made \in 0 .. MaxStreams
         /\ genOf \in [StreamIds -> 0 .. MaxGen] /\ closed \subseteq StreamIds
         /\ MaxGen \in Nat /\ MaxStreams \in Nat /\ Retries \in Nat
BY TasksAssumption, BoundsAssumption DEF UsedInv, MTypeOK, LockInv, NoTask

\* The locals of a call that waits for the lock.
NewCall(op) == [NoCall EXCEPT !.op = op, !.pc = "wait"]

\* The caller's side: a call begins, its result is taken, its task is cancelled.
LEMMA CallerSteps ==
  ASSUME UsedInv, NEW t \in Tasks
  PROVE  /\ NoCall.pc = "idle" /\ NoCall.op = "audio"
         /\ \A op \in Ops : NewCall(op).op = op /\ NewCall(op).pc = "wait"
         /\ \A op \in Ops :
              /\ call[t].pc \in {"idle", "done"} /\ (op = "start" => t = "dispatcher")
              /\ call' = [call EXCEPT ![t] = NewCall(op)]
              /\ UNCHANGED <<lock, state, stream, generation, made, genOf, closed>>
              => Moves(t, NewCall(op))
         /\ Return(t) => Moves(t, NoCall)
         /\ Abandon(t) => Moves(t, NoCall)
<1> USE DEF Cancelling, Rebuilding, Holding, Begun, CancelPcs, StartPcs
<1>0. NoCall \in Call /\ NoCall.pc = "idle" /\ NoCall.op = "audio"
  BY BoundsAssumption DEF NoCall, Call, Ops, Pcs, Results, NoStream
<1>a. ASSUME NEW op \in Ops
      PROVE  /\ NewCall(op) \in Call
             /\ NewCall(op).op = op
             /\ NewCall(op).pc = "wait"
  BY <1>0 DEF Call, Pcs, NewCall
<1>1. ASSUME NEW op \in Ops, call[t].pc \in {"idle", "done"}, op = "start" => t = "dispatcher",
             call' = [call EXCEPT ![t] = NewCall(op)],
             UNCHANGED <<lock, state, stream, generation, made, genOf, closed>>
      PROVE  Moves(t, NewCall(op))
  BY <1>0, <1>1, <1>a, UsedTypes DEF Moves, UsedInv
<1>2. ASSUME Return(t) PROVE Moves(t, NoCall)
  BY <1>0, <1>2, UsedTypes DEF Return, Moves, UsedInv
<1>3. ASSUME Abandon(t) PROVE Moves(t, NoCall)
  <2>1. /\ call' = [call EXCEPT ![t] = NoCall] /\ lock' = IF lock = t THEN NoTask ELSE lock
        /\ UNCHANGED <<state, stream, generation, genOf, closed>>
    BY <1>3 DEF Abandon
  <2>2. made' \in 0 .. MaxStreams
    BY <1>3, UsedTypes DEF Abandon
  <2>3. lock' # t /\ (lock' = lock \/ (lock \in {t, NoTask} /\ lock' \in {t, NoTask}))
    BY <2>1, UsedTypes
  <2> QED
    BY <1>0, <2>1, <2>2, <2>3, UsedTypes DEF Moves, UsedInv
<1> QED
  BY <1>0, <1>a, <1>1, <1>2, <1>3

\* A step inside the manager: besides, the call goes on, an accepted final is of the
\* current generation, and a cancel() that is over leaves the manager IDLE.
Works(t, c) ==
  /\ Moves(t, c)
  /\ c.op = call[t].op /\ c.pc # "idle" /\ call[t].pc # "idle"
  /\ (c.pc = "done" /\ c.res = "accepted") => lock = NoTask /\ c.gen = generation'
  /\ (c.op = "cancel" /\ c.pc = "done") => state' = "idle"
  /\ (c.op = "start" /\ call[t].pc \in Begun) => c.pc \in Begun

\* A step that changes nothing but the locals of the call.
OnlyLocals(t, c) ==
  /\ UNCHANGED <<lock, state, stream, generation, made, genOf, closed>>
  /\ c \in Call /\ call' = [call EXCEPT ![t] = c]
  /\ c.op = call[t].op /\ c.pc # "idle" /\ call[t].pc # "idle"
  /\ c.pc \in Holding <=> call[t].pc \in Holding
  /\ c.pc \in Cancelling <=> call[t].pc \in Cancelling
  /\ c.op = "start" => c.pc \in StartPcs
  /\ c.op = "cancel" => c.pc \in CancelPcs \ {"done"}
  /\ (c.op = "start" /\ c.pc \in Begun) => call[t].pc \in Begun /\ c.gen = call[t].gen
  /\ (c.op = "start" /\ call[t].pc \in Begun) => c.pc \in Begun
  /\ (c.pc = "done" /\ c.res = "accepted") => lock = NoTask /\ c.gen = generation

\* It is a step inside the manager.
LEMMA OwnSteps ==
  ASSUME UsedInv, NEW t \in Tasks, NEW c, OnlyLocals(t, c)
  PROVE  \E d : Works(t, d)
<1> USE DEF OnlyLocals
<1>1. /\ lock' = lock /\ state' = state /\ stream' = stream /\ generation' = generation
      /\ made' = made /\ genOf' = genOf /\ closed' = closed
  OBVIOUS
<1>2. (c.op = "start" /\ c.pc \in Begun => c.gen = generation)
      /\ (c.op = "start" /\ c.pc \in Cancelling => generation < MaxGen)
      /\ (c.op = "start" => t = "dispatcher")
  BY DEF UsedInv
<1>3. (c.pc \in Holding => stream = NoStream) /\ (state \in Rest => stream = NoStream)
      /\ (c.pc \in Holding <=> lock = t)
  BY DEF UsedInv, LockInv
<1>4. Moves(t, c)
  BY <1>1, <1>2, <1>3, UsedTypes DEF Moves
<1>5. c.op = "cancel" => c.pc # "done"
  OBVIOUS
<1> QED
  BY <1>1, <1>4, <1>5 DEF Works

\* Each of them.
LEMMA LocalWorks ==
  ASSUME UsedInv, NEW t \in Tasks,
         \/ CancelStuck(t) \/ RebuildFail(t) \/ RebuildRestart(t) \/ EnterAudio(t)
         \/ FeedOk(t) \/ Raise(t) \/ EnterPartial(t) \/ PollDone(t) \/ FinalOk(t)
  PROVE  \E c : Works(t, c)
<1> USE DEF Cancelling, Rebuilding, Holding, Begun, CancelPcs, StartPcs
<1>0. /\ call[t] \in Call /\ stream \in StreamIds \cup {NoStream} /\ generation \in 0 .. MaxGen
      /\ call[t].op = "start" => t = "dispatcher" /\ call[t].pc \in StartPcs
      /\ call[t].op = "cancel" => call[t].pc \in CancelPcs
  BY UsedTypes DEF UsedInv
<1>1. CASE CancelStuck(t)
  <2> DEFINE c == [call[t] EXCEPT !.pc = "cancelRestart"]
  <2>1. c \in Call /\ call' = [call EXCEPT ![t] = c] /\ c.pc = "cancelRestart" /\ c.op = call[t].op
    BY <1>0, <1>1 DEF CancelStuck, Call, Pcs
  <2>z. OnlyLocals(t, c)
    BY <1>0, <1>1, <2>1 DEF OnlyLocals, CancelStuck
  <2> QED
    BY ONLY UsedInv, <2>z, t \in Tasks, OwnSteps
<1>2. CASE RebuildFail(t)
  <2> DEFINE c == [call[t] EXCEPT !.n = @ - 1]
  <2>1. c \in Call /\ call' = [call EXCEPT ![t] = c] /\ c.pc = call[t].pc
        /\ c.op = call[t].op /\ c.gen = call[t].gen
    BY <1>0, <1>2, BoundsAssumption DEF RebuildFail, Call
  <2>z. OnlyLocals(t, c)
    BY <1>0, <1>2, <2>1 DEF OnlyLocals, RebuildFail
  <2> QED
    BY ONLY UsedInv, <2>z, t \in Tasks, OwnSteps
<1>3. CASE RebuildRestart(t)
  <2> DEFINE c == [call[t] EXCEPT !.pc = "last"]
  <2>1. c \in Call /\ call' = [call EXCEPT ![t] = c] /\ c.pc = "last" /\ c.op = call[t].op
        /\ c.gen = call[t].gen
    BY <1>0, <1>3 DEF RebuildRestart, Call, Pcs
  <2>z. OnlyLocals(t, c)
    BY <1>0, <1>3, <2>1 DEF OnlyLocals, RebuildRestart
  <2> QED
    BY ONLY UsedInv, <2>z, t \in Tasks, OwnSteps
<1>4. CASE EnterAudio(t)
  <2>1. CASE state = "active"
    <3> DEFINE c == [call[t] EXCEPT !.pc = "feed", !.s = stream, !.gen = generation]
    <3>1. c \in Call /\ call' = [call EXCEPT ![t] = c] /\ c.pc = "feed" /\ c.op = "audio"
      BY <1>0, <1>4, <2>1 DEF EnterAudio, At, Call, Pcs
    <3>z. OnlyLocals(t, c)
      BY <1>0, <1>4, <3>1 DEF OnlyLocals, EnterAudio, At
    <3> QED
      BY ONLY UsedInv, <3>z, t \in Tasks, OwnSteps
  <2>2. CASE state # "active"
    <3> DEFINE c == [call[t] EXCEPT !.pc = "done", !.res = "dropped"]
    <3>1. c \in Call /\ call' = [call EXCEPT ![t] = c] /\ c.pc = "done" /\ c.op = "audio"
          /\ c.res = "dropped"
      BY <1>0, <1>4, <2>2 DEF EnterAudio, At, Call, Pcs, Results
    <3>z. OnlyLocals(t, c)
      BY <1>0, <1>4, <3>1 DEF OnlyLocals, EnterAudio, At
    <3> QED
      BY ONLY UsedInv, <3>z, t \in Tasks, OwnSteps
  <2> QED
    BY <2>1, <2>2
<1>5. CASE FeedOk(t)
  <2> DEFINE c == [call[t] EXCEPT !.pc = "done", !.res = "ok"]
  <2>1. c \in Call /\ call' = [call EXCEPT ![t] = c] /\ c.pc = "done" /\ c.op = call[t].op
        /\ c.res = "ok"
    BY <1>0, <1>5 DEF FeedOk, Call, Pcs, Results
  <2>z. OnlyLocals(t, c)
    BY <1>0, <1>5, <2>1 DEF OnlyLocals, FeedOk
  <2> QED
    BY ONLY UsedInv, <2>z, t \in Tasks, OwnSteps
<1>6. CASE Raise(t)
  <2> DEFINE c == [call[t] EXCEPT !.pc = "error"]
  <2>1. c \in Call /\ call' = [call EXCEPT ![t] = c] /\ c.pc = "error" /\ c.op = call[t].op
    BY <1>0, <1>6 DEF Raise, Call, Pcs
  <2>z. OnlyLocals(t, c)
    BY <1>0, <1>6, <2>1 DEF OnlyLocals, Raise
  <2> QED
    BY ONLY UsedInv, <2>z, t \in Tasks, OwnSteps
<1>7. CASE EnterPartial(t)
  <2> DEFINE c == [call[t] EXCEPT !.pc = IF state = "active" THEN "poll" ELSE "done",
                                  !.s = IF state = "active" THEN stream ELSE NoStream,
                                  !.gen = generation, !.res = "dropped"]
  <2>1. c \in Call /\ call' = [call EXCEPT ![t] = c] /\ c.pc \in {"poll", "done"}
        /\ c.op = "partial"
        /\ c.res = "dropped"
    BY <1>0, <1>7 DEF EnterPartial, At, Call, Pcs, Results
  <2>z. OnlyLocals(t, c)
    BY <1>0, <1>7, <2>1 DEF OnlyLocals, EnterPartial, At
  <2> QED
    BY ONLY UsedInv, <2>z, t \in Tasks, OwnSteps
<1>8. CASE PollDone(t)
  <2>1. PICK r \in {"ok", "dropped"} : call' = [call EXCEPT ![t].pc = "done", ![t].res = r]
    BY <1>8 DEF PollDone
  <2> DEFINE c == [call[t] EXCEPT !.pc = "done", !.res = r]
  <2>2. c \in Call /\ call' = [call EXCEPT ![t] = c] /\ c.pc = "done" /\ c.op = call[t].op
        /\ c.res # "accepted"
    BY <1>0, <2>1 DEF Call, Pcs, Results
  <2>z. OnlyLocals(t, c)
    BY <1>0, <1>8, <2>2 DEF OnlyLocals, PollDone
  <2> QED
    BY ONLY UsedInv, <2>z, t \in Tasks, OwnSteps
<1>9. CASE FinalOk(t)
  <2> DEFINE c == [call[t] EXCEPT !.pc = "commit"]
  <2>1. c \in Call /\ call' = [call EXCEPT ![t] = c] /\ c.pc = "commit" /\ c.op = call[t].op
    BY <1>0, <1>9 DEF FinalOk, Call, Pcs
  <2>z. OnlyLocals(t, c)
    BY <1>0, <1>9, <2>1 DEF OnlyLocals, FinalOk
  <2> QED
    BY ONLY UsedInv, <2>z, t \in Tasks, OwnSteps
<1> QED
  BY <1>1, <1>2, <1>3, <1>4, <1>5, <1>6, <1>7, <1>8, <1>9

\* The steps of the holder of the lock, or of one that takes it.
LEMMA InsideWorks ==
  ASSUME UsedInv, NEW t \in Tasks,
         \/ CancelAck(t) \/ CancelRestarted(t) \/ RebuildGiveUp(t) \/ EnterStart(t)
         \/ CreateFail(t) \/ EnterError(t)
         \/ \E s \in StreamIds : RebuildOk(t, s) \/ CreateOk(t, s)
  PROVE  \E c : Works(t, c)
<1> USE DEF Cancelling, Rebuilding, Holding, Begun, CancelPcs, StartPcs
<1>0. /\ call[t] \in Call /\ stream \in StreamIds \cup {NoStream} /\ generation \in 0 .. MaxGen
      /\ call[t].op \in Ops /\ MaxGen \in Nat /\ t # NoTask
      /\ call[t].op = "start" => t = "dispatcher" /\ call[t].pc \in StartPcs
      /\ call[t].op = "cancel" => call[t].pc \in CancelPcs
      /\ call[t].op = "start" /\ call[t].pc \in Cancelling => generation < MaxGen
      /\ call[t].op = "start" /\ call[t].pc \in Begun => call[t].gen = generation
      /\ call[t].pc \in Holding => stream = NoStream /\ lock = t
      /\ state \in Rest => stream = NoStream
  BY UsedTypes DEF UsedInv, Call
<1>00. /\ made \in 0 .. MaxStreams /\ genOf \in [StreamIds -> 0 .. MaxGen]
          /\ closed \subseteq StreamIds
       /\ state \in SessionStates
  BY UsedTypes
<1>1. ASSUME EndCancel(t), call[t].pc \in Cancelling PROVE \E c : Works(t, c)
  <2>0. state' = "idle" /\ stream' = NoStream /\ made' = made /\ genOf' = genOf
        /\ closed' \subseteq StreamIds
    <3>1. closed' = closed \cup ({call[t].s} \ {NoStream})
          /\ call[t].s \in StreamIds \cup {NoStream}
      BY <1>0, <1>1 DEF EndCancel, CloseCancelled, Close, Call
    <3> QED
      BY <1>0, <1>00, <1>1, <3>1 DEF EndCancel
  <2>1. CASE call[t].op = "start"
    <3> DEFINE c == [call[t] EXCEPT !.pc = "create", !.s = NoStream, !.gen = generation + 1]
    <3>1. c \in Call /\ call' = [call EXCEPT ![t] = c] /\ c.pc = "create"
          /\ c.op = "start" /\ c.gen = generation + 1
          /\ generation' = generation + 1 /\ generation + 1 \in 0 .. MaxGen /\ lock' = lock
      <4>1. generation + 1 \in 0 .. MaxGen /\ NoStream \in StreamIds \cup {NoStream}
        BY <1>0, <1>1, <2>1
      <4>2. c \in Call /\ c.pc = "create" /\ c.op = "start" /\ c.gen = generation + 1
        BY <1>0, <2>1, <4>1 DEF Call, Pcs
      <4>3. call' = [call EXCEPT ![t] = c] /\ generation' = generation + 1 /\ lock' = lock
        BY <1>1, <2>1 DEF EndCancel
      <4> QED
        BY <4>1, <4>2, <4>3
    <3> HIDE DEF c
    <3>2. Moves(t, c)
      BY <1>0, <1>00, <1>1, <2>0, <2>1, <3>1 DEF Moves, SessionStates
    <3> QED
      BY <1>1, <2>1, <3>1, <3>2 DEF Works
  <2>2. CASE call[t].op # "start"
    <3> DEFINE c == [call[t] EXCEPT !.pc = "done", !.res = "ok"]
    <3>1. c \in Call /\ call' = [call EXCEPT ![t] = c] /\ c.pc = "done"
          /\ c.op = call[t].op /\ c.res = "ok"
          /\ generation' = generation /\ lock' = NoTask
      BY <1>0, <1>1, <2>2 DEF EndCancel, Leave, Call, Pcs, Results
    <3> HIDE DEF c
    <3>2. Moves(t, c)
      BY <1>0, <1>00, <1>1, <2>0, <2>2, <3>1 DEF Moves, SessionStates
    <3> QED
      BY <1>1, <2>0, <3>1, <3>2 DEF Works
  <2> QED
    BY <2>1, <2>2
<1>2. ASSUME NEW s \in StreamIds, RebuildOk(t, s) \/ CreateOk(t, s) PROVE \E c : Works(t, c)
  <2>1. PICK r \in {"ok", "rejected", "dropped"} : Leave(t, r)
    BY <1>0, <1>2 DEF RebuildOk, CreateOk, RecoveredResult, Ops
  <2> DEFINE c == [call[t] EXCEPT !.pc = "done", !.res = r]
  <2>2. c \in Call /\ call' = [call EXCEPT ![t] = c] /\ c.pc = "done" /\ c.op = call[t].op
        /\ c.res = r
        /\ c.gen = call[t].gen
    BY <1>0, <2>1 DEF Leave, Call, Pcs, Results
  <2>3. call[t].pc \in {"create", "rebuild", "last"} /\ generation' = generation /\ lock' = NoTask
        /\ closed' = closed /\ NewStream(s)
    BY <1>2, <2>1 DEF RebuildOk, CreateOk, Leave
  <2>4. made' \in 0 .. MaxStreams /\ stream' \in StreamIds /\ state' = "active"
        /\ genOf' \in [StreamIds -> 0 .. MaxGen]
    <3>1. made' = s /\ stream' = s /\ state' = "active" /\ genOf' = [genOf EXCEPT ![s] = generation]
      BY <2>3 DEF NewStream
    <3> QED
      BY <1>0, <1>00, <3>1, BoundsAssumption DEF StreamIds
  <2> HIDE DEF c
  <2>5. Moves(t, c)
    BY <1>0, <1>00, <2>2, <2>3, <2>4 DEF Moves, SessionStates, Rest
  <2> QED
    BY <1>0, <2>2, <2>3, <2>5 DEF Works
<1>3. CASE RebuildGiveUp(t)
  <2>1. PICK r \in {"unavailable", "ok", "rejected", "dropped"} : Leave(t, r)
    BY <1>0, <1>3 DEF RebuildGiveUp, RecoveredResult, Ops
  <2> DEFINE c == [call[t] EXCEPT !.pc = "done", !.res = r]
  <2>2. c \in Call /\ call' = [call EXCEPT ![t] = c] /\ c.pc = "done" /\ c.op = call[t].op
        /\ c.res = r
        /\ c.gen = call[t].gen
    BY <1>0, <2>1 DEF Leave, Call, Pcs, Results
  <2>3. call[t].pc = "last" /\ generation' = generation /\ lock' = NoTask
        /\ stream' = NoStream /\ state' = "idle"
        /\ made' = made /\ genOf' = genOf /\ closed' \subseteq StreamIds
    BY <1>0, <1>00, <1>3, <2>1 DEF RebuildGiveUp, Leave, AfterClose, GivenUp, Close
  <2> HIDE DEF c
  <2>4. Moves(t, c)
    BY <1>0, <1>00, <2>2, <2>3 DEF Moves, SessionStates, Rest
  <2> QED
    BY <1>0, <2>2, <2>3, <2>4 DEF Works
<1>4. ASSUME HandleError(t), lock \in {t, NoTask}, call[t].pc \in {"create",
             "error"} PROVE \E c : Works(t, c)
  <2> DEFINE c == [call[t] EXCEPT !.pc = "rebuild", !.s = NoStream, !.n = Retries]
  <2>1. c \in Call /\ call' = [call EXCEPT ![t] = c] /\ c.pc = "rebuild"
        /\ c.op = call[t].op /\ c.gen = call[t].gen
    <3>1. Retries \in 0 .. Retries /\ NoStream \in StreamIds \cup {NoStream}
      BY BoundsAssumption
    <3>2. c \in Call /\ c.pc = "rebuild" /\ c.op = call[t].op /\ c.gen = call[t].gen
      BY <1>0, <3>1 DEF Call, Pcs
    <3>3. call' = [call EXCEPT ![t] = c]
      BY <1>4 DEF HandleError
    <3> QED
      BY <3>2, <3>3
  <2>2. generation' = generation /\ lock' = t /\ stream' = NoStream /\ state' = "error_rebuild"
        /\ made' = made /\ genOf' = genOf /\ closed' \subseteq StreamIds
    BY <1>0, <1>00, <1>4 DEF HandleError, AfterClose, Close
  <2>3. call[t].op # "cancel" /\ (call[t].op = "start" => call[t].pc = "create")
    BY <1>0, <1>4
  <2> HIDE DEF c
  <2>4. Moves(t, c)
    BY <1>0, <1>00, <1>4, <2>1, <2>2, <2>3 DEF Moves, SessionStates
  <2> QED
    BY <1>4, <2>1, <2>4 DEF Works
<1>5. CASE EnterStart(t)
  <2>0. call[t].op = "start" /\ call[t].pc = "wait" /\ lock = NoTask /\ generation < MaxGen
    BY <1>5 DEF EnterStart, At, Free
  <2>1. CASE BeginCancel(t)
    <3> DEFINE c == [call[t] EXCEPT !.pc = "cancel", !.s = stream]
    <3>1. c \in Call /\ call' = [call EXCEPT ![t] = c] /\ c.pc = "cancel" /\ c.op = "start"
      BY <1>0, <2>0, <2>1 DEF BeginCancel, Call, Pcs
    <3>2. generation' = generation /\ lock' = t /\ stream' = NoStream /\ state' = "cancelling"
          /\ made' = made /\ genOf' = genOf /\ closed' = closed
      BY <2>1 DEF BeginCancel
    <3> HIDE DEF c
    <3>3. Moves(t, c)
      BY <1>0, <1>00, <2>0, <3>1, <3>2 DEF Moves, SessionStates
    <3> QED
      BY <2>0, <3>1, <3>3 DEF Works
  <2>2. CASE ~BeginCancel(t)
    <3> DEFINE c == [call[t] EXCEPT !.pc = "create", !.gen = generation + 1]
    <3>1. c \in Call /\ call' = [call EXCEPT ![t] = c] /\ c.pc = "create"
          /\ c.op = "start" /\ c.gen = generation + 1
      <4>1. generation + 1 \in 0 .. MaxGen
        BY <1>0, <2>0
      <4>2. c \in Call /\ c.pc = "create" /\ c.op = "start" /\ c.gen = generation + 1
        BY <1>0, <2>0, <4>1 DEF Call, Pcs
      <4>3. call' = [call EXCEPT ![t] = c]
        BY <1>5, <2>2 DEF EnterStart
      <4> QED
        BY <4>2, <4>3
    <3>2. generation' = generation + 1 /\ lock' = t /\ stream' = stream /\ state' = state
          /\ state \in Rest
          /\ made' = made /\ genOf' = genOf /\ closed' = closed
      BY <1>00, <1>5, <2>2 DEF EnterStart, SessionStates, Rest
    <3> HIDE DEF c
    <3>3. Moves(t, c)
      BY <1>0, <1>00, <2>0, <3>1, <3>2 DEF Moves, SessionStates
    <3> QED
      BY <2>0, <3>1, <3>3 DEF Works
  <2> QED
    BY <2>1, <2>2
<1> QED
  BY <1>0, <1>1, <1>2, <1>3, <1>4, <1>5 DEF CancelAck, CancelRestarted, CreateFail, EnterError, Free

\* The steps that take the lock for one look at the state.
LEMMA LookWorks ==
  ASSUME UsedInv, NEW t \in Tasks, EnterFinalize(t) \/ Commit(t) \/ EnterCancel(t)
  PROVE  \E c : Works(t, c)
<1> USE DEF Cancelling, Rebuilding, Holding, Begun, CancelPcs, StartPcs
<1>0. /\ call[t] \in Call /\ stream \in StreamIds \cup {NoStream} /\ generation \in 0 .. MaxGen
      /\ call[t].op \in Ops /\ MaxGen \in Nat /\ t # NoTask
      /\ call[t].op = "start" => t = "dispatcher" /\ call[t].pc \in StartPcs
      /\ call[t].op = "cancel" => call[t].pc \in CancelPcs
      /\ state \in Rest => stream = NoStream
  BY UsedTypes DEF UsedInv, Call
<1>00. /\ made \in 0 .. MaxStreams /\ genOf \in [StreamIds -> 0 .. MaxGen]
          /\ closed \subseteq StreamIds
       /\ state \in SessionStates
  BY UsedTypes
<1>1. CASE EnterFinalize(t)
  <2>0. call[t].op = "finalize" /\ call[t].pc = "wait" /\ lock = NoTask /\ lock' = lock
        /\ stream' = stream
        /\ generation' = generation /\ made' = made /\ genOf' = genOf /\ closed' = closed
    BY <1>1 DEF EnterFinalize, At, Free
  <2>1. CASE state = "active"
    <3> DEFINE c == [call[t] EXCEPT !.pc = "final", !.s = stream, !.gen = generation]
    <3>1. c \in Call /\ call' = [call EXCEPT ![t] = c] /\ c.pc = "final"
          /\ c.op = "finalize" /\ state' = "finalizing"
      BY <1>0, <1>1, <2>0, <2>1 DEF EnterFinalize, Call, Pcs
    <3> HIDE DEF c
    <3>2. Moves(t, c)
      BY <1>0, <1>00, <2>0, <3>1 DEF Moves, SessionStates, Rest
    <3> QED
      BY <2>0, <3>1, <3>2 DEF Works
  <2>2. CASE state # "active"
    <3> DEFINE c == [call[t] EXCEPT !.pc = "done", !.res = "rejected", !.gen = generation]
    <3>1. c \in Call /\ call' = [call EXCEPT ![t] = c] /\ c.pc = "done"
          /\ c.op = "finalize" /\ state' = state
          /\ c.res = "rejected"
      BY <1>0, <1>1, <2>0, <2>2 DEF EnterFinalize, Call, Pcs, Results
    <3> HIDE DEF c
    <3>2. Moves(t, c)
      BY <1>0, <1>00, <2>0, <3>1 DEF Moves
    <3> QED
      BY <2>0, <3>1, <3>2 DEF Works
  <2> QED
    BY <2>1, <2>2
<1>2. CASE Commit(t)
  <2>0. call[t].pc = "commit" /\ lock = NoTask /\ lock' = lock
        /\ generation' = generation /\ made' = made /\ genOf' = genOf
    BY <1>2 DEF Commit, Free
  <2>1. CASE StillWanted(t)
    <3> DEFINE c == [call[t] EXCEPT !.pc = "done", !.res = "accepted"]
    <3>1. c \in Call /\ call' = [call EXCEPT ![t] = c] /\ c.pc = "done"
          /\ c.op = call[t].op /\ state' = "idle"
          /\ c.gen = generation
      BY <1>0, <1>2, <2>0, <2>1 DEF Commit, StillWanted, Call, Pcs, Results
    <3>2. stream' = NoStream /\ closed' \subseteq StreamIds
      BY <1>0, <1>00, <1>2, <2>1 DEF Commit, AfterClose, Close
    <3>3. call[t].op # "cancel" /\ call[t].op # "start"
      BY <1>0, <2>0
    <3> HIDE DEF c
    <3>4. Moves(t, c)
      BY <1>0, <1>00, <2>0, <3>1, <3>2, <3>3 DEF Moves, SessionStates
    <3> QED
      BY <2>0, <3>1, <3>3, <3>4 DEF Works
  <2>2. CASE ~StillWanted(t)
    <3> DEFINE c == [call[t] EXCEPT !.pc = "done", !.res = "rejected"]
    <3>1. c \in Call /\ call' = [call EXCEPT ![t] = c] /\ c.pc = "done"
          /\ c.op = call[t].op /\ state' = state
          /\ c.res = "rejected" /\ stream' = stream /\ closed' = closed
      BY <1>0, <1>2, <2>0, <2>2 DEF Commit, Call, Pcs, Results
    <3>3. call[t].op # "cancel" /\ call[t].op # "start"
      BY <1>0, <2>0
    <3> HIDE DEF c
    <3>4. Moves(t, c)
      BY <1>0, <1>00, <2>0, <3>1, <3>3 DEF Moves
    <3> QED
      BY <2>0, <3>1, <3>3, <3>4 DEF Works
  <2> QED
    BY <2>1, <2>2
<1>3. CASE EnterCancel(t)
  <2>0. call[t].op = "cancel" /\ call[t].pc = "wait" /\ lock = NoTask
    BY <1>3 DEF EnterCancel, At, Free
  <2>1. CASE BeginCancel(t)
    <3> DEFINE c == [call[t] EXCEPT !.pc = "cancel", !.s = stream]
    <3>1. c \in Call /\ call' = [call EXCEPT ![t] = c] /\ c.pc = "cancel" /\ c.op = "cancel"
      BY <1>0, <2>0, <2>1 DEF BeginCancel, Call, Pcs
    <3>2. generation' = generation /\ lock' = t /\ stream' = NoStream /\ state' = "cancelling"
          /\ made' = made /\ genOf' = genOf /\ closed' = closed
      BY <2>1 DEF BeginCancel
    <3> HIDE DEF c
    <3>3. Moves(t, c)
      BY <1>0, <1>00, <2>0, <3>1, <3>2 DEF Moves, SessionStates
    <3> QED
      BY <2>0, <3>1, <3>3 DEF Works
  <2>2. CASE ~BeginCancel(t)
    <3> DEFINE c == [call[t] EXCEPT !.pc = "done", !.res = "ok"]
    <3>1. c \in Call /\ call' = [call EXCEPT ![t] = c] /\ c.pc = "done" /\ c.op = "cancel"
          /\ c.res = "ok"
      BY <1>0, <1>3, <2>0, <2>2 DEF EnterCancel, Call, Pcs, Results
    <3>2. generation' = generation /\ lock' = lock /\ stream' = NoStream
          /\ stream = NoStream /\ state' = "idle"
          /\ made' = made /\ genOf' = genOf /\ closed' = closed
      BY <1>0, <1>3, <2>2 DEF EnterCancel, Rest
    <3> HIDE DEF c
    <3>3. Moves(t, c)
      BY <1>0, <1>00, <2>0, <3>1, <3>2 DEF Moves, SessionStates
    <3> QED
      BY <2>0, <3>1, <3>2, <3>3 DEF Works
  <2> QED
    BY <2>1, <2>2
<1> QED
  BY <1>1, <1>2, <1>3

\* Whatever a task does inside the manager.
LEMMA WorkWorks ==
  ASSUME UsedInv, NEW t \in Tasks, Work(t)
  PROVE  \E c : Works(t, c)
BY LocalWorks, InsideWorks, LookWorks DEF Work

-----------------------------------------------------------------------------
(* The connection *)

\* A step inside the manager.
LEMMA WorkKeeps ==
  ASSUME ConnectionInv, NEW t \in Tasks, Manager(t)
  PROVE  ConnectionInv'
<1>0. /\ "dispatcher" \in Tasks /\ "out" \in Tasks /\ "handler" \in Tasks
      /\ t \in {"dispatcher", "out", "handler"}
  BY V2VAssumption
<1>1. PICK c : Works(t, c)
  BY WorkWorks DEF Manager, ConnectionInv
<1>2. /\ UsedInv' /\ call'[t] = c /\ \A u \in Tasks \ {t} : call'[u] = call[u]
      /\ generation' = generation \/ (t = "dispatcher" /\ c.op = "start" /\ c.pc \in Begun)
  BY <1>1, MovesKeep DEF Works, ConnectionInv
<1>3. /\ c.op = call[t].op /\ c.pc # "idle" /\ call[t].pc # "idle"
      /\ (c.pc = "done" /\ c.res = "accepted") => lock = NoTask /\ c.gen = generation'
      /\ (c.op = "cancel" /\ c.pc = "done") => state' = "idle"
      /\ (c.op = "start" /\ call[t].pc \in Begun) => c.pc \in Begun
  BY <1>1 DEF Works
<1>4. /\ \A u \in Tasks : call[u].pc # "done"
      /\ UNCHANGED <<flags, hpc, dpc, opc, cut>>
  BY DEF Manager, Settled, Returned, vvars
<1>5. ClosingInv'
  <2>1. CASE t = "handler"
    <3>1. hpc = "closing" /\ call[t].op = "cancel"
      BY <1>3, <2>1 DEF ConnectionInv, ClosingInv
    <3>2. call'["dispatcher"] = call["dispatcher"] /\ call'["out"] = call["out"]
      BY <1>0, <1>2, <2>1
    <3> QED
      BY <1>2, <1>3, <1>4, <2>1, <3>1, <3>2 DEF ConnectionInv, ClosingInv
  <2>2. CASE t = "out"
    <3>1. hpc \notin {"joined", "closing", "closed"}
      BY <1>3, <2>2 DEF ConnectionInv, ClosingInv
    <3>2. call'["dispatcher"] = call["dispatcher"] /\ call'["handler"] = call["handler"]
      BY <1>0, <1>2, <2>2
    <3> QED
      BY <1>4, <3>1, <3>2 DEF ConnectionInv, ClosingInv
  <2>3. CASE t = "dispatcher"
    <3>1. hpc \in {"run", "failed"}
      BY <1>3, <2>3 DEF ConnectionInv, ClosingInv
    <3>2. call'["out"] = call["out"] /\ call'["handler"] = call["handler"]
      BY <1>0, <1>2, <2>3
    <3> QED
      BY <1>4, <3>1, <3>2 DEF ConnectionInv, ClosingInv
  <2> QED
    BY <1>0, <2>1, <2>2, <2>3
<1>6. UtteranceInv'
  <2>1. CASE t = "dispatcher"
    <3>1. call'["out"] = call["out"] /\ call'["dispatcher"] = c /\ call["out"].pc # "done"
      BY <1>0, <1>2, <1>4, <2>1
    <3>2. Starting => Starting'
      BY <1>3, <2>1, <3>1 DEF Starting
    <3>3. ~Starting' => generation' = generation
      BY <1>2, <2>1, <3>1 DEF Starting
    <3> QED
      BY <1>3, <1>4, <2>1, <3>1, <3>2, <3>3 DEF ConnectionInv, UtteranceInv
  <2>2. CASE t # "dispatcher"
    <3>1. generation' = generation /\ call'["dispatcher"] = call["dispatcher"]
          /\ (Starting' <=> Starting)
      BY <1>0, <1>2, <2>2 DEF Starting
    <3>2. call'["out"].pc = "done" /\ call'["out"].res = "accepted" => t = "out"
      BY <1>0, <1>2, <1>4
    <3>3. ASSUME t = "out", c.pc = "done", c.res = "accepted"
          PROVE  /\ c.gen = generation' /\ hpc \in {"run", "failed"}
                 /\ ~Starting /\ call["dispatcher"].pc # "done"
      <4>1. lock = NoTask /\ call["dispatcher"].pc \notin Holding \cup {"done"}
        BY <1>0, <1>3, <1>4, <3>3, UsedTypes DEF ConnectionInv
      <4>2. ~Starting
        BY <4>1 DEF Starting, Begun, Holding, Rebuilding
      <4>3. hpc \in {"run", "failed"}
        BY <1>3, <3>3 DEF ConnectionInv, ClosingInv, Manager, Settled
      <4> QED
        BY <1>3, <3>3, <4>1, <4>2, <4>3
    <3> QED
      BY <1>2, <1>4, <3>1, <3>2, <3>3 DEF ConnectionInv, UtteranceInv
  <2> QED
    BY <2>1, <2>2
<1> QED
  BY <1>2, <1>5, <1>6 DEF ConnectionInv

\* The flags that the tasks write.
LEMMA FlagTypes ==
  ASSUME NEW f \in Flags
  PROVE  /\ f.active \in BOOLEAN /\ f.activeGen \in 0 .. MaxGen
         /\ NoEndpoint(f) \in Flags /\ TurnOver(f) \in Flags
         /\ NoEndpoint(f).active = f.active /\ NoEndpoint(f).activeGen = f.activeGen
         /\ TurnOver(f).active = FALSE
         /\ \A b \in BOOLEAN : [f EXCEPT !.active = b] \in Flags
            /\ [f EXCEPT !.active = b].active = b
         /\ \A r \in Reasons : /\ Endpoint(f, r) \in Flags
                               /\ Endpoint(f, r).active = f.active
                               /\ Endpoint(f, r).activeGen = f.activeGen
<1>1. f.active \in BOOLEAN /\ f.activeGen \in 0 .. MaxGen
  BY DEF Flags
<1>2. /\ NoEndpoint(f) \in Flags
      /\ NoEndpoint(f).active = f.active /\ NoEndpoint(f).activeGen = f.activeGen
  <2>1. 0 \in 0 .. MaxGen /\ "none" \in Reasons
    BY BoundsAssumption DEF Reasons
  <2> QED
    BY <2>1 DEF Flags, NoEndpoint
<1>3. TurnOver(f) \in Flags /\ TurnOver(f).active = FALSE
  BY DEF Flags, TurnOver
<1>4. ASSUME NEW b \in BOOLEAN
      PROVE  [f EXCEPT !.active = b] \in Flags /\ [f EXCEPT !.active = b].active = b
  BY DEF Flags
<1>5. ASSUME NEW r \in Reasons
      PROVE  /\ Endpoint(f, r) \in Flags
             /\ Endpoint(f, r).active = f.active /\ Endpoint(f, r).activeGen = f.activeGen
  <2>1. f.sessClosed \in BOOLEAN /\ (f.sessClosed \/ ~config.multi) \in BOOLEAN
    BY DEF Flags
  <2> DEFINE b == f.sessClosed \/ ~config.multi
  <2>2. Endpoint(f, r) = [f EXCEPT !.pending = r, !.pendingGen = f.activeGen, !.sessClosed = b]
    BY DEF Endpoint
  <2> HIDE DEF b
  <2>3. b \in BOOLEAN
    BY <2>1 DEF b
  <2> QED
    BY <1>1, <2>2, <2>3 DEF Flags
<1> QED
  BY <1>1, <1>2, <1>3, <1>4, <1>5

\* A step of the connection that is no step inside the manager and in which the handler
\* goes on: what it must keep.
Goes(t, c) ==
  /\ Moves(t, c) /\ generation' = generation /\ state' = state
  /\ flags' \in Flags
  /\ hpc' = hpc /\ cut' = cut
  /\ c.op = "start" <=> (t = "dispatcher" /\ dpc' = "starting")
  /\ t # "dispatcher" => (dpc' = dpc \/ (dpc # "starting" /\ dpc' # "starting"))
  /\ hpc \notin {"run", "failed"} => dpc' = dpc /\ t # "dispatcher"
  /\ hpc \in {"joined", "closing", "closed"} => opc' = opc /\ t # "out"
  /\ t # "handler"
  /\ c.pc \in {"idle", "wait"}
  /\ flags'.active => \/ /\ flags.active /\ flags'.activeGen = flags.activeGen
                         /\ t = "dispatcher" => ~Starting
                      \/ flags'.activeGen = generation
  /\ t = "dispatcher" => ~(call["out"].pc = "done" /\ call["out"].res = "accepted")

\* Such a step keeps the invariant.
LEMMA GoesKeep ==
  ASSUME ConnectionInv, NEW t \in Tasks, NEW c, Goes(t, c)
  PROVE  ConnectionInv'
<1>0. /\ "dispatcher" \in Tasks /\ "out" \in Tasks /\ "handler" \in Tasks
      /\ t \in {"dispatcher", "out"}
  BY V2VAssumption DEF Goes
<1>2. /\ UsedInv' /\ call'[t] = c /\ \A u \in Tasks \ {t} : call'[u] = call[u]
  BY MovesKeep DEF Goes, ConnectionInv
<1>3. call'["handler"] = call["handler"]
  BY <1>0, <1>2
<1>4. CASE t = "dispatcher"
  <2>1. call'["dispatcher"] = c /\ call'["out"] = call["out"] /\ ~Starting'
    BY <1>0, <1>2, <1>4 DEF Starting, Goes, Begun
  <2>2. ClosingInv'
    BY <1>3, <1>4, <2>1 DEF Goes, ConnectionInv, ClosingInv
  <2>3. UtteranceInv'
    BY <1>4, <2>1 DEF Goes, ConnectionInv, UtteranceInv
  <2> QED
    BY <1>2, <2>2, <2>3 DEF ConnectionInv
<1>5. CASE t = "out"
  <2>1. call'["out"] = c /\ call'["dispatcher"] = call["dispatcher"] /\ (Starting' <=> Starting)
    BY <1>0, <1>2, <1>5 DEF Starting
  <2>2. ClosingInv'
    BY <1>3, <1>5, <2>1 DEF Goes, ConnectionInv, ClosingInv
  <2>3. UtteranceInv'
    BY <1>5, <2>1 DEF Goes, ConnectionInv, UtteranceInv
  <2> QED
    BY <1>2, <2>2, <2>3 DEF ConnectionInv
<1> QED
  BY <1>0, <1>4, <1>5

\* A step in which nobody's call moves, nor the handler.
LEMMA StaysKeep ==
  ASSUME ConnectionInv, UNCHANGED <<mvars, hpc, cut>>, flags' \in Flags,
         dpc' = dpc \/ (dpc \notin {"starting", "end"} /\ dpc' # "starting"),
         opc' = opc \/ opc # "end",
         flags'.active => flags.active /\ flags'.activeGen = flags.activeGen
  PROVE  ConnectionInv'
<1>1. /\ lock' = lock /\ state' = state /\ stream' = stream /\ generation' = generation
      /\ call' = call /\ made' = made /\ genOf' = genOf /\ closed' = closed /\ hpc' = hpc
      /\ cut' = cut
  BY DEF mvars
<1>2. UsedInv'
  BY <1>1 DEF ConnectionInv, UsedInv, MTypeOK, LockInv
<1>3. ClosingInv'
  BY <1>1 DEF ConnectionInv, ClosingInv
<1>4. UtteranceInv'
  BY <1>1 DEF ConnectionInv, UtteranceInv, Starting
<1> QED
  BY <1>2, <1>3, <1>4 DEF ConnectionInv

\* The dispatcher.
LEMMA DispatcherKeeps ==
  ASSUME ConnectionInv, Dispatcher
  PROVE  ConnectionInv'
<1>0. /\ "dispatcher" \in Tasks /\ "out" \in Tasks /\ "dispatcher" # "out"
         /\ "dispatcher" # "handler"
      /\ flags \in Flags /\ UsedInv /\ {"start", "audio", "cancel"} \subseteq Ops
  BY V2VAssumption DEF ConnectionInv, UtteranceInv, Ops
<1>1. ASSUME dpc # "end" PROVE hpc \in {"run", "failed"}
  BY <1>1 DEF ConnectionInv, ClosingInv
<1>2. ASSUME Settled PROVE ~(call["out"].pc = "done" /\ call["out"].res = "accepted")
  BY <1>0, <1>2 DEF Settled, Returned
<1>3. ASSUME dpc # "starting" PROVE ~Starting
  BY <1>3 DEF ConnectionInv, UtteranceInv, Starting
<1>4. ASSUME dpc = "starting", call["dispatcher"].pc = "done"
      PROVE  /\ ~(call["out"].pc = "done" /\ call["out"].res = "accepted")
             /\ call["dispatcher"].gen = generation
  <2>1. Starting
    BY <1>4 DEF ConnectionInv, UtteranceInv, Starting, Begun
  <2> QED
    BY <1>0, <2>1 DEF ConnectionInv, UtteranceInv, UsedInv, Starting
<1>a. ASSUME call["dispatcher"].pc = "done"
      PROVE  ~(call["out"].pc = "done" /\ call["out"].res = "accepted")
  BY <1>a DEF ConnectionInv, UtteranceInv
<1>b. /\ Endpoint(flags, "vad") \in Flags /\ Endpoint(flags, "vad").active = flags.active
      /\ Endpoint(flags, "vad").activeGen = flags.activeGen
  <2>1. "vad" \in Reasons
    BY DEF Reasons
  <2> QED
    BY <1>0, <2>1, FlagTypes
<1>5. /\ NextFrame \in {"end", "recv"} /\ {"vad", "client_eos"} \subseteq Reasons
  BY DEF NextFrame, Reasons
<1>6. /\ NoCall.pc = "idle" /\ NoCall.op = "audio"
      /\ \A op \in Ops : NewCall(op).op = op /\ NewCall(op).pc = "wait"
      /\ \A op \in Ops : Invoke("dispatcher", op) => Moves("dispatcher", NewCall(op))
      /\ Return("dispatcher") => Moves("dispatcher", NoCall)
      /\ Abandon("out") => Moves("out", NoCall)
  BY <1>0, CallerSteps DEF Invoke, NewCall
<1>7. CASE DispatchStart
  <2>1. /\ dpc = "recv" /\ Settled /\ Invoke("dispatcher", "start") /\ dpc' = "starting"
        /\ UNCHANGED <<flags, opc, hpc, cut>>
    BY <1>7 DEF DispatchStart, Receiving
  <2>2. Goes("dispatcher", NewCall("start"))
    BY <1>0, <1>1, <1>2, <1>3, <1>6, <2>1 DEF Goes, Invoke
  <2> QED
    BY <1>0, <2>2, GoesKeep
<1>8. CASE DispatchStarted
  <2>1. /\ dpc = "starting" /\ call["dispatcher"].pc = "done" /\ dpc' = "feeding"
        /\ call' = [call EXCEPT !["dispatcher"] = NewCall("audio")]
        /\ UNCHANGED <<lock, state, stream, generation, made, genOf, closed, opc, hpc, cut>>
    BY <1>8 DEF DispatchStarted, NewCall
  <2>2. Moves("dispatcher", NewCall("audio"))
    BY <1>0, <2>1, CallerSteps
  <2>3. flags' \in Flags /\ flags'.activeGen = generation
    <3> DEFINE f == NoEndpoint(flags)
    <3>1. f \in Flags /\ call["dispatcher"].gen = generation /\ generation \in 0 .. MaxGen
      BY <1>0, <1>4, <2>1, FlagTypes, UsedTypes
    <3>2. flags' = [f EXCEPT !.active = TRUE, !.turn = TRUE, !.activeGen = call["dispatcher"].gen]
      BY <1>8 DEF DispatchStarted, TurnClock
    <3> HIDE DEF f
    <3> QED
      BY <3>1, <3>2 DEF Flags
  <2>4. Goes("dispatcher", NewCall("audio"))
    BY <1>0, <1>1, <1>4, <1>6, <2>1, <2>2, <2>3 DEF Goes
  <2> QED
    BY <1>0, <2>4, GoesKeep
<1>9. CASE DispatchUnavailable
  <2>1. /\ dpc = "starting" /\ call["dispatcher"].pc = "done" /\ dpc' = NextFrame
           /\ Return("dispatcher")
        /\ UNCHANGED <<opc, hpc, cut>>
    BY <1>9 DEF DispatchUnavailable, Return
  <2>2. flags' \in Flags /\ flags'.active = FALSE
    <3> DEFINE f == IF config.vad THEN NoEndpoint(flags) ELSE flags
    <3>1. f \in Flags /\ flags' = [f EXCEPT !.active = FALSE]
      BY <1>0, <1>9, FlagTypes DEF DispatchUnavailable
    <3> HIDE DEF f
    <3> QED
      BY <3>1, FlagTypes
  <2>3. Goes("dispatcher", NoCall)
    BY <1>0, <1>1, <1>4, <1>5, <1>6, <2>1, <2>2 DEF Goes, Return
  <2> QED
    BY <1>0, <2>3, GoesKeep
<1>10. ASSUME NEW end \in BOOLEAN, DispatchAudio(end) PROVE ConnectionInv'
  <2>1. dpc = "recv" /\ Settled /\ UNCHANGED <<opc, hpc, cut>>
    BY <1>10 DEF DispatchAudio, Receiving
  <2>2. CASE Invoke("dispatcher", "audio") /\ dpc' = "feeding" /\ UNCHANGED flags
    <3>1. Goes("dispatcher", NewCall("audio"))
      BY <1>0, <1>1, <1>2, <1>3, <1>6, <2>1, <2>2 DEF Goes, Invoke
    <3> QED
      BY <1>0, <3>1, GoesKeep
  <2>3. CASE ~(Invoke("dispatcher", "audio") /\ dpc' = "feeding" /\ UNCHANGED flags)
    <3>1. flags' \in {Endpoint(flags, "vad"), flags} /\ dpc' = NextFrame /\ UNCHANGED mvars
      BY <1>10, <2>3 DEF DispatchAudio
    <3>2. flags' \in Flags /\ flags'.active = flags.active /\ flags'.activeGen = flags.activeGen
      BY <1>0, <1>b, <3>1
    <3> QED
      BY <1>5, <2>1, <3>1, <3>2, StaysKeep
  <2> QED
    BY <2>2, <2>3
<1>11. CASE DispatchFed
  <2>1. /\ dpc = "feeding" /\ Return("dispatcher") /\ dpc' = NextFrame
        /\ UNCHANGED <<opc, hpc, cut>>
        /\ flags' \in {Endpoint(flags, "vad"), flags}
    BY <1>11 DEF DispatchFed
  <2>2. flags' \in Flags /\ flags'.active = flags.active /\ flags'.activeGen = flags.activeGen
    BY <1>0, <1>b, <2>1
  <2>3. Goes("dispatcher", NoCall)
    BY <1>0, <1>1, <1>3, <1>a, <1>5, <1>6, <2>1, <2>2 DEF Goes, Return
  <2> QED
    BY <1>0, <2>3, GoesKeep
<1>12. CASE DispatchEos
  <2>1. /\ dpc = "recv" /\ dpc' = NextFrame /\ UNCHANGED <<mvars, opc, hpc, cut>>
        /\ flags' = Endpoint(flags, "client_eos")
    BY <1>12 DEF DispatchEos, Receiving
  <2>2. flags' \in Flags /\ flags'.active = flags.active /\ flags'.activeGen = flags.activeGen
    BY <1>0, <1>5, <2>1, FlagTypes
  <2> QED
    BY <1>5, <2>1, <2>2, StaysKeep
<1>13. CASE DispatchAbort
  <2>1. /\ dpc = "recv" /\ Settled /\ Invoke("dispatcher", "cancel") /\ dpc' = "aborting"
        /\ UNCHANGED <<flags, opc, hpc, cut>>
    BY <1>13 DEF DispatchAbort, Receiving
  <2>2. Goes("dispatcher", NewCall("cancel"))
    BY <1>0, <1>1, <1>2, <1>3, <1>6, <2>1 DEF Goes, Invoke
  <2> QED
    BY <1>0, <2>2, GoesKeep
<1>14. CASE DispatchAborted
  <2>1. /\ dpc = "aborting" /\ Return("dispatcher") /\ dpc' = NextFrame
        /\ UNCHANGED <<opc, hpc, cut>>
        /\ flags' = TurnOver(flags)
    BY <1>14 DEF DispatchAborted
  <2>2. flags' \in Flags /\ flags'.active = FALSE
    BY <1>0, <2>1, FlagTypes
  <2>3. Goes("dispatcher", NoCall)
    BY <1>0, <1>1, <1>a, <1>5, <1>6, <2>1, <2>2 DEF Goes, Return
  <2> QED
    BY <1>0, <2>3, GoesKeep
<1>15. CASE Disconnect
  <2>1. /\ dpc = "recv" /\ Settled /\ Abandon("out") /\ dpc' = "end" /\ opc' = "end" /\ hpc' = hpc
        /\ cut' = cut
        /\ flags' = [flags EXCEPT !.clientClosed = TRUE]
    BY <1>15 DEF Disconnect, Receiving
  <2>2. flags' \in Flags /\ flags'.active = flags.active /\ flags'.activeGen = flags.activeGen
    BY <1>0, <2>1 DEF Flags
  <2>3. Goes("out", NoCall)
    BY <1>0, <1>1, <1>6, <2>1, <2>2 DEF Goes, Abandon
  <2> QED
    BY <1>0, <2>3, GoesKeep
<1>16. CASE SendFails
  <2>1. UNCHANGED <<mvars, dpc, opc, hpc, cut>> /\ flags' = [flags EXCEPT !.clientClosed = TRUE]
    BY <1>16 DEF SendFails
  <2>2. flags' \in Flags /\ flags'.active = flags.active /\ flags'.activeGen = flags.activeGen
    BY <1>0, <2>1 DEF Flags
  <2> QED
    BY <2>1, <2>2, StaysKeep
<1> QED
  BY <1>7, <1>8, <1>9, <1>10, <1>11, <1>12, <1>13, <1>14, <1>15, <1>16 DEF Dispatcher

\* asr_out_task.
LEMMA OutKeeps ==
  ASSUME ConnectionInv, OutTask
  PROVE  ConnectionInv'
<1>0. /\ "out" \in Tasks /\ "out" # "dispatcher" /\ "out" # "handler"
      /\ flags \in Flags /\ UsedInv /\ {"partial", "finalize", "cancel"} \subseteq Ops
  BY V2VAssumption DEF ConnectionInv, UtteranceInv, Ops
<1>1. ASSUME opc # "end" PROVE hpc \notin {"joined", "closing", "closed"}
  BY <1>1 DEF ConnectionInv, ClosingInv
<1>2. /\ NoCall.pc = "idle" /\ NoCall.op = "audio"
      /\ \A op \in Ops : NewCall(op).op = op /\ NewCall(op).pc = "wait"
      /\ \A op \in Ops : op # "start" /\ Invoke("out", op) => Moves("out", NewCall(op))
      /\ Return("out") => Moves("out", NoCall)
      /\ Abandon("out") => Moves("out", NoCall)
  BY <1>0, CallerSteps DEF Invoke, NewCall
<1>3. /\ NoEndpoint(flags) \in Flags /\ NoEndpoint(flags).active = flags.active
      /\ NoEndpoint(flags).activeGen = flags.activeGen
      /\ TurnOver(flags) \in Flags /\ TurnOver(flags).active = FALSE
  BY <1>0, FlagTypes
<1>4. ASSUME NEW op \in {"partial", "finalize", "cancel"}, Invoke("out", op), opc # "end",
             UNCHANGED <<flags, dpc, hpc, cut>>
      PROVE  ConnectionInv'
  <2>1. op \in Ops /\ op # "start"
    BY <1>0
  <2>2. Goes("out", NewCall(op))
    BY <1>0, <1>1, <1>2, <1>4, <2>1 DEF Goes, Invoke
  <2> QED
    BY <1>0, <2>2, GoesKeep
<1>5. ASSUME Return("out") \/ Abandon("out"), opc # "end", UNCHANGED <<dpc, hpc, cut>>,
             flags' \in Flags,
             flags'.active => flags.active /\ flags'.activeGen = flags.activeGen
      PROVE  ConnectionInv'
  <2>1. Goes("out", NoCall)
    BY <1>0, <1>1, <1>2, <1>5 DEF Goes, Return, Abandon
  <2> QED
    BY <1>0, <2>1, GoesKeep
<1>6. ASSUME UNCHANGED <<mvars, dpc, hpc, cut>>, opc # "end", flags' \in Flags,
             flags'.active => flags.active /\ flags'.activeGen = flags.activeGen
      PROVE  ConnectionInv'
  BY <1>6, StaysKeep
<1>7. CASE OutGone
  BY <1>0, <1>6, <1>7 DEF OutGone
<1>8. CASE OutDeadline
  BY <1>4, <1>8 DEF OutDeadline, Ticking
<1>9. CASE OutDeadlineStuck
  BY <1>0, <1>5, <1>9 DEF OutDeadlineStuck
<1>10. CASE OutDeadlineOver
  <2>1. flags' = NoEndpoint(TurnOver(flags)) /\ UNCHANGED <<dpc, hpc, cut>> /\ opc # "end"
    BY <1>10 DEF OutDeadlineOver
  <2>2. flags' \in Flags /\ flags'.active = FALSE
    <3> DEFINE f == TurnOver(flags)
    <3> HIDE DEF f
    <3>1. f \in Flags /\ f.active = FALSE /\ flags' = NoEndpoint(f)
      BY <1>3, <2>1 DEF f
    <3> QED
      BY <3>1, FlagTypes
  <2>3. Return("out") \/ UNCHANGED mvars
    BY <1>10 DEF OutDeadlineOver
  <2> QED
    BY <1>5, <1>6, <2>1, <2>2, <2>3
<1>11. CASE OutPoll
  <2>1. UNCHANGED <<flags, dpc, hpc, cut>> /\ opc # "end"
    BY <1>11 DEF OutPoll, Ticking
  <2>2. Invoke("out", "partial") \/ UNCHANGED mvars
    BY <1>11 DEF OutPoll
  <2> QED
    BY <1>0, <1>4, <1>6, <2>1, <2>2
<1>12. CASE OutPolled
  BY <1>0, <1>5, <1>12 DEF OutPolled
<1>13. CASE OutGate
  <2>1. UNCHANGED <<mvars, dpc, hpc, cut>> /\ opc # "end" /\ flags' \in {NoEndpoint(flags), flags}
    BY <1>13 DEF OutGate
  <2> QED
    BY <1>0, <1>3, <1>6, <2>1
<1>14. CASE OutFinalize
  BY <1>4, <1>14 DEF OutFinalize
<1>15. CASE OutEmptyFinal
  BY <1>0, <1>6, <1>15 DEF OutEmptyFinal
<1>16. CASE OutFinalized
  <2>1. Return("out") /\ UNCHANGED <<dpc, hpc, cut>> /\ opc # "end"
        /\ flags' \in {TurnOver(flags), flags}
    BY <1>16 DEF OutFinalized, ClearFinalized
  <2> QED
    BY <1>0, <1>3, <1>5, <2>1
<1> QED
  BY <1>7, <1>8, <1>9, <1>10, <1>11, <1>12, <1>13, <1>14, <1>15, <1>16 DEF OutTask

\* The handler.
LEMMA HandlerKeeps ==
  ASSUME ConnectionInv, Handler
  PROVE  ConnectionInv'
<1>0. /\ "dispatcher" \in Tasks /\ "out" \in Tasks /\ "handler" \in Tasks
      /\ "out" # "dispatcher" /\ "out" # "handler" /\ "dispatcher" # "handler"
      /\ flags \in Flags /\ UsedInv /\ "cancel" \in Ops
  BY V2VAssumption DEF ConnectionInv, UtteranceInv, Ops
<1>1. NoCall.pc = "idle" /\ NoCall.op = "audio" /\ NewCall("cancel").op = "cancel"
      /\ NewCall("cancel").pc = "wait"
  BY <1>0, CallerSteps
<1>2. CASE TtsEnds
  BY <1>0, <1>2, StaysKeep DEF TtsEnds
<1>3. CASE TtsFails
  <2>1. /\ lock' = lock /\ state' = state /\ stream' = stream /\ generation' = generation
        /\ call' = call /\ made' = made /\ genOf' = genOf /\ closed' = closed /\ flags' = flags
        /\ dpc' = dpc /\ opc' = opc /\ hpc = "run" /\ hpc' = "failed" /\ cut' = cut
    BY <1>3 DEF TtsFails, mvars
  <2>2. UsedInv'
    BY <2>1 DEF ConnectionInv, UsedInv, MTypeOK, LockInv
  <2>3. ClosingInv'
    BY <2>1 DEF ConnectionInv, ClosingInv
  <2>4. UtteranceInv'
    BY <2>1 DEF ConnectionInv, UtteranceInv, Starting
  <2> QED
    BY <2>2, <2>3, <2>4 DEF ConnectionInv
<1>4. CASE Teardown
  <2>1. /\ Settled /\ Abandon("dispatcher") /\ dpc' = "end" /\ hpc' = "joining"
           /\ UNCHANGED <<flags, opc, cut>>
        /\ hpc \in {"run", "failed"}
    BY <1>4 DEF Teardown
  <2>2. UsedInv' /\ call'["dispatcher"] = NoCall
        /\ \A u \in Tasks \ {"dispatcher"} : call'[u] = call[u]
    BY <1>0, <2>1, CallerSteps, MovesKeep
  <2>3. call'["out"] = call["out"] /\ call'["handler"] = call["handler"] /\ call["out"].pc # "done"
    BY <1>0, <2>1, <2>2 DEF Settled, Returned
  <2>4. ClosingInv'
    BY <1>1, <2>1, <2>2, <2>3 DEF ConnectionInv, ClosingInv
  <2>5. UtteranceInv'
    BY <1>0, <1>1, <2>1, <2>2, <2>3 DEF ConnectionInv, UtteranceInv
  <2> QED
    BY <2>2, <2>4, <2>5 DEF ConnectionInv
<1>5. CASE JoinWork
  <2>1. /\ Abandon("out") /\ opc' = "end" /\ hpc = "joining" /\ hpc' = "joined"
           /\ UNCHANGED <<flags, dpc, cut>>
    BY <1>5 DEF JoinWork
  <2>2. UsedInv' /\ call'["out"] = NoCall /\ \A u \in Tasks \ {"out"} : call'[u] = call[u]
    BY <1>0, <2>1, CallerSteps, MovesKeep
  <2>3. call'["dispatcher"] = call["dispatcher"] /\ call'["handler"] = call["handler"]
    BY <1>0, <2>2
  <2>4. ClosingInv'
    BY <1>1, <2>1, <2>2, <2>3 DEF ConnectionInv, ClosingInv
  <2>5. UtteranceInv'
    BY <1>0, <1>1, <2>1, <2>2, <2>3 DEF ConnectionInv, UtteranceInv
  <2> QED
    BY <2>2, <2>4, <2>5 DEF ConnectionInv
<1>6. CASE CancelSession
  <2>1. /\ Invoke("handler", "cancel") /\ hpc = "joined" /\ hpc' = "closing"
           /\ UNCHANGED <<flags, dpc, opc, cut>>
    BY <1>6 DEF CancelSession, CancelOnClose
  <2>2. Moves("handler", NewCall("cancel"))
    BY <1>0, <2>1, CallerSteps DEF Invoke, NewCall
  <2>3. UsedInv' /\ call'["handler"] = NewCall("cancel")
        /\ \A u \in Tasks \ {"handler"} : call'[u] = call[u]
    BY <1>0, <2>2, MovesKeep
  <2>4. call'["dispatcher"] = call["dispatcher"] /\ call'["out"] = call["out"]
    BY <1>0, <2>3
  <2>5. ClosingInv'
    BY <1>1, <2>1, <2>3, <2>4 DEF ConnectionInv, ClosingInv
  <2>6. UtteranceInv'
    BY <1>0, <1>1, <2>1, <2>4 DEF ConnectionInv, UtteranceInv, ClosingInv
  <2> QED
    BY <2>3, <2>5, <2>6 DEF ConnectionInv
<1>7. CASE Closed
  <2>1. /\ Return("handler") /\ hpc = "closing" /\ hpc' = "closed"
        /\ UNCHANGED <<flags, dpc, opc, cut>>
    BY <1>7 DEF Closed
  <2>2. UsedInv' /\ call'["handler"] = NoCall /\ \A u \in Tasks \ {"handler"} : call'[u] = call[u]
    BY <1>0, <2>1, CallerSteps, MovesKeep
  <2>3. call'["dispatcher"] = call["dispatcher"] /\ call'["out"] = call["out"]
    BY <1>0, <2>2
  <2>4. call["handler"].pc = "done" /\ state' = state
    BY <2>1 DEF Return
  <2>5. ClosingInv'
    BY <1>1, <2>1, <2>2, <2>3, <2>4 DEF ConnectionInv, ClosingInv
  <2>6. UtteranceInv'
    BY <1>0, <1>1, <2>1, <2>3 DEF ConnectionInv, UtteranceInv, ClosingInv
  <2> QED
    BY <2>2, <2>5, <2>6 DEF ConnectionInv
<1>8. CASE HandlerCancelled
  <2>1. CASE hpc = "run"
    <3>1. /\ Abandon("out") /\ opc' = "end" /\ hpc' \in {"run", "failed"} /\ cut' = cut
          /\ UNCHANGED <<flags, dpc>>
      BY <1>8, <2>1 DEF HandlerCancelled
    <3>2. UsedInv' /\ call'["out"] = NoCall /\ \A u \in Tasks \ {"out"} : call'[u] = call[u]
      BY <1>0, <3>1, CallerSteps, MovesKeep
    <3>3. call'["dispatcher"] = call["dispatcher"] /\ call'["handler"] = call["handler"]
      BY <1>0, <3>2
    <3>4. ClosingInv'
      BY <1>1, <2>1, <3>1, <3>2, <3>3 DEF ConnectionInv, ClosingInv
    <3>5. generation' = generation /\ (Starting' <=> Starting)
      BY <3>1, <3>3 DEF Abandon, Starting
    <3>6. UtteranceInv'
      BY <1>0, <1>1, <2>1, <3>1, <3>2, <3>3, <3>5 DEF ConnectionInv, UtteranceInv
    <3> QED
      BY <3>2, <3>4, <3>6 DEF ConnectionInv
  <2>2. CASE hpc = "joined"
    <3>1. /\ lock' = lock /\ state' = state /\ stream' = stream /\ generation' = generation
          /\ call' = call /\ made' = made /\ genOf' = genOf /\ closed' = closed
          /\ flags' = flags /\ dpc' = dpc /\ opc' = opc /\ hpc' = "closed" /\ cut'
      BY <1>8, <2>2 DEF HandlerCancelled, mvars
    <3>2. UsedInv'
      BY <3>1 DEF ConnectionInv, UsedInv, MTypeOK, LockInv
    <3>3. ClosingInv'
      BY <2>2, <3>1 DEF ConnectionInv, ClosingInv
    <3>4. UtteranceInv'
      BY <2>2, <3>1 DEF ConnectionInv, UtteranceInv, Starting
    <3> QED
      BY <3>2, <3>3, <3>4 DEF ConnectionInv
  <2>3. CASE hpc = "closing"
    <3>1. /\ Abandon("handler") /\ hpc' = "closed" /\ cut' /\ UNCHANGED <<flags, dpc, opc>>
      BY <1>8, <2>3 DEF HandlerCancelled
    <3>2. UsedInv' /\ call'["handler"] = NoCall
          /\ \A u \in Tasks \ {"handler"} : call'[u] = call[u]
      BY <1>0, <3>1, CallerSteps, MovesKeep
    <3>3. call'["dispatcher"] = call["dispatcher"] /\ call'["out"] = call["out"]
      BY <1>0, <3>2
    <3>4. ClosingInv'
      BY <1>1, <2>3, <3>1, <3>2, <3>3 DEF ConnectionInv, ClosingInv
    <3>5. UtteranceInv'
      BY <1>0, <1>1, <2>3, <3>1, <3>3 DEF ConnectionInv, UtteranceInv, ClosingInv
    <3> QED
      BY <3>2, <3>4, <3>5 DEF ConnectionInv
  <2> QED
    BY <1>8, <2>1, <2>2, <2>3 DEF HandlerCancelled
<1> QED
  BY <1>2, <1>3, <1>4, <1>5, <1>6, <1>7, <1>8 DEF Handler, Closing

\* The invariant holds at the start, and every step keeps it.
LEMMA ConnectionStart ==
  ASSUME Init
  PROVE  ConnectionInv
<1>0. "dispatcher" \in Tasks /\ "out" \in Tasks /\ "handler" \in Tasks
  BY V2VAssumption
<1>1. /\ NoCall \in Call /\ NoCall.pc = "idle" /\ NoCall.op = "audio"
      /\ call = [t \in Tasks |-> NoCall]
  BY BoundsAssumption DEF Init, MInit, NoCall, Call, Ops, Pcs, Results, NoStream
<1>2. \A t \in Tasks : call[t] = NoCall
  BY <1>1
<1>3. UsedInv
  <2>1. MTypeOK
    BY <1>1, BoundsAssumption DEF Init, MInit, MTypeOK, SessionStates
  <2>2. LockInv
    BY <1>1, <1>2, TasksAssumption DEF Init, MInit, LockInv, Holding, Cancelling, Rebuilding, NoTask
  <2> QED
    BY <1>1, <1>2, <2>1, <2>2 DEF UsedInv, Init, MInit, Holding, Cancelling, Rebuilding
<1>4. ClosingInv
  BY <1>0, <1>1, <1>2 DEF ClosingInv, Init
<1>5. UtteranceInv
  <2>1. 0 \in 0 .. MaxGen /\ "none" \in Reasons
    BY BoundsAssumption DEF Reasons
  <2>2. flags \in Flags /\ flags.active = FALSE
    BY <2>1 DEF Init, Flags
  <2> QED
    BY <1>0, <1>1, <1>2, <2>2 DEF UtteranceInv, Init
<1> QED
  BY <1>3, <1>4, <1>5 DEF ConnectionInv

\* Every step of the connection keeps the invariant.
LEMMA ConnectionStep ==
  ASSUME ConnectionInv, [Next]_vars
  PROVE  ConnectionInv'
<1>1. CASE UNCHANGED vars
  BY <1>1, StaysKeep DEF vars, vvars, ConnectionInv, UtteranceInv
<1>2. CASE Next
  BY <1>2, WorkKeeps, DispatcherKeeps, OutKeeps, HandlerKeeps DEF Next
<1> QED
  BY <1>1, <1>2

\* However a /v2v/stream connection ends, its manager is at rest: the finally block of
\* v2v_stream() joins the dispatcher and asr_out_task before it cancels the session.  The
\* one exception is a reload whose cancellation meets that clean-up itself.
THEOREM ClosedCorrect == Spec => []ClosedIsIdle
<1>1. ConnectionInv => ClosedIsIdle
  BY DEF ConnectionInv, ClosingInv, UsedInv, ClosedIsIdle, Rest
<1> QED
  BY <1>1, ConnectionStart, ConnectionStep, PTL DEF Spec

\* An accepted final never ends a newer utterance: asr_out_task's asr_active is of the
\* generation that finalize_with_status() accepted.
THEOREM FinalKeepsCorrect == Spec => FinalKeepsNewUtterance
<1>1. ASSUME ConnectionInv, [Next]_vars
      PROVE  [(opc = "finalizing" /\ opc' # opc /\ flags.active /\ ~flags'.active) =>
                 call["out"].gen = flags.activeGen]_vars
  <2>1. SUFFICES ASSUME Next, opc = "finalizing", opc' # opc, flags.active, ~flags'.active
                 PROVE  call["out"].gen = flags.activeGen
    BY <1>1
  <2>2. CASE OutFinalized
    <3>1. call["out"].pc = "done" /\ call["out"].res = "accepted"
      BY <2>1, <2>2 DEF OutFinalized, Return
    <3> QED
      BY <1>1, <2>1, <3>1 DEF ConnectionInv, UtteranceInv
  <2>3. CASE OutTask /\ ~OutFinalized
    BY <2>1, <2>3
    DEF OutTask, OutGone, OutDeadline, OutDeadlineStuck, OutDeadlineOver, OutPoll, OutPolled,
        OutGate, OutFinalize, OutEmptyFinal, Ticking
  <2>4. CASE Dispatcher
    <3>1. CASE Disconnect
      <4>1. flags' = [flags EXCEPT !.clientClosed = TRUE] /\ flags \in Flags
        BY <1>1, <3>1 DEF Disconnect, ConnectionInv, UtteranceInv
      <4> QED
        BY <2>1, <4>1 DEF Flags
    <3>2. CASE ~Disconnect
      BY <2>1, <2>4, <3>2
      DEF Dispatcher, DispatchStart, DispatchStarted, DispatchUnavailable, DispatchAudio,
          DispatchFed, DispatchEos, DispatchAbort, DispatchAborted, SendFails
    <3> QED
      BY <3>1, <3>2
  <2>5. CASE Handler
    BY <2>1, <2>5
    DEF Handler, TtsEnds, TtsFails, HandlerCancelled, Closing, Teardown, JoinWork, CancelSession,
        Closed
  <2>6. CASE \E t \in Tasks : Manager(t)
    BY <2>1, <2>6 DEF Manager, vvars
  <2> QED
    BY <2>1, <2>2, <2>3, <2>4, <2>5, <2>6 DEF Next
<1> QED
  BY <1>1, ConnectionStart, ConnectionStep, PTL DEF Spec, FinalKeepsNewUtterance

=============================================================================
