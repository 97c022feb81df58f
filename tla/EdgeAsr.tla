------------------------------ MODULE EdgeAsr ------------------------------
(***************************************************************************)
(* app/backends/jetson/trt_edge_llm_asr.py: the ASR worker process, the      *)
(* streams that talk to it and restart_worker(), which takes no lock the     *)
(* requests take.  The multiplexer (WorkerIO, concurrency 1) is here only    *)
(* its semaphore and its _closed flag.                                       *)
(*                                                                           *)
(* A streaming stream is a session of the worker: begin, chunks, and a last  *)
(* chunk or an end; an accumulating one sends one-shot requests in           *)
(* finalize().  Each stream is used by one thread at a time; a cancel sends  *)
(* its end on a thread of its own and waits for half a second.               *)
(*                                                                           *)
(* The worker is external.  It has one session, answers a begin that finds   *)
(* another one and an event without its session with an error, may answer a  *)
(* one-shot request with an error event, may stop answering, and may die.    *)
(***************************************************************************)
EXTENDS Naturals, FiniteSets

CONSTANTS
  Streams,     \* streams made with create_stream()
  Accumulate,  \* the ones that collect audio until finalize()
  MaxStart     \* bound: worker processes started

ASSUME AsrStreams == IsFiniteSet(Streams) /\ Accumulate \subseteq Streams
ASSUME AsrMaxStart == MaxStart \in Nat \ {0}

VARIABLES
  aUp,       \* _ready
  aWorker,   \* _worker
  aIo,       \* the process _wio is bound to, NoProc, or NoStdin
  aLock,     \* the thread that holds _worker_lock
  aAlive,    \* the processes that run
  aStarted,  \* processes started so far
  aClosed,   \* the processes whose multiplexer has been closed
  aKill,     \* the process restart_worker() is about to kill
  aSess,     \* each process's session
  aSt,       \* each stream: absent, open, cancelled, closed
  aPc,       \* where each thread's worker request is
  aEv,       \* the event it sends
  aUse       \* the multiplexer it goes through

aVars == <<aUp, aWorker, aIo, aLock, aAlive, aStarted, aClosed, aKill, aSess, aSt,
           aPc, aEv, aUse>>
aProc == <<aAlive, aStarted, aClosed, aSess>>

NoProc == 0
NoStdin == MaxStart + 1        \* WorkerIO(None)
AProcs == 1 .. MaxStart
Nobody == "nobody"
NoThread == <<Nobody, "use">>
\* The thread that uses a stream, and the one its cancel submits the end to.
Threads == Streams \X {"use", "cancel"}
Busy == {"write", "run", "over"}
Stream(t) == t[1]

AInit ==
  /\ aUp = FALSE /\ aWorker = NoProc /\ aIo = NoProc /\ aLock = NoThread
  /\ aAlive = {} /\ aStarted = 0 /\ aClosed = {} /\ aKill = NoProc
  /\ aSess = [p \in AProcs |-> Nobody]
  /\ aSt = [s \in Streams |-> "absent"]
  /\ aPc = [t \in Threads |-> "idle"]
  /\ aEv = [t \in Threads |-> "none"]
  /\ aUse = [t \in Threads |-> NoProc]

ATo(t, p) == aPc' = [aPc EXCEPT ![t] = p]
ALive == aWorker # NoProc /\ aWorker \in aAlive

\* _worker_request() and _transcribe_worker(): send event e on thread t.
Request(t, e) ==
  /\ aPc[t] = "idle"
  /\ ATo(t, "gate")
  /\ aEv' = [aEv EXCEPT ![t] = e]

\* The request is over: what the caller makes of its outcome.  An error of a
\* begin is an error of create_stream(); any other one ends the stream for
\* its user, and finalize() of an accumulating stream goes on without the
\* segment.
Outcome(t, ok) ==
  LET s == Stream(t) IN
  /\ ATo(t, "idle")
  /\ aEv' = [aEv EXCEPT ![t] = "none"]
  /\ aUse' = [aUse EXCEPT ![t] = NoProc]
  /\ aSt' = CASE ~ok /\ aEv[t] = "begin" -> [aSt EXCEPT ![s] = "absent"]
              [] ok /\ aEv[t] = "begin" -> [aSt EXCEPT ![s] = "open"]
              [] ok /\ aEv[t] \in {"last", "end"} -> [aSt EXCEPT ![s] = "closed"]
              [] OTHER -> aSt

-----------------------------------------------------------------------------
(* The worker process. *)

\* preload(): the files are there, the worker starts (and is warmed with
\* one-shot requests, whose failures are ignored).
APreload ==
  /\ ~aUp /\ aWorker = NoProc /\ aStarted < MaxStart
  /\ aLock = NoThread
  /\ aStarted' = aStarted + 1
  /\ \/ aAlive' = aAlive \cup {aStarted + 1} /\ aUp' = TRUE
        /\ aWorker' = aStarted + 1 /\ aIo' = aStarted + 1
     \/ aWorker' = aStarted + 1 /\ UNCHANGED <<aAlive, aUp, aIo>>
  /\ UNCHANGED <<aLock, aClosed, aKill, aSess, aSt, aPc, aEv, aUse>>

\* restart_worker(), up to wio.close(): no _worker_lock, so at any moment of
\* another thread's start; _restart_lock admits one at a time.  unload() is
\* the same, and ends the instance.
RestartWorker(down) ==
  /\ aKill = NoProc
  /\ aWorker # NoProc
  /\ aKill' = aWorker
  /\ aWorker' = NoProc
  /\ aIo' = NoProc
  /\ aClosed' = IF aIo \in AProcs THEN aClosed \cup {aIo} ELSE aClosed
  /\ aUp' = (aUp /\ ~down)
  /\ UNCHANGED <<aLock, aAlive, aStarted, aSess, aSt, aPc, aEv, aUse>>

\* worker.kill() and the pipes.
KillWorker ==
  /\ aKill # NoProc
  /\ aAlive' = aAlive \ {aKill}
  /\ aKill' = NoProc
  /\ UNCHANGED <<aUp, aWorker, aIo, aLock, aStarted, aClosed, aSess, aSt, aPc, aEv, aUse>>

\* with _worker_lock: _ensure_worker(), its early return or its Popen.
AGate(t) ==
  /\ aPc[t] = "gate"
  /\ aLock = NoThread
  /\ aLock' = t
  /\ \/ ALive /\ ATo(t, "take") /\ UNCHANGED <<aWorker, aAlive, aStarted>>
     \/ /\ ~ALive
        /\ aStarted < MaxStart
        /\ aStarted' = aStarted + 1
        /\ aWorker' = aStarted + 1
        /\ aAlive' = aAlive \cup {aStarted + 1}
        /\ ATo(t, "start")
  /\ UNCHANGED <<aUp, aIo, aClosed, aKill, aSess, aSt, aEv, aUse>>

\* The ready line, and WorkerIO(self._worker, 1).
AReady(t) ==
  /\ aPc[t] = "start"
  /\ aStarted \in aAlive
  /\ aIo' = IF aWorker = NoProc THEN NoStdin ELSE aWorker
  /\ ATo(t, "take")
  /\ UNCHANGED <<aUp, aWorker, aLock, aProc, aKill, aSt, aEv, aUse>>

\* EOF instead of it.
AStartFails(t) ==
  /\ aPc[t] = "start"
  /\ aStarted \notin aAlive
  /\ aLock' = NoThread
  /\ Outcome(t, FALSE)
  /\ UNCHANGED <<aUp, aWorker, aIo, aProc, aKill>>

\* wio = self._wio, which a restart may have cleared since: the assertion.
ATake(t) ==
  /\ aPc[t] = "take"
  /\ aLock' = NoThread
  /\ IF aIo = NoProc
     THEN Outcome(t, FALSE)
     ELSE ATo(t, "queue") /\ aUse' = [aUse EXCEPT ![t] = aIo] /\ UNCHANGED <<aEv, aSt>>
  /\ UNCHANGED <<aUp, aWorker, aIo, aProc, aKill>>

\* Semaphore(1).
AAdmit(t) ==
  /\ aPc[t] = "queue"
  /\ \A u \in Threads : aUse[u] = aUse[t] => aPc[u] \notin Busy
  /\ ATo(t, "write")
  /\ UNCHANGED <<aUp, aWorker, aIo, aLock, aProc, aKill, aSt, aEv, aUse>>

\* The line is written to a process that lives and whose multiplexer is open.
AWrite(t) ==
  /\ aPc[t] = "write"
  /\ aUse[t] \in aAlive \ aClosed
  /\ ATo(t, "run")
  /\ UNCHANGED <<aUp, aWorker, aIo, aLock, aProc, aKill, aSt, aEv, aUse>>

\* WorkerIO(None).stdin: an AttributeError nobody handles.
AWriteNowhere(t) ==
  /\ aPc[t] = "write"
  /\ aUse[t] = NoStdin
  /\ Outcome(t, FALSE)
  /\ UNCHANGED <<aUp, aWorker, aIo, aLock, aProc, aKill>>

\* WorkerExitError or a broken pipe: _worker is cleared, whatever it is now.
ASeesExit(t) ==
  /\ aPc[t] \in {"write", "run", "over"}
  /\ aUse[t] \in AProcs /\ aUse[t] \notin aAlive \ aClosed
  /\ aWorker' = NoProc
  /\ Outcome(t, FALSE)
  /\ UNCHANGED <<aUp, aIo, aLock, aProc, aKill>>

\* The worker's answer to one line.  _classify_worker_response() turns an
\* error into an exception.
Answer(t) ==
  LET s == Stream(t)  p == aUse[t]
      ok == CASE aEv[t] = "begin" -> aSess[p] = Nobody
              [] aEv[t] = "oneshot" -> TRUE
              [] OTHER -> aSess[p] = s
  IN
  /\ aPc[t] = "run" /\ aEv[t] # "oneshot"
  /\ p \in aAlive \ aClosed
  /\ Outcome(t, ok)
  /\ aSess' = [aSess EXCEPT ![p] = IF ~ok THEN @
                                   ELSE CASE aEv[t] = "begin" -> s
                                          [] aEv[t] \in {"last", "end"} -> Nobody
                                          [] OTHER -> @]
  /\ UNCHANGED <<aUp, aWorker, aIo, aLock, aAlive, aStarted, aClosed, aKill>>

\* A one-shot request: request() returns on "done"; an "error" event is read
\* and the loop waits for a terminal one.
AnswerOneshot(t) ==
  /\ aPc[t] = "run" /\ aEv[t] = "oneshot"
  /\ aUse[t] \in aAlive \ aClosed
  /\ \/ Outcome(t, TRUE)
     \/ ATo(t, "over") /\ UNCHANGED <<aSt, aEv, aUse>>
  /\ UNCHANGED <<aUp, aWorker, aIo, aLock, aProc, aKill>>

\* q.get(timeout=60): queue.Empty.
ATimeout(t) ==
  /\ aPc[t] \in {"run", "over"}
  /\ Outcome(t, FALSE)
  /\ UNCHANGED <<aUp, aWorker, aIo, aLock, aProc, aKill>>

ADie(p) ==
  /\ p \in aAlive
  /\ aAlive' = aAlive \ {p}
  /\ UNCHANGED <<aUp, aWorker, aIo, aLock, aStarted, aClosed, aKill, aSess, aSt, aPc, aEv, aUse>>

-----------------------------------------------------------------------------
(* A stream and its user. *)

Idle(s) == aPc[<<s, "use">>] = "idle"
stay == <<aUp, aWorker, aIo, aLock, aProc, aKill, aUse>>

\* create_stream(): a streaming stream begins its session in __init__.
CreateStream(s) ==
  /\ aUp /\ aSt[s] = "absent" /\ Idle(s)
  /\ IF s \in Accumulate
     THEN aSt' = [aSt EXCEPT ![s] = "open"] /\ UNCHANGED <<aPc, aEv>>
     ELSE Request(<<s, "use">>, "begin") /\ UNCHANGED aSt
  /\ UNCHANGED stay

\* accept_waveform(): a chunk request whenever a hop of audio is full; an
\* accumulating stream only keeps the audio (no request, no step here).
AcceptWaveform(s) ==
  /\ aSt[s] = "open" /\ s \notin Accumulate
  /\ Request(<<s, "use">>, "chunk")
  /\ UNCHANGED <<aSt, stay>>

\* finalize(): the last chunk, or an end when there is no audio.
FinalizeStream(s) ==
  /\ aSt[s] = "open" /\ s \notin Accumulate
  /\ \E e \in {"last", "end"} : Request(<<s, "use">>, e)
  /\ UNCHANGED <<aSt, stay>>

\* transcribe(), of a segment of an accumulating stream's finalize() or of an
\* upload: the mel spectrogram (too long: an error instead of this step), then
\* a one-shot request.
Transcribe(s) ==
  /\ aSt[s] = "open" /\ s \in Accumulate
  /\ Request(<<s, "use">>, "oneshot")
  /\ UNCHANGED <<aSt, stay>>

\* finalize() of an accumulating stream joins the texts of the segments that
\* did not fail, and returns.
FinalizeReturns(s) ==
  /\ aSt[s] = "open" /\ s \in Accumulate /\ Idle(s)
  /\ aSt' = [aSt EXCEPT ![s] = "closed"]
  /\ UNCHANGED <<aPc, aEv, stay>>

\* cancel_and_finalize(): the end goes to a thread of its own.
CancelStream(s) ==
  /\ aSt[s] = "open" /\ Idle(s)
  /\ IF s \in Accumulate
     THEN aSt' = [aSt EXCEPT ![s] = "closed"] /\ UNCHANGED <<aPc, aEv>>
     ELSE aSt' = [aSt EXCEPT ![s] = "cancelled"] /\ Request(<<s, "cancel">>, "end")
  /\ UNCHANGED stay

\* Half a second is over (the thread is left behind) or the end has failed.
CancelReturns(s) ==
  /\ aSt[s] = "cancelled"
  /\ aSt' = [aSt EXCEPT ![s] = "closed"]
  /\ UNCHANGED <<aPc, aEv, stay>>

\* /asr/stream after a disconnect: close() is ASRStream's no-op; the worker
\* keeps the session.
DropStream(s) ==
  /\ aSt[s] = "open" /\ Idle(s)
  /\ aSt' = [aSt EXCEPT ![s] = "closed"]
  /\ UNCHANGED <<aPc, aEv, stay>>

\* The user is done with the stream; its name may stand for another one.
Forget(s) ==
  /\ aSt[s] = "closed"
  /\ \A k \in {"use", "cancel"} : aPc[<<s, k>>] = "idle"
  /\ \A p \in AProcs : aSess[p] # s
  /\ aSt' = [aSt EXCEPT ![s] = "absent"]
  /\ UNCHANGED <<aPc, aEv, stay>>

\* What a thread does by itself; the ready line and the answers are the worker's.
AThread(t) ==
  \/ AGate(t) \/ AStartFails(t) \/ ATake(t) \/ AAdmit(t) \/ AWrite(t)
  \/ AWriteNowhere(t) \/ ASeesExit(t) \/ ATimeout(t)
AUser(s) ==
  \/ CreateStream(s) \/ AcceptWaveform(s) \/ FinalizeStream(s) \/ Transcribe(s)
  \/ FinalizeReturns(s)
  \/ CancelStream(s) \/ CancelReturns(s) \/ DropStream(s) \/ Forget(s)

ANext ==
  \/ APreload \/ KillWorker
  \/ \E down \in BOOLEAN : RestartWorker(down)
  \/ \E t \in Threads : AThread(t) \/ AReady(t) \/ Answer(t) \/ AnswerOneshot(t)
  \/ \E s \in Streams : AUser(s)
  \/ \E p \in AProcs : ADie(p)

\* Threads run, timeouts expire, and who waits for a lock or a semaphore that is
\* free again and again gets it.  Nothing is assumed of the worker.
AFairness ==
  /\ WF_aVars(KillWorker)
  /\ \A t \in Threads : SF_aVars(AThread(t))

ASpec == AInit /\ [][ANext]_aVars /\ AFairness

-----------------------------------------------------------------------------
ATypeOK ==
  /\ aUp \in BOOLEAN
  /\ aWorker \in {NoProc} \cup AProcs
  /\ aIo \in {NoProc, NoStdin} \cup AProcs
  /\ aLock \in {NoThread} \cup Threads
  /\ aAlive \subseteq AProcs /\ aStarted \in 0 .. MaxStart /\ aClosed \subseteq AProcs
  /\ aKill \in {NoProc} \cup AProcs
  /\ aSess \in [AProcs -> {Nobody} \cup Streams]
  /\ aSt \in [Streams -> {"absent", "open", "cancelled", "closed"}]
  /\ aPc \in [Threads -> {"idle", "gate", "start", "take", "queue"} \cup Busy]
  /\ aEv \in [Threads -> {"none", "begin", "chunk", "last", "end", "oneshot"}]
  /\ aUse \in [Threads -> {NoProc, NoStdin} \cup AProcs]

\* Some thread waits for the ready line of a process, with the lock.
AStarting == \E t \in Threads : aPc[t] = "start"

\* Every request to the worker ends for its thread, with an answer or an error: it
\* may be cancelled, its worker may die, be killed by restart_worker() at any
\* point or never answer, and it may queue behind another one; if no start hangs,
\* and but for the bound on starts.
AsrCallsEnd ==
  []<>~AStarting =>
    \A t \in Threads : aPc[t] # "idle" ~> (aPc[t] = "idle" \/ aStarted = MaxStart)
=============================================================================
