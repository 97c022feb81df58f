------------------------------- MODULE Moss -------------------------------
(***************************************************************************)
(* app/backends/jetson/moss_tts_nano.py: the MOSS worker.  A process's       *)
(* stdout has a reader thread that routes events by request id; a request    *)
(* that meets a dead worker or a silent one restarts the worker and tries    *)
(* once more, under the same id.  _proc_lock is held to start, stop and      *)
(* write, not while a start waits for "worker_ready".                        *)
(*                                                                           *)
(* A process is its number.  It is external: it says "worker_ready", answers *)
(* requests, may stop answering, and may die at any moment; what it has      *)
(* written stays in its pipe until the reader gets to it.  Audio chunks      *)
(* change nothing here and are left out; "done" and "error" both end the     *)
(* attempt, and of the events that do a queue keeps the first.               *)
(***************************************************************************)
EXTENDS Naturals, Sequences, FiniteSets

CONSTANTS
  MossReqs,   \* calls of generate_streaming()
  MaxProcs    \* bound: processes started

ASSUME MossBounds == IsFiniteSet(MossReqs) /\ MaxProcs \in Nat

VARIABLES
  mProc,     \* _proc, or 0
  mStuck,    \* processes that _stop_process() gave up on while they ran
  mSpawned,  \* processes started so far
  mAlive,    \* processes that run
  mSaid,     \* the processes that run and have said "worker_ready"
  mPipe,     \* events in a process's stdout: a request, or "ready"
  mRead,     \* processes whose reader runs
  mCtl,      \* _control_queue
  mReg,      \* _request_queues
  mQueue,    \* what ends the attempt in a request's queue, or "none"
  mPc,       \* where a request is
  mTry,      \* its attempt
  mWork      \* the requests a process has read

mVars == <<mProc, mStuck, mSpawned, mAlive, mSaid, mPipe, mRead, mCtl, mReg, mQueue, mPc, mTry,
           mWork>>
mOs == <<mStuck, mSpawned, mAlive, mSaid, mPipe, mRead, mWork>>
MProcs == 1 .. MaxProcs
MOwner == "owner"             \* the BackendManager's thread, in preload()
MCallers == MossReqs \cup {MOwner}

MInit ==
  /\ mProc = 0 /\ mStuck = {} /\ mSpawned = 0 /\ mAlive = {} /\ mSaid = {} /\ mRead = {}
  /\ mPipe = [p \in MProcs |-> <<>>] /\ mWork = [p \in MProcs |-> {}]
  /\ mCtl = <<>> /\ mReg = {}
  /\ mQueue = [r \in MossReqs |-> "none"]
  /\ mPc = [r \in MCallers |-> "idle"] /\ mTry = [r \in MossReqs |-> 0]

MGo(r, p) == mPc' = [mPc EXCEPT ![r] = p]
Running == mProc # 0 /\ mProc \in mAlive
\* A control event counts only while a start waits: the next start has a new queue.
Starting == {r \in MCallers : mPc[r] = "starting"}
Control(ev) == IF Starting = {} THEN <<>> ELSE Append(mCtl, ev)
Told(rs, ev) == [r \in MossReqs |-> IF r \in rs /\ mQueue[r] = "none" THEN ev ELSE mQueue[r]]

-----------------------------------------------------------------------------
(* Starting and stopping the worker, under _proc_lock. *)

\* preload() up to the wait: nothing to do if a process runs, else _proc has none
\* left to stop, the queues are replaced and a process and its reader are started.
SpawnBesideOld(r) ==
  /\ mPc[r] = "preload"
  /\ mSpawned < MaxProcs
  /\ mSpawned' = mSpawned + 1 /\ mProc' = mSpawned + 1
  /\ mAlive' = mAlive \cup {mSpawned + 1}
  /\ mRead' = mRead \cup {mSpawned + 1}
  /\ mCtl' = <<>> /\ mReg' = {}
  /\ MGo(r, "starting")
  /\ UNCHANGED <<mStuck, mSaid, mPipe, mQueue, mTry, mWork>>
Spawn(r) ==
  /\ mPc[r] = "preload" /\ ~Running
  /\ mSpawned < MaxProcs
  /\ mSpawned' = mSpawned + 1 /\ mProc' = mSpawned + 1
  /\ mAlive' = mAlive \cup {mSpawned + 1}
  /\ mRead' = mRead \cup {mSpawned + 1}
  /\ mCtl' = <<>> /\ mReg' = {}
  /\ MGo(r, "starting")
  /\ UNCHANGED <<mStuck, mSaid, mPipe, mQueue, mTry, mWork>>
\* What follows a preload() that returned: the owner is done, a request tries again.
AfterPreload(r) == IF r = MOwner THEN "idle" ELSE "register"
PreloadRaised(r) == IF r = MOwner THEN "idle" ELSE "end"
AlreadyRunning(r) ==
  /\ mPc[r] = "preload" /\ Running /\ MGo(r, AfterPreload(r))
  /\ UNCHANGED <<mProc, mOs, mCtl, mReg, mQueue, mTry>>

\* The wait for worker_ready: the current control queue, whoever reads it first.
Ready(r) ==
  /\ mPc[r] = "starting" /\ mCtl # <<>>
  /\ mCtl' = IF Starting = {r} THEN <<>> ELSE Tail(mCtl)
  /\ MGo(r, IF Head(mCtl) = "ready" THEN AfterPreload(r) ELSE PreloadRaised(r))
  /\ UNCHANGED <<mProc, mOs, mReg, mQueue, mTry>>
ExitSeen(r) ==
  /\ mPc[r] = "starting" /\ mCtl = <<>> /\ mProc # 0 /\ mProc \notin mAlive
  /\ MGo(r, PreloadRaised(r))
  /\ UNCHANGED <<mProc, mOs, mCtl, mReg, mQueue, mTry>>

\* shutdown(): every registered request gets an error, and _proc is empty before
\* _stop_process() has ended the process, or has logged that it could not.
StopProcess(ended) ==
  /\ mAlive' = mAlive \ ended /\ mSaid' = mSaid \ ended
  /\ mWork' = [p \in MProcs |-> IF p \in ended THEN {} ELSE mWork[p]]
  /\ mStuck' = mStuck \cup ((mAlive \cap {mProc}) \ ended)
ShutdownLeaves(ended) ==
  /\ mQueue' = Told(mReg, "end") /\ mReg' = {}
  /\ mProc' = 0 /\ StopProcess(ended)
  /\ UNCHANGED <<mSpawned, mPipe, mRead, mCtl, mTry>>
StartTimeout(r, ended) ==
  /\ mPc[r] = "starting" /\ mCtl = <<>> /\ ShutdownLeaves(ended) /\ MGo(r, PreloadRaised(r))
Respawn(r, ended) ==
  /\ mPc[r] = "respawn" /\ ShutdownLeaves(ended) /\ MGo(r, "preload")
MUnload(ended) ==
  /\ mPc[MOwner] = "idle" /\ mProc # 0 /\ ShutdownLeaves(ended) /\ MGo(MOwner, "idle")
MPreload ==
  /\ mPc[MOwner] = "idle" /\ MGo(MOwner, "preload")
  /\ UNCHANGED <<mProc, mOs, mCtl, mReg, mQueue, mTry>>

-----------------------------------------------------------------------------
(* generate_streaming() *)

Request(r) ==
  /\ r \in MossReqs /\ mPc[r] = "idle" /\ mSpawned > 0 /\ MGo(r, "register")
  /\ UNCHANGED <<mProc, mOs, mCtl, mReg, mQueue, mTry>>
\* An attempt has a queue of its own, under the request's one id.
Register(r) ==
  /\ mPc[r] = "register" /\ mTry' = [mTry EXCEPT ![r] = @ + 1]
  /\ mReg' = mReg \cup {r} /\ mQueue' = [mQueue EXCEPT ![r] = "none"]
  /\ MGo(r, "send")
  /\ UNCHANGED <<mProc, mOs, mCtl>>
Send(r) ==
  /\ mPc[r] = "send" /\ Running
  /\ mWork' = [mWork EXCEPT ![mProc] = @ \cup {r}] /\ MGo(r, "wait")
  /\ UNCHANGED <<mStuck, mProc, mSpawned, mAlive, mSaid, mPipe, mRead, mCtl, mReg, mQueue, mTry>>
\* The worker is dead, exited or silent for 30 s: forget the queue, then retry once.
RetryOnce(r) == IF mTry[r] < 2 THEN "respawn" ELSE "end"
Fails(r) ==
  /\ \/ mPc[r] = "send" /\ ~Running
     \/ mPc[r] = "wait" /\ mQueue[r] \in {"none", "exit"}
  /\ mReg' = mReg \ {r} /\ mQueue' = [mQueue EXCEPT ![r] = "none"]
  /\ MGo(r, RetryOnce(r))
  /\ UNCHANGED <<mProc, mOs, mCtl, mTry>>
Event(r) ==
  /\ mPc[r] = "wait" /\ mQueue[r] = "end"
  /\ mReg' = mReg \ {r} /\ mQueue' = [mQueue EXCEPT ![r] = "none"]
  /\ MGo(r, "end")
  /\ UNCHANGED <<mProc, mOs, mCtl, mTry>>

-----------------------------------------------------------------------------
(* The worker and the reader of its stdout. *)

WorkerReady(p) ==
  /\ p \in mAlive \ mSaid /\ mSaid' = mSaid \cup {p}
  /\ mPipe' = [mPipe EXCEPT ![p] = Append(@, <<"ready", MOwner>>)]
  /\ UNCHANGED <<mStuck, mProc, mSpawned, mAlive, mRead, mCtl, mReg, mQueue, mPc, mTry, mWork>>
WorkerAnswers(p, r) ==
  /\ p \in mAlive \cap mSaid /\ r \in mWork[p]
  /\ mPipe' = [mPipe EXCEPT ![p] = Append(@, <<"end", r>>)]
  /\ mWork' = [mWork EXCEPT ![p] = @ \ {r}]
  /\ UNCHANGED <<mStuck, mProc, mSpawned, mAlive, mSaid, mRead, mCtl, mReg, mQueue, mPc, mTry>>
WorkerDies(p) ==
  /\ p \in mAlive /\ mAlive' = mAlive \ {p} /\ mWork' = [mWork EXCEPT ![p] = {}]
  /\ mSaid' = mSaid \ {p}
  /\ UNCHANGED <<mStuck, mProc, mSpawned, mPipe, mRead, mCtl, mReg, mQueue, mPc, mTry>>

\* _route_stdout_event(): by the request's id, to the queue that is registered now.
Route(p) ==
  /\ p \in mRead /\ mPipe[p] # <<>> /\ mPipe' = [mPipe EXCEPT ![p] = Tail(@)]
  /\ LET ev == Head(mPipe[p]) IN
     IF ev[1] = "ready"
       THEN mCtl' = Control("ready") /\ UNCHANGED mQueue
       ELSE mQueue' = Told({ev[2]} \cap mReg, ev[1]) /\ UNCHANGED mCtl
  /\ UNCHANGED <<mStuck, mProc, mSpawned, mAlive, mSaid, mRead, mReg, mPc, mTry, mWork>>
\* _publish_worker_exit(): the current control queue and all current requests.
ReaderEof(p) ==
  /\ p \in mRead \ mAlive /\ mPipe[p] = <<>> /\ mRead' = mRead \ {p}
  /\ mCtl' = Control("exit") /\ mQueue' = Told(mReg, "exit")
  /\ UNCHANGED <<mStuck, mProc, mSpawned, mAlive, mSaid, mPipe, mReg, mPc, mTry, mWork>>

MNext ==
  \/ \E r \in MCallers : \/ Spawn(r) \/ AlreadyRunning(r) \/ Ready(r) \/ ExitSeen(r)
                         \/ \E ended \in SUBSET {mProc} : StartTimeout(r, ended)
  \/ MPreload \/ \E ended \in SUBSET {mProc} : MUnload(ended)
  \/ \E r \in MossReqs : \/ Request(r) \/ Register(r) \/ Send(r) \/ Fails(r) \/ Event(r)
                         \/ \E ended \in SUBSET {mProc} : Respawn(r, ended)
  \/ \E p \in MProcs : \/ WorkerReady(p) \/ WorkerDies(p) \/ Route(p) \/ ReaderEof(p)
                       \/ \E r \in MossReqs : WorkerAnswers(p, r)
MSpec == MInit /\ [][MNext]_mVars

-----------------------------------------------------------------------------
\* However requests, restarts, unloads and deaths interleave, and although a start
\* waits for its worker without the lock, at most one worker process runs beside those
\* that _stop_process() could not end (README, Known disagreements), and it is the one
\* _proc names, so that unload() reaches it; and no request gets a third attempt.
OneMossWorker ==
  /\ mAlive \ mStuck \subseteq {mProc} \ {0}
  /\ \A r \in MossReqs : mTry[r] <= 2

\* "Terminate the worker process" (moss_tts_nano.py:199): no second process ever runs.
OneMossProcess == mAlive \subseteq {mProc} \ {0}
=============================================================================
