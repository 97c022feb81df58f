------------------------------ MODULE EdgeTts ------------------------------
(***************************************************************************)
(* app/backends/jetson/trt_edge_llm_tts.py: who owns the TTS worker          *)
(* process.  _worker is the process, _worker_io its multiplexer (a WorkerIO, *)
(* here only its semaphore); _worker_lock is held while a process is         *)
(* started, restarted or unloaded, but not while a request streams, so a     *)
(* request learns of its worker's death without the lock, and clears the two *)
(* handles one after the other.                                              *)
(*                                                                           *)
(* A process is its number, in the order of the starts.  It is external: it  *)
(* answers "ready" first or exits, then answers requests with chunks and a   *)
(* terminal event, and may die at any moment.  A text is one or more         *)
(* segments, each a worker request of its own.                               *)
(***************************************************************************)
EXTENDS Naturals, FiniteSets

CONSTANTS
  Reqs,         \* callers of synthesize() and generate_streaming()
  Oneshot,      \* the ones whose worker request answers with one event
  Concurrency,  \* OVS_TTS_WORKER_CONCURRENCY
  Segments,     \* segments of a text (_split_tts_text)
  MaxSpawn      \* bound: processes started

ASSUME TtsReqsFinite == IsFiniteSet(Reqs) /\ Oneshot \subseteq Reqs
ASSUME TtsReqsHold == Reqs \cap {"free", "owner"} = {}
ASSUME TtsConcurrency == Concurrency \in Nat \ {0}
ASSUME TtsSegments == Segments \in Nat \ {0}
ASSUME TtsMaxSpawn == MaxSpawn \in Nat \ {0}

VARIABLES
  tReady,    \* _ready
  tProduct,  \* _product_backend is loaded
  tWorker,   \* _worker, or None
  tIo,       \* the process _worker_io is bound to, None, or Lost
  tLock,     \* the caller that holds _worker_lock across a start
  tAlive,    \* the processes that run
  tSpawned,  \* processes started so far
  tPc,       \* where each caller is
  tUse,      \* the multiplexer a caller's request goes through
  tHeard,    \* the processes whose audio a caller emitted for this segment
  tRetry,    \* the caller may still retry an empty segment (_retry_empty)
  tLeft,     \* segments a caller has still to synthesize
  tLate      \* history: a caller that learnt late of an older worker's exit has
             \* cleared the multiplexer of the one in use

tVars == <<tReady, tProduct, tWorker, tIo, tLock, tAlive, tSpawned, tPc, tUse,
           tHeard, tRetry, tLeft, tLate>>
tProcs == <<tAlive, tSpawned>>
tBackend == <<tReady, tProduct>>
tCall == <<tUse, tHeard, tRetry, tLeft>>

None == 0
Lost == MaxSpawn + 1       \* WorkerIO(None): _worker was cleared during the start
Procs == 1 .. MaxSpawn
Free == "free"
Owner == "owner"           \* the BackendManager's thread, in preload()
Holding == {"write", "run", "yield", "restart", "respawn"}

TInit ==
  /\ tReady = FALSE /\ tProduct = FALSE
  /\ tWorker = None /\ tIo = None /\ tLock = Free
  /\ tAlive = {} /\ tSpawned = 0
  /\ tPc = [r \in Reqs |-> "idle"]
  /\ tUse = [r \in Reqs |-> None]
  /\ tHeard = [r \in Reqs |-> {}]
  /\ tRetry = [r \in Reqs |-> TRUE]
  /\ tLeft = [r \in Reqs |-> Segments]
  /\ tLate = FALSE

TGoto(r, p) == tPc' = [tPc EXCEPT ![r] = p]
Live == tWorker # None /\ tWorker \in tAlive
Slots(w) == {r \in Reqs : tUse[r] = w /\ tPc[r] \in Holding}
\* Fields of a caller that is over are reset: nobody reads them again.
Leave(r) ==
  /\ TGoto(r, "end")
  /\ tUse' = [tUse EXCEPT ![r] = None]
  /\ tHeard' = [tHeard EXCEPT ![r] = {}]
  /\ tRetry' = [tRetry EXCEPT ![r] = TRUE]
  /\ tLeft' = [tLeft EXCEPT ![r] = Segments]

-----------------------------------------------------------------------------
(* Starting a process: _ensure_worker(). *)

\* Popen, with the caller in readline() for the "ready" line from now on.
Spawn(who) ==
  /\ tSpawned < MaxSpawn
  /\ tSpawned' = tSpawned + 1
  /\ tWorker' = tSpawned + 1
  /\ tLock' = who

\* mutant: a multiplexer that is there is kept
OldMultiplexer == IF tIo # None THEN tIo ELSE tWorker

\* WorkerIO(self._worker, n), which is WorkerIO(None) when a request that saw
\* its old worker exit has cleared _worker meanwhile.
Multiplexer == IF tWorker = None THEN Lost ELSE tWorker

\* The ready line came.
Bind == tIo' = Multiplexer /\ tLate' = FALSE

\* preload(): the product backend, or the files and a worker (the worker
\* start is the one that takes no lock; nobody else has the instance yet).
Preload ==
  /\ ~tReady /\ tSpawned = 0 /\ tLock = Free /\ ~tProduct
  /\ \/ /\ tProduct' = TRUE /\ tReady' = TRUE
        /\ UNCHANGED <<tWorker, tIo, tLock, tProcs>>
     \/ /\ Spawn(Owner)
        /\ tAlive' = tAlive \cup {tSpawned + 1}
        /\ UNCHANGED <<tBackend, tIo>>
  /\ UNCHANGED <<tPc, tCall, tLate>>

PreloadReady ==
  /\ tLock = Owner
  /\ tWorker \in tAlive
  /\ Bind
  /\ tLock' = Free
  /\ tReady' = TRUE
  /\ UNCHANGED <<tProduct, tWorker, tProcs, tPc, tCall>>

PreloadFails ==
  /\ tLock = Owner
  /\ tWorker \notin tAlive
  /\ tLock' = Free
  /\ UNCHANGED <<tBackend, tWorker, tIo, tProcs, tPc, tCall, tLate>>

\* unload(): early return when every handle is empty; the worker is
\* terminated under the lock, the product backend in the finally.
Unload ==
  /\ tReady \/ tWorker # None \/ tProduct
  /\ tLock = Free
  /\ tWorker' = None /\ tIo' = None
  /\ tAlive' = tAlive \ {tWorker}
  /\ tProduct' = FALSE /\ tReady' = FALSE
  /\ UNCHANGED <<tLock, tSpawned, tPc, tCall, tLate>>

-----------------------------------------------------------------------------
(* A caller. *)

\* The manager hands out the instance once it is ready; the product backend
\* answers by itself; anything else goes to the worker, segment by segment.
Call(r) ==
  /\ tPc[r] = "idle"
  /\ tReady /\ ~tProduct
  /\ TGoto(r, "gate")
  /\ UNCHANGED <<tBackend, tWorker, tIo, tLock, tProcs, tCall, tLate>>

\* with _worker_lock: _ensure_worker(), its early return or its Popen (the two
\* reads of _worker in its test count as one).
Gate(r) ==
  /\ tPc[r] = "gate"
  /\ tLock = Free
  /\ \/ /\ Live
        /\ tLock' = r
        /\ TGoto(r, "take")
        /\ UNCHANGED <<tWorker, tProcs>>
     \/ /\ ~Live
        /\ Spawn(r)
        /\ tAlive' = tAlive \cup {tSpawned + 1}
        /\ TGoto(r, "spawn")
  /\ UNCHANGED <<tBackend, tIo, tCall, tLate>>

\* The process the starting caller reads from is the last one started.
Started(r) ==
  /\ tPc[r] \in {"spawn", "respawn"}
  /\ tSpawned \in tAlive
  /\ Bind
  /\ IF tPc[r] = "spawn"
     THEN TGoto(r, "take") /\ UNCHANGED <<tLock, tCall>>
     ELSE /\ TGoto(r, "gate")
          /\ tLock' = Free
          /\ tUse' = [tUse EXCEPT ![r] = None]
          /\ tRetry' = [tRetry EXCEPT ![r] = FALSE]
          /\ UNCHANGED <<tHeard, tLeft>>
  /\ UNCHANGED <<tBackend, tWorker, tProcs>>

\* The assertion that there is a multiplexer, which an unlocked clearing may
\* have falsified; a stream keeps the one it finds, the one-shot path reads
\* self._worker_io again outside the lock.
Take(r) ==
  /\ tPc[r] = "take"
  /\ tLock' = Free
  /\ IF tIo = None
     THEN Leave(r)
     ELSE /\ tUse' = [tUse EXCEPT ![r] = IF r \in Oneshot THEN None ELSE tIo]
          /\ TGoto(r, IF r \in Oneshot THEN "look" ELSE "queue")
          /\ UNCHANGED <<tHeard, tRetry, tLeft>>
  /\ UNCHANGED <<tBackend, tWorker, tIo, tProcs, tLate>>

Look(r) ==
  /\ tPc[r] = "look"
  /\ IF tIo = None
     THEN Leave(r)
     ELSE /\ tUse' = [tUse EXCEPT ![r] = tIo]
          /\ TGoto(r, "queue")
          /\ UNCHANGED <<tHeard, tRetry, tLeft>>
  /\ UNCHANGED <<tBackend, tWorker, tIo, tLock, tProcs, tLate>>

\* EOF instead of the ready line: the exception leaves _worker as it is.
StartFails(r) ==
  /\ tPc[r] \in {"spawn", "respawn"}
  /\ tSpawned \notin tAlive
  /\ tLock' = Free
  /\ Leave(r)
  /\ UNCHANGED <<tBackend, tWorker, tIo, tProcs, tLate>>

\* The semaphore of the multiplexer the caller goes through; writing to one
\* without a process fails.
Admit(r) ==
  /\ tPc[r] = "queue"
  /\ IF tUse[r] = Lost
     THEN Leave(r)
     ELSE /\ Cardinality(Slots(tUse[r])) < Concurrency
          /\ TGoto(r, "write")
          /\ UNCHANGED tCall
  /\ UNCHANGED <<tBackend, tWorker, tIo, tLock, tProcs, tLate>>

\* The request line.  Written to a dead process it is a BrokenPipeError,
\* which no handler of the backend catches.
Write(r) ==
  /\ tPc[r] = "write"
  /\ IF tUse[r] \in tAlive THEN TGoto(r, "run") /\ UNCHANGED tCall
                           ELSE Leave(r)
  /\ UNCHANGED <<tBackend, tWorker, tIo, tLock, tProcs, tLate>>

\* A chunk: the generator stands at its yield until the consumer comes back.
Chunk(r) ==
  /\ tPc[r] = "run" /\ r \notin Oneshot
  /\ tUse[r] \in tAlive
  /\ tUse[r] \notin tHeard[r]      \* bound: one chunk of a process per segment
  /\ tHeard' = [tHeard EXCEPT ![r] = @ \cup {tUse[r]}]
  /\ TGoto(r, "yield")
  /\ UNCHANGED <<tBackend, tWorker, tIo, tLock, tProcs, tUse, tRetry, tLeft, tLate>>

Pull(r) ==
  /\ tPc[r] = "yield"
  /\ TGoto(r, "run")
  /\ UNCHANGED <<tBackend, tWorker, tIo, tLock, tProcs, tCall, tLate>>

\* GeneratorExit: cancel the worker's request, close request()'s generator.
Abandon(r) ==
  /\ tPc[r] = "yield"
  /\ Leave(r)
  /\ UNCHANGED <<tBackend, tWorker, tIo, tLock, tProcs, tLate>>

\* A stateful stream that ends without a chunk is tried once more.
RetryAfterEmpty(r) == r \notin Oneshot /\ tRetry[r] /\ tHeard[r] = {}

\* generate_streaming(): segments are left after this one.
MoreSegments(r) == tLeft[r] > 1

\* The terminal event: the next segment, the end, or the restart.
Done(r) ==
  /\ tPc[r] = "run"
  /\ tUse[r] \in tAlive
  /\ IF RetryAfterEmpty(r)
     THEN TGoto(r, "restart") /\ UNCHANGED tCall
     ELSE IF MoreSegments(r)
          THEN /\ TGoto(r, "gate")
               /\ tUse' = [tUse EXCEPT ![r] = None]
               /\ tHeard' = [tHeard EXCEPT ![r] = {}]
               /\ tRetry' = [tRetry EXCEPT ![r] = TRUE]
               /\ tLeft' = [tLeft EXCEPT ![r] = @ - 1]
          ELSE Leave(r)
  /\ UNCHANGED <<tBackend, tWorker, tIo, tLock, tProcs, tLate>>

\* An event that is not ok, or sixty seconds without one (queue.Empty).
Failed(r) ==
  /\ tPc[r] = "run"
  /\ Leave(r)
  /\ UNCHANGED <<tBackend, tWorker, tIo, tLock, tProcs, tLate>>

\* mutant: the restart calls itself through the public, locking path
RestartNeedsLock(r) ==
  /\ tPc[r] = "restart"
  /\ tLock = Free
  /\ tLock' = r
  /\ TGoto(r, "gate")
  /\ tUse' = [tUse EXCEPT ![r] = None]
  /\ UNCHANGED <<tBackend, tWorker, tIo, tProcs, tHeard, tRetry, tLeft, tLate>>

\* _restart_worker_locked(): terminate whatever _worker is now, start anew.
\* The request's generator still holds its slot of the old multiplexer.
Restart(r) ==
  /\ tPc[r] = "restart"
  /\ tLock = Free
  /\ Spawn(r)
  /\ tIo' = None
  /\ tAlive' = (tAlive \ {tWorker}) \cup {tSpawned + 1}
  /\ TGoto(r, "respawn")
  /\ UNCHANGED <<tBackend, tCall, tLate>>

\* except WorkerExitError: both handles are cleared, one after the other and
\* without the lock, whatever they are by then.
SeesExit(r) ==
  /\ tPc[r] = "run"
  /\ tUse[r] \notin tAlive
  /\ tWorker' = None
  /\ TGoto(r, "clear")
  /\ UNCHANGED <<tBackend, tIo, tLock, tProcs, tCall, tLate>>

ClearIo(r) ==
  /\ tPc[r] = "clear"
  /\ tIo' = None
  /\ tLate' = (tLate \/ tWorker # None)
  /\ Leave(r)
  /\ UNCHANGED <<tBackend, tWorker, tLock, tProcs>>

\* The worker process dies.
Die(p) ==
  /\ p \in tAlive
  /\ tAlive' = tAlive \ {p}
  /\ UNCHANGED <<tBackend, tWorker, tIo, tLock, tSpawned, tPc, tCall, tLate>>

\* What a caller does by itself; the ready line is the worker's doing.
TThread(r) ==
  \/ Gate(r) \/ StartFails(r) \/ Take(r) \/ Look(r) \/ Admit(r) \/ Write(r) \/ Chunk(r)
  \/ Pull(r) \/ Abandon(r) \/ Done(r) \/ Failed(r) \/ Restart(r) \/ SeesExit(r) \/ ClearIo(r)
TCaller(r) == Started(r) \/ TThread(r)
TOwner == Preload \/ PreloadReady \/ PreloadFails \/ Unload

TNext ==
  \/ TOwner
  \/ \E r \in Reqs : Call(r) \/ TCaller(r)
  \/ \E p \in Procs : Die(p)

\* Threads are scheduled; a consumer that has a chunk comes back for the next
\* or closes the generator; request() gives up after sixty seconds.  A process
\* that starts need never write its ready line, for which nobody has a timeout.
TFairness ==
  /\ WF_tVars(PreloadFails)
  /\ \A r \in Reqs : WF_tVars(TThread(r))

TSpec == TInit /\ [][TNext]_tVars /\ TFairness

-----------------------------------------------------------------------------
TTypeOK ==
  /\ tReady \in BOOLEAN /\ tProduct \in BOOLEAN
  /\ tWorker \in {None} \cup Procs
  /\ tIo \in {None, Lost} \cup Procs
  /\ tLock \in {Free, Owner} \cup Reqs
  /\ tAlive \subseteq 1 .. tSpawned /\ tSpawned \in 0 .. MaxSpawn
  /\ tPc \in [Reqs -> {"idle", "gate", "spawn", "take", "look", "queue", "clear", "end"} \cup Holding]
  /\ tUse \in [Reqs -> {None, Lost} \cup Procs]
  /\ tHeard \in [Reqs -> SUBSET Procs]
  /\ tRetry \in [Reqs -> BOOLEAN]
  /\ tLeft \in [Reqs -> 1 .. Segments]
  /\ tLate \in BOOLEAN

\* Whoever gets the lock and finds a live worker finds that process's own
\* multiplexer and never another one's, as the early return of _ensure_worker()
\* expects; only a caller that learns late of an older worker's exit may have
\* taken it away, by its second store.
IoMatchesWorker == tLock = Free /\ Live => tIo = IF tLate THEN None ELSE tWorker

\* That there always is one, which the assertions after _ensure_worker() say: it
\* does not hold.
IoIsThere == tLock = Free /\ Live => tIo # None

\* Somebody waits for the ready line of a process, with the lock.
Starting == tLock = Owner \/ \E r \in Reqs : tPc[r] \in {"spawn", "respawn"}

\* Every call returns, raises or is abandoned, whatever dies and whoever
\* restarts the worker meanwhile, if no start hangs; the bound on starts excepted.
TtsCallsEnd ==
  []<>~Starting =>
    \A r \in Reqs : tPc[r] # "idle" ~> (tPc[r] = "end" \/ tSpawned = MaxSpawn)

\* "Kill the resident worker subprocess so GPU memory is fully released": when
\* nobody is being served, the process that unload() kills is the only one.
NoOrphan ==
  (tLock = Free /\ \A r \in Reqs : tPc[r] \in {"idle", "end"}) => tAlive \subseteq {tWorker}
=============================================================================
