------------------------------ MODULE Serving ------------------------------
(***************************************************************************)
(* The endpoints of app/main.py that use a backend (/tts, /tts/stream,       *)
(* /tts/clone, /tts/clone/embedding, /tts/clone/stream, /asr, /asr/stream,   *)
(* the set-up of /v2v/stream),                                               *)
(* the admission control they share (core/session_limiter.py) and the        *)
(* execution coordinator (core/coordinator.py).  The managers' reloads       *)
(* (BackendManager) appear as the states the endpoints look at.              *)
(*                                                                           *)
(* The server is one event loop: an action is what a handler does between    *)
(* two awaits.  A backend called on the loop is one action; the streaming    *)
(* endpoints call it from a thread of the executor.  What the stream does    *)
(* with its sentences is TtsStream.                                          *)
(***************************************************************************)
EXTENDS Naturals, FiniteSets

CONSTANTS
  Clients,     \* requests; each is made once
  KindsOf,     \* the endpoints each may go to
  SessionLimit,\* SessionLimiter._limit
  Modes        \* the modes _resolve_mode() may give the coordinator

Managed == {"tts", "clone", "stream", "cstream"}   \* through the TTS manager
Streaming == {"stream", "cstream"}                 \* answered by a generator
TtsKinds == Managed \cup {"embed"}
AsrKinds == {"asr", "ws", "v2v"}

ASSUME ServingClients == IsFiniteSet(Clients)
ASSUME ServingKinds == KindsOf \in [Clients -> SUBSET (TtsKinds \cup AsrKinds)]
ASSUME ServingLimit == SessionLimit \in Nat \ {0}   \* SessionLimiter.__init__ raises
ASSUME ServingMode == Modes \subseteq {"concurrent", "serialized", "exclusive"}

VARIABLES
  sKind,      \* the endpoint a client went to
  sPc,        \* where its handler is
  sActive,    \* SessionLimiter._active
  sToken,     \* its SessionToken: "none", "held", "released"
  sMode,      \* BackendCoordinator._mode
  sState,     \* the state of the two managers, "none" when not installed
  sLoaded,    \* slots whose backend holds its resources
  sInflight,  \* the requests inside BackendManager.acquire()
  sWs,        \* WebSocket handles: <<manager, client>>
  sKick,      \* the handlers a reload has cancelled
  sLock,      \* BackendCoordinator._lock
  sSlot,      \* BackendCoordinator._active_slot
  sThread,    \* executor threads that use a backend, and for whom
  sStream     \* clients with an open ASR stream

sVars == <<sKind, sPc, sActive, sToken, sMode, sState, sLoaded, sInflight, sWs,
           sKick, sLock, sSlot, sThread, sStream>>
sPool == <<sActive, sToken>>
sCoord == <<sLock, sSlot>>
sMgr == <<sMode, sState, sLoaded>>
sUse == <<sInflight, sWs, sKick, sThread, sStream>>

Nobody == "nobody"
ASSUME ServingNobody == Nobody \notin Clients
Slot(c) == IF sKind[c] \in AsrKinds THEN "asr" ELSE "tts"
Other(s) == IF s = "asr" THEN "tts" ELSE "asr"
SGoto(c, p) == sPc' = [sPc EXCEPT ![c] = p]

SInit ==
  /\ sKind = [c \in Clients |-> "none"]
  /\ sPc = [c \in Clients |-> "idle"]
  /\ sActive = 0
  /\ sToken = [c \in Clients |-> "none"]
  /\ sMode \in Modes
  /\ sState \in {[tts |-> t, asr |-> "ready"] : t \in {"none", "init", "ready"}}
  /\ sLoaded = {s \in {"tts", "asr"} : sState[s] = "ready"}
  /\ sInflight = {} /\ sWs = {} /\ sKick = {}
  /\ sLock = Nobody /\ sSlot = Nobody
  /\ sThread = {} /\ sStream = {}

-----------------------------------------------------------------------------
(* SessionLimiter *)

TryAcquire(c) ==
  /\ sActive < SessionLimit
  /\ sActive' = sActive + 1
  /\ sToken' = [sToken EXCEPT ![c] = "held"]

\* mutant: a second release of the same token counts again
ReleaseAgain(c) ==
  /\ sActive' = IF sActive > 0 THEN sActive - 1 ELSE 0
  /\ sToken' = [sToken EXCEPT ![c] = IF @ = "held" THEN "released" ELSE @]

\* _release(): idempotent per token, never below zero.
Release(c) ==
  IF sToken[c] # "held" THEN UNCHANGED sPool
  ELSE /\ sToken' = [sToken EXCEPT ![c] = "released"]
       /\ sActive' = IF sActive > 0 THEN sActive - 1 ELSE 0

\* mutant: the coordinator's lock survives a cancelled handler
ExitLocked(c) ==
  /\ SGoto(c, "end")
  /\ Release(c)
  /\ sInflight' = sInflight \ {c}
  /\ sWs' = {h \in sWs : h[2] # c} /\ sKick' = sKick \ {c} /\ sStream' = sStream \ {c}
  /\ sKind' = [sKind EXCEPT ![c] = "none"]
  /\ UNCHANGED <<sThread, sMgr, sCoord>>

\* Every way out of a handler: the coordinator's and the manager's context
\* managers and the token, each released whatever the others do.
Exit(c) ==
  /\ SGoto(c, "end")
  /\ Release(c)
  /\ sLock' = IF sLock = c THEN Nobody ELSE sLock
  /\ sInflight' = sInflight \ {c}
  /\ sWs' = {h \in sWs : h[2] # c} /\ sKick' = sKick \ {c} /\ sStream' = sStream \ {c}
  /\ sKind' = [sKind EXCEPT ![c] = "none"]
  /\ UNCHANGED <<sThread, sMgr, sSlot>>

\* `except BaseException` around the set-up of /tts/stream: everything is
\* released, whether or not an inner handler has done so before.
ExitOuter(c) ==
  /\ sPc[c] = "over"
  /\ Exit(c)

-----------------------------------------------------------------------------
(* Admission *)

\* acquire_http(), try_acquire_ws(), try_acquire(): reject, never queue.
Arrive(c, k) ==
  /\ sPc[c] = "idle"
  /\ IF sActive >= SessionLimit
     THEN Exit(c)
     ELSE /\ TryAcquire(c)
          /\ SGoto(c, "setup")
          /\ sKind' = [sKind EXCEPT ![c] = k]
          /\ UNCHANGED <<sMgr, sUse, sCoord>>

\* The clone endpoints check capability and input before they ask for a slot.
Refuse(c, k) ==
  /\ sPc[c] = "idle"
  /\ k \in {"embed", "cstream"}
  /\ Exit(c)

-----------------------------------------------------------------------------
(* The TTS endpoints *)

\* No streaming capability (501), an embedding that is not base64 (400).
Unsupported(c) ==
  /\ sPc[c] = "setup" /\ sKind[c] \in {"stream", "clone"}
  /\ Exit(c)

\* The request has its backend.  _request_voice_kwargs() may refuse the voice:
\* everything is released, then the 400 is built; an exception there goes to
\* the outer handler, which releases once more.  The streaming endpoints
\* return a StreamingResponse: what follows, the releases too, is up to its
\* generator.
Prepare(c, counted) ==
  \/ /\ SGoto(c, IF sKind[c] \in Streaming THEN "handed" ELSE "lock")
     /\ sInflight' = sInflight \cup counted
     /\ UNCHANGED <<sKind, sPool, sMgr, sWs, sKick, sThread, sStream, sCoord>>
  \/ /\ sKind[c] \in {"tts", "stream"}
     /\ Exit(c)
  \/ /\ sKind[c] = "stream"
     /\ Release(c)
     /\ SGoto(c, "over")
     /\ UNCHANGED <<sKind, sMgr, sUse, sCoord>>

\* _ensure_tts_manager_started(): a lazy manager is started here; a failed or
\* busy one is a 503; a manager that was never installed means the legacy path.
EnsureStarted(c) ==
  /\ sPc[c] = "setup"
  /\ sKind[c] \in Managed
  /\ CASE sState["tts"] = "none" ->
            Prepare(c, {})
       [] sState["tts"] = "ready" ->
            SGoto(c, "enter") /\ UNCHANGED <<sKind, sPool, sMgr, sUse, sCoord>>
       [] sState["tts"] = "init" ->
            /\ \E ok \in BOOLEAN :
                 /\ sState' = [sState EXCEPT !["tts"] = IF ok THEN "ready" ELSE "failed"]
                 /\ sLoaded' = IF ok THEN sLoaded \cup {"tts"} ELSE sLoaded
                 /\ SGoto(c, IF ok THEN "enter" ELSE "over")
            /\ UNCHANGED <<sKind, sPool, sMode, sUse, sCoord>>
       [] OTHER -> Exit(c)

\* mutant: acquire() is entered by the generator, not by the endpoint
EnterLater(c) ==
  /\ sPc[c] = "enter"
  /\ IF sState["tts"] = "ready" THEN Prepare(c, {}) ELSE Exit(c)

\* BackendManager.acquire(); the manager may have begun to drain meanwhile.
EnterManager(c) ==
  /\ sPc[c] = "enter"
  /\ IF sState["tts"] = "ready" THEN Prepare(c, {c}) ELSE Exit(c)

Begin(c) ==
  /\ sPc[c] = "handed"
  /\ SGoto(c, "lock")
  /\ UNCHANGED <<sKind, sPool, sMgr, sUse, sCoord>>

\* The client is gone before the response starts: a generator that was never
\* started runs no finally.
NeverStarted(c) ==
  /\ sPc[c] = "handed"
  /\ SGoto(c, "lost")
  /\ sKind' = [sKind EXCEPT ![c] = "none"]
  /\ UNCHANGED <<sPool, sMgr, sUse, sCoord>>

-----------------------------------------------------------------------------
(* /asr, /asr/stream and /tts/clone/embedding *)

\* The upload is read; the embedding endpoint goes past the manager.
Embed(c) ==
  /\ sPc[c] = "setup" /\ sKind[c] = "embed"
  /\ SGoto(c, "lock")
  /\ UNCHANGED <<sKind, sPool, sMgr, sUse, sCoord>>

\* _asr_impl(): the manager when it is ready, else the module's own reference
\* to the same backend when that one says it is ready.
EnterAsr(c) ==
  /\ sPc[c] = "setup" /\ sKind[c] = "asr"
  /\ IF "asr" \in sLoaded
     THEN /\ sInflight' = IF sState["asr"] = "ready" THEN sInflight \cup {c} ELSE sInflight
          /\ SGoto(c, "lock")
          /\ UNCHANGED <<sKind, sPool, sMgr, sWs, sKick, sThread, sStream, sCoord>>
     ELSE Exit(c)

\* _try_asr_manager(), _try_tts_manager(): only a ready manager is asked.
Registers(c, slots) == {<<s, c>> : s \in {t \in slots : sState[t] = "ready"}}

\* asr_stream(): the handle is registered when the manager is ready.
OpenWs(c) ==
  /\ sPc[c] = "setup" /\ sKind[c] = "ws"
  /\ IF "asr" \in sLoaded
     THEN /\ sWs' = sWs \cup Registers(c, {"asr"})
          /\ SGoto(c, "lock")
          /\ UNCHANGED <<sKind, sPool, sMgr, sInflight, sKick, sThread, sStream, sCoord>>
     ELSE Exit(c)

\* v2v_stream() registers with both managers, then waits for the config frame.
OpenV2V(c) ==
  /\ sPc[c] = "setup" /\ sKind[c] = "v2v"
  /\ sWs' = sWs \cup Registers(c, {"asr", "tts"})
  /\ SGoto(c, "config")
  /\ UNCHANGED <<sKind, sPool, sMgr, sInflight, sKick, sThread, sStream, sCoord>>

\* The config frame: it may ask for ASR, TTS or both, and each must be ready.
\* A refusal calls _v2v_release_early(), and the outer finally once more.
ConfigV2V(c) ==
  /\ sPc[c] = "config"
  /\ \E wanted \in SUBSET {"asr", "tts"} :
       IF wanted # {} /\ wanted \subseteq sLoaded
       THEN /\ SGoto(c, "session")
            /\ UNCHANGED <<sKind, sPool, sMgr, sUse, sCoord>>
       ELSE /\ Release(c)
            /\ SGoto(c, "over")
            /\ sWs' = {h \in sWs : h[2] # c} /\ sKick' = sKick \ {c}
            /\ UNCHANGED <<sKind, sMgr, sInflight, sThread, sStream, sCoord>>

-----------------------------------------------------------------------------
(* BackendCoordinator.acquire() *)

Lock(c) ==
  /\ sPc[c] = "lock"
  /\ IF sMode = "concurrent"
     THEN UNCHANGED <<sCoord, sLoaded>>
     ELSE /\ sLock = Nobody
          /\ sLock' = c /\ sSlot' = Slot(c)
          /\ sLoaded' = IF sMode = "exclusive" /\ sSlot = Other(Slot(c))
                        THEN sLoaded \ {sSlot} ELSE sLoaded
  /\ SGoto(c, "use")
  /\ UNCHANGED <<sKind, sPool, sMode, sState, sUse>>

\* A call on the event loop.  An unloaded backend refuses, or, behind
\* tts_service and the worker backends, loads itself again.
Use(c) ==
  /\ sPc[c] = "use" /\ sKind[c] \notin Streaming \cup {"ws"}
  /\ \/ Exit(c)
     \/ /\ Slot(c) = "tts" /\ "tts" \notin sLoaded
        /\ sLoaded' = sLoaded \cup {"tts"}
        /\ UNCHANGED <<sKind, sPc, sPool, sMode, sState, sUse, sCoord>>

\* The generator has sent the sample rate: a thread synthesizes.
Synthesize(c) ==
  /\ sPc[c] = "use" /\ sKind[c] \in Streaming
  /\ sThread' = sThread \cup {<<"tts", c>>}
  /\ SGoto(c, "play")
  /\ UNCHANGED <<sKind, sPool, sMgr, sInflight, sWs, sKick, sStream, sCoord>>

ThreadEnds(c) ==
  /\ \E t \in sThread : t[2] = c
  /\ sThread' = {t \in sThread : t[2] # c}
  /\ sPc' = [sPc EXCEPT ![c] = IF @ = "busy" THEN "open" ELSE @]
  /\ UNCHANGED <<sKind, sPool, sMgr, sInflight, sWs, sKick, sStream, sCoord>>

\* The sentinel has been drained.
Played(c) ==
  /\ sPc[c] = "play" /\ <<"tts", c>> \notin sThread
  /\ Exit(c)

\* The client is gone: the generator is cancelled where it waits, for the
\* coordinator's lock, at a yield or for a chunk; the thread goes on.
Disconnect(c) ==
  /\ sPc[c] \in {"lock", "use", "play"} /\ sKind[c] \in Streaming
  /\ Exit(c)

-----------------------------------------------------------------------------
(* _asr_stream_backend() *)

CreateAsrStream(c) ==
  /\ sPc[c] = "use" /\ sKind[c] = "ws"
  /\ sStream' = sStream \cup {c}
  /\ SGoto(c, "open")
  /\ UNCHANGED <<sKind, sPool, sMgr, sInflight, sWs, sKick, sThread, sCoord>>

\* Audio, an end of utterance: in the executor, the handler waits.
FeedAsr(c) ==
  /\ sPc[c] = "open"
  /\ \A t \in sThread : t[1] # "asr"              \* max_workers=1
  /\ sThread' = sThread \cup {<<"asr", c>>}
  /\ SGoto(c, "busy")
  /\ UNCHANGED <<sKind, sPool, sMgr, sInflight, sWs, sKick, sStream, sCoord>>

\* The empty frame, a VAD endpoint, an error, the disconnect; of /v2v/stream
\* the end of its tasks (V2VAsr, V2VTts).
EndWs(c) ==
  /\ sPc[c] \in {"open", "config", "session"}
  /\ Exit(c)

-----------------------------------------------------------------------------
(* BackendManager.reload(), of one manager at a time *)

Drain(s) ==
  /\ sState[s] = "ready"
  /\ sState' = [sState EXCEPT ![s] = "draining"]
  /\ sKick' = sKick \cup {c \in Clients : <<s, c>> \in sWs}
  /\ UNCHANGED <<sKind, sPc, sPool, sMode, sLoaded, sInflight, sWs, sThread, sStream, sCoord>>

\* The handler of a closed WebSocket is cancelled at its await.
Kicked(c) ==
  /\ c \in sKick
  /\ Exit(c)

\* Drained, or the drain timed out: unload and load again on the event loop.
Swap(s) ==
  /\ sState[s] = "draining"
  /\ \E ok \in BOOLEAN :
       /\ sState' = [sState EXCEPT ![s] = IF ok THEN "ready" ELSE "failed"]
       /\ sLoaded' = IF ok THEN sLoaded \cup {s} ELSE sLoaded \ {s}
  /\ UNCHANGED <<sKind, sPc, sPool, sMode, sUse, sCoord>>

-----------------------------------------------------------------------------
Handler(c) ==
  \/ EnsureStarted(c) \/ Unsupported(c) \/ EnterManager(c)
  \/ ExitOuter(c) \/ Begin(c) \/ NeverStarted(c)
  \/ Embed(c) \/ EnterAsr(c) \/ OpenWs(c) \/ OpenV2V(c) \/ Lock(c) \/ Use(c) \/ Synthesize(c)
  \/ Played(c) \/ CreateAsrStream(c) \/ Kicked(c)

SNext ==
  \/ \E c \in Clients : \E k \in KindsOf[c] : Arrive(c, k) \/ Refuse(c, k)
  \/ \E c \in Clients : Handler(c) \/ ThreadEnds(c) \/ Disconnect(c) \/ FeedAsr(c)
     \/ ConfigV2V(c) \/ EndWs(c)
  \/ \E s \in {"tts", "asr"} : Drain(s) \/ Swap(s)

\* Handlers and threads run; asyncio.Lock wakes its waiters in order.  Nothing
\* makes a client speak, hang up or reload.
SFairness ==
  \A c \in Clients : /\ WF_sVars(Handler(c)) /\ SF_sVars(Lock(c))
                     /\ WF_sVars(ThreadEnds(c))

SSpec == SInit /\ [][SNext]_sVars /\ SFairness

-----------------------------------------------------------------------------
STypeOK ==
  /\ sKind \in [Clients -> TtsKinds \cup AsrKinds \cup {"none"}]
  /\ sPc \in [Clients -> {"idle", "setup", "enter", "over", "handed", "lock",
                          "use", "play", "open", "busy", "config", "session", "lost", "end"}]
  /\ sActive \in 0 .. SessionLimit
  /\ sToken \in [Clients -> {"none", "held", "released"}]
  /\ sMode \in Modes
  /\ sState \in [{"tts", "asr"} -> {"none", "init", "ready", "draining", "failed"}]
  /\ sLoaded \subseteq {"tts", "asr"}
  /\ sInflight \subseteq Clients /\ sWs \subseteq {"tts", "asr"} \X Clients
     /\ sKick \subseteq Clients
  /\ sThread \subseteq {"tts", "asr"} \X Clients /\ sStream \subseteq Clients
  /\ sLock \in Clients \cup {Nobody} /\ sSlot \in {"tts", "asr", Nobody}

\* The counter, the tokens and the releases of all endpoints together are a
\* pool of SessionLimit slots: however a handler ends and however often its
\* clean-up runs, no slot is counted twice and none is given out twice.
Pool == INSTANCE SlotPool WITH
          Sessions <- Clients, Limit <- SessionLimit,
          holders <- {c \in Clients : sToken[c] = "held"}, active <- sActive
PoolSpec == Pool!Spec

\* The comment in tts_stream(): inflight_http must be bumped at endpoint entry,
\* "otherwise ... reload drain could miss it".  A request that holds a TTS
\* backend from a manager is in the count the drain waits for, until it ends.
UsersAreCounted ==
  \A c \in Clients :
    /\ sKind[c] \in Managed /\ sState["tts"] # "none"
       /\ sPc[c] \in {"handed", "lock", "use", "play"} => c \in sInflight
    /\ sPc[c] = "end" => c \notin sInflight /\ sToken[c] # "held" /\ sLock # c /\ c \notin sStream

\* A request whose generator is started, if it has one, ends and has given back its
\* slot and the count, unless it waits for the coordinator behind a connection that
\* its client keeps open, or is such a connection itself.
RequestEnds ==
  \A c \in Clients :
    [](sPc[c] # "lost") =>
      (sPc[c] = "setup" ~> \/ sPc[c] = "end" /\ sToken[c] # "held" /\ c \notin sInflight
                           \/ sPc[c] \in {"open", "config"}
                           \/ \E d \in Clients \ {c} : sLock = d /\ sPc[d] = "open")

\* "Slot ownership is handed to the StreamingResponse generator's finally block
\* so it releases on disconnect / exception / normal end.": it does not hold of a
\* generator that is never started, which keeps slot and count for good.
NoSlotLost == \A c \in Clients : sPc[c] = "lost" => sToken[c] # "held"
=============================================================================
