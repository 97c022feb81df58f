# Verification of OpenVoiceStream

TLA+ models of this repository: the FastAPI voice server in `app/` with its
speech backends, the dialogue agent in `agent/`, and the chat server in
`services/llm/`. TLC checks the models on small instances; TLAPS proves every
safety property of the runs, and some that no run checks, for every value of the
constants. The liveness properties are TLC's alone.
`PROJECT.json` maps every definition to the lines it models and lists the runs,
the mutants each property is tested against, the finding, the hazards and the
theorems.

## 1. The system

A browser, a robot or the bundled agent opens a WebSocket to `/v2v/stream`, sends
PCM audio and gets transcripts; it sends text and gets synthesized audio. Plain
HTTP endpoints offer the same one request at a time. One asyncio event loop runs
all handlers; inference happens on executor threads or in a worker process behind
a pair of pipes. An operator may swap the ASR or the TTS backend at run time. The
agent is a second process: microphone, client VAD, a language model with tools,
and a socket to the server.

### Inventory

| component | state it keeps | operations | talks to |
|---|---|---|---|
| `BackendManager` (one per kind) | life-cycle state, current backend, in-flight count, registered sockets, last profile reference | `start`, `acquire`, `register_ws`, `reload` (drain, close, unload, build, roll back) | factory caches and the applied profile; every endpoint |
| profiles, capabilities | operator keys, keys written to the environment, current profile | select, apply, resolve limit, mode and executor size | start-up, `reload` |
| `ASRSessionManager` (one per connection) | session state, stream, generation, lock | `on_speech_start`, `accept_audio`, partial, finalize, cancel, the rebuild ladder | ASR backend, on an executor |
| `/v2v/stream` | the `state` dictionary, three coroutines, sentence queue | dispatcher, `asr_out_task`, `tts_out_task`, teardown | managers, client, limiter |
| other endpoints | token, place in the manager's count, generator | the handlers, their generators and clean-ups | limiter, coordinator, managers |
| `SessionLimiter`, `BackendCoordinator` | active tokens; lock, active slot | acquire, idempotent release; acquire(slot) | every endpoint |
| body of `/tts/stream` | per-sentence queues, prefetch window | generator, sentence threads, disconnect watcher | executor, TTS backend |
| text buffers | pending text | add, flush | TTS half of the WebSocket |
| `WorkerIO` | semaphore, `_inflight` queues, `_closed`, two locks | `request`, `send_request`, `cancel`, `close`, reader thread | the worker process |
| TRT Edge-LLM backends | worker process, its `WorkerIO`, sessions | ensure, restart, `unload`, streams | `WorkerIO` |
| Kokoro, Matcha | pool of TensorRT context slots, arenas | preload, synthesize, unload | CUDA |
| Qwen3 ASR, Paraformer, sherpa and Rockchip ASR | buffers of an utterance | accept, endpoint, finalize, cancel | encoders, recognizer |
| Qwen3-TRT, sherpa, Rockchip TTS; MOSS | engine thread and queue; worker process | generate, unload, retry | engine, worker |
| model volume | files, engines and their meta files | download, build, move at start | host |
| speaker registry | file, cached table | register, delete, look up | handlers, synthesis threads |
| GPU watchdog | counters of a hysteresis | probe, start, stop | readiness |
| RKLLM chat server | one engine, token list | chat, stream, reload | NPU |
| agent `App` | conversation state, latch, watchdog tasks, turn tasks | server events, barge-in, wake, sleep | `SLVClient`, LLM, speaker |
| agent life | capture stream, pump task, device | run, shutdown, restart capture | PortAudio |
| `SLVClient` | socket, reader task, locks | connect, reconnect, send, close | server |
| session history, tools, modes | messages, anchor, current mode | append, roll back, trim, switch | LLM turn |
| LLM client and availability | retries, prefix cache, five states | request, probe, report | LLM |
| VAD, authentication, metrics, logging, wake sources, benches, deployment | counters, files | I/O | — |

### What is hard

* Coroutines interleave at every `await`. Values read before one (a generation, a
  readiness flag, a stream) are used after it.
* Executor threads and worker processes go on when the task that waits for them is
  cancelled: a disconnect, a barge-in, a deadline.
* A worker dies, hangs or stops reading at any point of a request.
* A reload races requests, new connections and a reload of the other backend.
* Every step of a recovery (rebuild, restart, roll back, reconnect) may itself fail.
* Slots, counts, streams and context slots have to be given back exactly once on
  every way out.
* Buffers of audio or text are cut at several limits with overlaps.

`PROJECT.json` lists forty places where these bite.

## 2. Modules

| module | models | checked in |
|---|---|---|
| `BackendManager` | `core/backend_manager.py`, factories, unloaders and registration of sockets in `main.py` | `reload`, proofs |
| `BackendService` | abstract specification of what a manager promises requests | `reload` (refinement, proved) |
| `AsrSessionManager` | `core/asr_session_manager.py` | `asr_session`, proofs |
| `V2VAsr` | dispatcher, `asr_out_task` and teardown of `v2v_stream`; EXTENDS `AsrSessionManager` and calls its operations | `v2v_asr*`, proofs |
| `WorkerIO` | `core/worker_io.py` and how the TRT backends use it | `worker_io`, proofs |
| `EdgeTts`, `EdgeAsr` | `backends/jetson/trt_edge_llm_tts.py`, `trt_edge_llm_asr.py` | `edge`, proof for `EdgeTts` |
| `Serving` | every endpoint of `main.py` that uses a backend, `session_limiter.py`, `coordinator.py` | `serving`, proofs |
| `SlotPool` | abstract specification of admission | `serving` (refinement, proved) |
| `TextBuffers` | `core/v2v.py` | `serving`, proofs |
| `TtsStream`, `V2VTts` | the body of `/tts/stream`; the TTS half of `/v2v/stream` | `speech_out`, proofs |
| `Profiles` | `profile_loader.py`, `profile_selector.py`, `capability_resolver.py`, start-up, the TTS executor | `speech_out`, proofs |
| `CtxPool` | slots of `kokoro_trt.py` and `matcha_trt.py` | `backends`, proofs |
| `Qwen3Stream`, `ParaformerStream`, `Recognizers`, `Segments` | `qwen3_asr.py`, `paraformer_trt.py`, `sherpa_asr.py` and `rk/asr.py`, the cutting of long audio | `backends`, proofs |
| `EngineStreams`, `Moss` | `qwen3_trt.py`, `sherpa.py`, `rk/tts.py`; `moss_tts_nano.py` | `backends`, proofs |
| `Artifacts` | model downloads and engine resolution at start | `edge`, proofs |
| `Speakers`, `Watchdog`, `RkLlm` | `tts_speakers.py`; `gpu_watchdog.py`; `services/llm/` | `backends`, proofs |
| `SlvClient`, `AgentLife` | `slv_client.py`; `run`, `shutdown` and the microphone of `app_base.py` with `audio_io.py` | `agent`, proofs |
| `Dialogue` | the state machine of `app_base.py`, dashboard commands | `dialogue`, proofs |
| `Conversation`, `LlmClient` | `session.py`, `app_mode.py`, tools, modes; `llm/*.py` and `plugins/llm_availability.py` | `dialogue`, proofs |
| `MC...` | the instances for TLC; `worker_io` runs `WorkerIO` itself | |
| `..._proofs` | the theorems: `BackendManager_proofs`, `AsrSessionManager_proofs` (with `V2VAsr`), `WorkerIO_proofs`, `Serving_proofs` (`Serving`, `TtsStream`, `V2VTts`, `Profiles`, `TextBuffers`), `Edge_proofs` (`EdgeTts`, `Artifacts`), `Backends_proofs` (`CtxPool`, `EngineStreams`, `Moss`, `Watchdog`, `Speakers`, `RkLlm`), `Recognition_proofs`, `Agent_proofs` | |

Modules that share a run but no state are put side by side: `subject` chooses in
the initial state which of them moves, the others keep one initial state. That is
not a composition, only a saving of runs. Real compositions are `V2VAsr` over
`AsrSessionManager`, and the abstractions of one module inside another: `Serving`
and `V2VTts` contain the managers' states, `EdgeTts` and `EdgeAsr` the semaphore
of `WorkerIO`, `SlvClient` the server's admission, `Dialogue` the server's events.

A step is the code between two points where another coroutine, thread or process
can act: an `await` that suspends, a lock, an executor call. A call that is
refused and changes nothing has no action.

### The server core

*BackendManager.* The variables are the fields of the managers, the globals they
share (`cache`, `profile`), the locals of a running `reload()` (`rl`), the
requests and the sockets; `built`, `live`, `dead` and `forced` are histories of
backend instances. `reload()` is `BeginReload`, one `CloseSocket` per registered
socket, `EndDrain` and the tail (`BuildOk` ... `RollbackPreloadFail`). The tail
calls synchronous code only, so the variable `loop` keeps everybody else from
moving during it. `BackendService` leaves out profiles, phases, sessions and
failures: a backend is served once and by one manager, retired only behind a closed
door, and under its users only if they were given up. `ServiceSpec` maps `serving`
to `current`, the open doors to the managers that are READY, and the users to
`holds`, what the requests in flight hold.

*AsrSessionManager.* `call[t]` holds the locals of task `t`'s call and its point in
the method. A call waits for `_lock`, and either keeps it over its awaits or gives
it up before it awaits an executor and asks for it again to use the result.
`Abandon` is the cancellation of a caller by asyncio, used by `V2VAsr` only.

*V2VAsr.* The three coroutines of one connection. Frames come in any order; sends
may fail; the deadline of a turn may pass at any time. `Settled` states what
single-threadedness gives: a coroutine whose call has come back runs on to its next
suspension. A reload may cancel the handler where it stands, while it joins its
tasks or in the clean-up behind that. The TTS half is reduced to when and how its
task ends.

*WorkerIO.* Each request is a generator with a program counter over the steps
between which another thread can act. A `Large` payload does not fit into the pipe
and keeps `_stdin_lock` until the worker has read it. The worker takes requests,
emits events, and may stop or die at any time.

*Serving.* A client runs one endpoint after another. Token, place in the manager's
count, coordinator lock and generator are separate, since they are given back by
the handler, by its generator or by a clean-up; a disconnect may come at each
await. `SlotPool` promises that at most `Limit` sessions hold a slot, that one is
taken only when free and given back by its holder, and that `stats()` tells the
number; `PoolSpec` is the refinement, with a slot held from the token's creation to
its release.

*TtsStream and V2VTts.* The sentences, their threads and queues, the window of
prefetched sentences, the watcher; sentence queue, `drain()`, the synth thread,
barge-in, flush, both deadlines, teardown.

*Profiles.* The environment is a function from keys to paths. What the operator gave
is his for the loader only if it is not empty and has one of its prefixes
(`OwnKeys`). `Apply` is `apply_profile()` in its three parts; `ApplyRaises` leaves the
second one half-way. `ResolveEngines` is what `resolve_all()` exports at the start,
past the loader's bookkeeping.
The session limit, the coordinator's mode and the executor's size are computed from
the profile at start and are not changed by a reload. A profile's reference to a
key that only another profile sets would read what an earlier one left behind; no
shipped profile has one, the instances have none, and the theorem names it as its
hypothesis (`OwnReferences`).

### The backends and stores

`TextBuffers` has the path over pysbd, which the images install, the one over the
regular expression and the low-latency buffer; pysbd is a library and may divide a
text anywhere. `EdgeTts` clears the two handles in two steps, as the code does.
`CtxPool` counts arena units and launched kernels per slot; a thread its caller has
given up on may still hold a slot when `unload()` comes. The recognizers work on
positions of audio: a decode is the set or sequence of positions it covers, so that
loss and repetition are visible, and Paraformer's encoder and decoder may return
nothing. `Segments` is a pure algorithm, run on every set of at most three silent
frames of its lengths. `Moss` may fail to stop a process. `Artifacts` may crash at
every step, and the host may be upgraded between starts; the engines of a downloaded
bundle (`Bundled`, any of them) fit the host they are made for. `Speakers` interleaves
lookups on executor threads with the handlers, and every read of the file may fail.
`RkLlm` has the shared token list of the binding.

### The agent

`Dialogue` is the state machine with every coroutine that touches it: dispatch
loop, an injected text, microphone pump, turn tasks, two watchdogs, the sleep timer
and control calls. `Conversation` is one session's history under turns with tool
rounds, cancellation, rollback, trimming, echo recovery and mode switches.
`LlmClient` is one request with retry and prefix-cache fallback next to the
availability machine. `SlvClient` has two callers that may reconnect at once and a
server with one slot, freed some time after a socket is closed, that may close a
socket it had accepted. `AgentLife` has the
capture generators of successive restarts, the pump, its watchdog and the devices;
the dispatch task may begin turns and set the sleep timer until `shutdown()` cancels it.

## 3. Runs

| run | properties | what is shown |
|---|---|---|
| `reload` | `ServiceSpec`, `ReadyServesLive`, `ReloadTerminates` | the managers implement `BackendService`; READY serves a live backend; reloads end |
| `asr_session` | `StreamsAccounted`, `CallsReturn` | state, stream and callers agree, no stream is forgotten; calls return |
| `v2v_asr` | `ClosedIsIdle`, `FinalKeepsNewUtterance` | a closed connection leaves an idle manager, unless a reload cancels the clean-up itself; a final does not end a newer utterance |
| `v2v_asr_ends` | `TurnEnds`, `DisconnectCloses` | a turn ends and a disconnect tears down, unless a call that blocks `asr_out_task` is never answered |
| `v2v_asr_gate` | `EndpointFinalizesItsOwn` (violated) | section 4 |
| `worker_io` | `SlotsAccounted`, `WaiterHasNews`, `InFlightEnds` | slots are conserved; a waiter always has an event coming; nobody waits for a dead worker |
| `edge` | `IoMatchesWorker`, `EdgeCallsEnd`, `ArtifactsFit` | a live worker is used through its own multiplexer or, after a late clearing, through none; calls end if no start hangs; an engine that is loaded was built whole for this host or lay beside a bundle |
| `serving` | `UsersAreCounted`, `PoolSpec`, `RequestEnds`, `TextSpokenOnce` | a user of a backend is in its manager's count; the endpoints implement `SlotPool`; requests whose generator is started end and give their slot back; no character leaves a buffer twice or never, and only pysbd's sentences below the minimum are swallowed |
| `speech_out` | `WireOrder`, `StreamEnds`, `FlushAnswered`, `ClosedFreesSlot`, `SettingsHold` | audio in order; streams end; a flush is answered; a client that is gone frees its slot; environment and limits follow the profile, but for the resolver's variables and keys without a prefix |
| `agent` | `OneSocket`, `ComesBack`, `CaptureRecovers` | never two sockets in use; a connection comes back as long as something is sent, and the capture does |
| `dialogue` | `RequestsValid`, `ThinkingWatched`, `GateReopens` | no request has a tool result without its call; THINKING is left; the LLM gate opens again |
| `backends` | one per module, see there | slots clean when reused; speech and frames covered once, but for failed decodes; sentinels; one MOSS worker beside those that could not be stopped; segments without gap and their longest; speakers kept, but for failed reads; whole answers; hysteresis |

### Bounds and why they are enough

* `reload`: `MaxReloads = 2`, `MaxBackends = 6`: a second reload after a rolled-back
  one is the shortest history in which a stale reference or cache could be served;
  each reload builds at most two backends, so the ids never run out.
* `asr_session`: three generations, five streams, the ladder in full length: an
  utterance, the one that preempts it and the one after. `v2v_asr` has two
  utterances and one retry: its races need the old and the new one.
  `v2v_asr_ends` has one utterance without VAD: liveness concerns that turn.
* `worker_io`: two requests and two slots, both in flight at once; `MaxChunks = 1`
  tells a stream from a single answer.
* `edge`: two callers and up to three processes, so that a late error of the first
  process meets the second or the third; two segments for a text whose first part
  succeeds; two engines and two model files, so that a crash falls between them.
* `serving`: three clients for two slots, one at each group of endpoints.
* `speech_out`: three sentences (two for the legacy stream) with a window of two: one waiting, one
  ready and one being played; three reloads of three profiles for `Profiles`, and
  twelve shells of the operator, among them one that refuses the start.
* `agent`: two sockets, two attempts, one outage and one cut;
  `Dialogue`: two turns, so that a late event of the first meets the second, and two
  inputs of the user; `Conversation`: three turns with two rounds of two calls and a
  budget of five messages, which makes trimming happen in the middle of a round.
* `backends`: two requests for one slot and a one-off. `Qwen3Stream`: chunks of two
  and pieces of two and three units, three of left context, a window of six and
  fourteen units in all: the trim needs more than ten processed units and comes at
  twelve, with a chunk after it, and the window is crossed with and without a
  residue; the order chunk < left context < rolling window is the code's.
  `ParaformerStream`: chunks of two frames under a look-ahead of three, as 11 and 15
  frames in the code, and an encoder of eight under utterances of twelve. `Segments`: a
  quarter of a second is one frame, so that 18, 2, 4 and 8 are the code's 4.5, 0.5, 1
  and 2 s; lengths of one, two and three segments. `Moss`: two processes, so that one
  that cannot be stopped meets its successor. `Speakers`: a preset id that the
  environment takes and one that it does not, and one id that only a registration has.

`CHECK_DEADLOCK FALSE` is set where the modelled thing ends by itself: closed
connections, requests that have all returned, a process that has shut down.
`reload` and `asr_session` check deadlock.

### Fairness

* `BackendManager`: weak fairness of a reload's own steps: a close is one await, the
  drain has a timeout, the tail is synchronous.
* `AsrSessionManager`: strong fairness of each task's work: `asyncio.Lock` is first
  come first served, and executor calls end because the worker layer has timeouts.
* `V2VAsr`: the coroutines, the lock and the clock of a turn; no frame from the client
  is assumed, and no answer of the backend. The deadline is polled by `asr_out_task`
  between its calls, so that it cannot end one of its own; `TurnEnds` and
  `DisconnectCloses` therefore suppose that it is not blocked for ever by a call that
  is never answered, its own or the lock holder's (`Blocked`). A cancel that hangs is
  covered by `wait_for`.
* `WorkerIO`: the threads of the process run and the consumer of a stream asks for
  its next event or leaves. The worker need not do anything.
* `EdgeTts`, `EdgeAsr`: callers, the kill and the half-second wait of a cancel take
  their steps; requests have timeouts, the worker none. A start reads `ready` without a
  time-out and with the lock (`tts.py:809`): that it ends is no fairness but the
  premise of `EdgeCallsEnd`, `[]<>~Starting`.
* `Serving`: handlers and synth threads; strong fairness for the coordinator's lock.
  `TtsStream`: generators and sentence threads. `V2VTts`: the output task, its
  deadline and the teardown; not the synth thread, which may be wedged.
* `Serving` again: `RequestEnds` supposes that a generator that was handed over is
  started; section 4 for one that is not.
* `SlvClient`: the coroutines, strong fairness for its locks, and the server frees
  the slot of a closed socket and comes back after an outage; each is needed for
  `ComesBack`. Nobody has to send: that something is sent again and again is its
  premise (`KeepsSending`), since the pump sends nothing while the agent is asleep or
  quiet, and only a failed send or a dispatch reconnects. `AgentLife`: capture, watchdog and restarts.
* `Dialogue`: every coroutine and both watchdogs; strong fairness for
  `tts_done`, which the server sends for every utterance but other events may
  overtake. `LlmClient`: the periodic probe begins and ends; strong because the
  dashboard's probe takes the same lock.

## 4. Finding

*Gen-race gate* (`v2v_asr_gate`). The generation is compared before
`asr_endpoint` is sent and before the lock is taken; a speech start in between is
finalized by the endpoint of the utterance before, although the comment at
`main.py:2944` says that the gate drops it.

### Known disagreements

Other places where the code does not do what a comment, a docstring or a
neighbouring part of it says. Where a property is named it is a definition of the
module, and adding it to the run's cfg, with the constants given, shows the
behaviour.

* `NoLingeringSession` (`BackendManager`): a WebSocket accepted while its manager
  drains registers with nobody, but binds the old backend (`main.py:2385`).
* `RollbackRestoresProfile` with two `Kinds`: the applied profile is shared, the
  remembered reference is not; a failed TTS reload re-applies the profile that was
  current before the last ASR reload (`backend_manager.py:363`).
* `AbortResetsToIdle` (`V2VAsr`): the error handler looks at neither generation nor
  state and leaves the manager ACTIVE after an abort (`main.py:2819`).
* `NothingLeftOpen` (`V2VAsr`): the thread in `create_stream()` is not stopped by
  the teardown and its stream is dropped (`main.py:3309`).
* `SlotsReturned` (`WorkerIO`, `Concurrency = 1`): a cancelled `send_request()`
  loses the slot that its thread gets later (`worker_io.py:125`).
* `RestartEnds` (`WorkerIO`, `Large = {r1}`): `close()` waits for `_stdin_lock`, the
  writer for the worker, the kill for `close()` (`worker_io.py:228`).
* `NoOrphan` (`EdgeTts`): a late `WorkerExitError` clears the handle of a newer
  process, which no `unload()` will kill (`trt_edge_llm_tts.py:1173`, docstring at
  673).
* `StreamEnds` (`TtsStream`, `DefaultWorkers = BackendWorkers = 1`): with a window of
  one the second sentence is never submitted, where the comment at `main.py:1487`
  promises a serial stream.
* `TeardownEnds` (`V2VTts`): the output task takes the teardown's cancellation for a
  barge-in and goes on with a queued sentence (`main.py:3220`).
* `AsleepStartsNoTurn` (`Dialogue`): the SLEEPING gate is tested before the awaits
  that lead to the turn (`app_base.py:1408`).
* `ClosedIsAlwaysIdle` (`V2VAsr`): a reload's `task.cancel()`
  (`backend_manager.py:303`) may hit `await asr_manager.cancel("ws_close")` in the
  teardown, which only an `except Exception` guards (`main.py:3313`); the manager stays
  CANCELLING and its stream is taken.
* `IoIsThere` (`EdgeTts`): the second of the two unlocked stores that clear the
  handles may come when another caller has started a process; it finds a live worker
  without a multiplexer, and `assert self._io is not None` fails
  (`trt_edge_llm_tts.py:892`, 1092, 1173).
* `NoSlotLost` (`Serving`): a generator that is never started runs no `finally`, so
  that slot and count of a client that leaves before the first chunk are kept for good,
  where the comment at `main.py:1236` says the slot is released on a disconnect.
* `OneMossProcess` (`Moss`): `_stop_process()` gives up on a process that SIGTERM
  or SIGKILL does not end within its time, with `_proc` already empty; the next
  `preload()` starts a second one beside it (`moss_tts_nano.py:478`, 499).
* `NoFrameMuted` (`ParaformerStream`): the frames count as done before the decoder
  runs, so that what a decoder run that returns nothing held is missing from the text,
  which `finalize()` returns as whole (`paraformer_trt.py:593`, 618, 696).
* `FramesOnceAlways` (`ParaformerStream`): an utterance longer than the encoder's
  longest input repeats or loses frames, against the comment at
  `paraformer_trt.py:583`.
* `BelowBoundary` (`Segments`): a tail below 2 s is merged into a segment of up to
  4.5 s: 6.25 s of speech without a pause are one segment, beyond the 6 s below which
  the comment at `qwen3_asr.py:167` says merged segments stay. `SegmentsCover` states
  the bound that holds.
* `RegisteredIsUsable` (`Speakers`): a lookup thread may store the table it computed
  before a registration after the cache was invalidated (`tts_speakers.py:461`); and a
  read that fails caches a table without the file's voices.
* `SpeakersKept` (`Speakers`) with `sMisread` left empty: a registration that cannot
  read the file takes it for empty and writes it anew, with every other voice gone
  (`tts_speakers.py:423`, 459); a deletion that cannot read it is acknowledged with the
  entry still in it (`tts_speakers.py:533`).
* `AnswerIsOwn` (`RkLlm`): two generations share one token list
  (`rkllm_binding.py:313`).
* `EnginesFit` (`Artifacts`): after a bundle's download a sidecar is written for every
  engine file in the directory, also for one the bundle does not have, so that a
  truncated or outdated file passes for a good one (`engine_resolver.py:446`).
  `ArtifactsFit` excepts these files (`bBeside`).

Met while the invariants of `AgentLife` and `Dialogue` were sought, and confirmed by
TLC on a formula given here:

* `shutdown()` cancels the pump and awaits it two steps later; a dashboard's
  `restart_mic_capture()` that ends in between has started a new pump, which nobody
  has cancelled, and `shutdown()` waits for it as long as it runs
  (`app_base.py:740`, 763, 829): `lPhase = "stopping" ~> lPhase = "closed"` fails
  even with fair steps of `shutdown()`. `RestartsExclude` and `ClosedIsSilent` hold,
  the latter because a shutdown that does come to its end has waited.
* `shutdown()` cancels the turn and the sleep timer first, since "a pending
  `_sleep_after` coroutine can fire mid-shutdown" (comment at `app_base.py:720`), but
  the dispatch task runs until its fourth step and may begin a turn or set the timer
  again (`TurnStarts` and `TimerSet` of `AgentLife`).
* With an injected text two `_dispatch_one()` may wait for the same cancelled turn;
  both go on and each spawns one, and the first of the two is a turn that runs, is
  not the current one and is cancelled by nobody (`app_base.py:1691`-1707):
  `\A t \in dLive : t = dCur \/ t \in dKill` fails with `MaxInputs = 4`.

Without a property of their own: exclusive mode unloads a backend behind its manager's
back (`coordinator.py:94`); the pysbd path yields no sentence shorter than
`min_chars` (2) and forgets it (`v2v.py:185`), so that a sentence of one character is
never spoken, which `TextSpokenOnce` allows; `resolve_all()` overwrites an engine variable that is the
operator's, and the loader, which does not know that it was set, leaves it after a
reload to a profile without that engine (`engine_resolver.py:606`), and a key of the
operator's without one of the prefixes is overwritten and cleared by the profiles that
have it (`profile_loader.py:26`), both of which `SettingsHold` allows; a worker that
hangs before `ready` blocks every caller of its backend (`tts.py:809`), and an ASR
call that is never answered blocks the task that polls the deadline (`main.py:2855`),
which the premises of `EdgeCallsEnd` and `TurnEnds` leave out; a critical-key conflict raises in the
middle of `apply_profile()`, and what it has written stays after the rollback
(`profile_loader.py:258`; `SettingsHold` excludes such histories); an operator's
`QWEN3_ARTIFACT_ROOT` does not reach the paths of a profile that declares that key
itself, although `configs/profiles/jetson-multilang-highperf-nx.json:3` says so;
session limit and executor size stay as they are when a reload changes the
backends.

## 5. Proofs

The theorems hold for any finite sets of managers, clients, requests and tasks, any
limits, budgets, thresholds and sizes, and any bound on histories. They speak of the
specifications without fairness. Each rests on an inductive invariant that is stated
at the head of its part of the proof module; the steps of the proof are the actions.

### What is assumed

Besides the types of the constants (`ASSUME`s next to them, which TLC evaluates):

| assumption | of | why the code justifies it |
|---|---|---|
| `OneFinalizer` | `AsrSessionManager` | only `asr_out_task` finalizes |
| `ServingNobody`, `TtsReqsHold`, `SynthsFinite`, `NoRequestAssumption` | several | the value for "nobody" is no client, request or thread |
| `SegmentBounds`: `2 * MinFrag <= MaxSeg`, a tail and a fragment fit into `MaxSeg` | `Segments` | `qwen3_asr.py:112`, 169-170: 4.5 s, fragments of 1 s, tails of 2 s |
| `BufferSizes`, `TextSizes` | `TextBuffers` | limits are numbers, the three lengths in order, as the constructors' defaults are |
| `EngineList` | `Artifacts` | the catalogue lists no engine twice |
| `OwnReferences` (hypothesis) | `Profiles` | holds of every shipped profile |
| `CatalogFacts`, `ShellFacts` | `Profiles` | names are unique; limits are numbers |
| `Async = {}` (hypothesis) | `WorkerIO`, `BlockingSlotsReturned` only | `request()` alone; section 4 for `send_request()` |

### The server core

**BackendManager.** `IInv`: the type invariant with `HoldersCounted`, which backends
exist (`BuiltInv`), that a manager past its drain owns the loop (`LoopInv`), how phase
and state go together (`PhaseInv`), that READY and DRAINING have a live backend in
both cells and the other states have no live one in the cache (`ServeInv`), that two
managers never share a backend (`ApartInv`; otherwise unloading one would pull it from
under the other's requests), that a request holds the current backend or one unloaded
by force (`HoldInv`), and that a registered session that is not closing is bound to
the current backend and still on the closing reload's list (`SessionInv`). Results:
`TypeCorrect`, `CountCorrect`, `DrainCorrect`, `ServeCorrect`, `CloseCorrect`, and
`ServiceImplemented`: every step is one of `BackendService` or changes nothing in it.
`HoldInv` makes an unload with nobody in the count a retirement without users, and
`ApartInv` makes every served backend a new one.

**AsrSessionManager.** `MInv`: the owner of the lock (`LockInv`), what a critical
section has made of the state while it awaits (`SectionInv`), that only created
streams are referred to (`MadeInv`), and that the finalizing call's stream is the
manager's as long as nothing has happened (`FinalInv`). Most steps change one task's
locals only; the lemma `LocalStep` treats them together. Results: the type invariant,
`SessionConsistent` (with its three parts) and the action property `FinalCorrect`.

**V2VAsr.** `MInv` does not survive `Abandon`: an abandoned call leaves a section
half-way. `ConnectionInv` keeps what does: inside the lock the stream has been taken
out of the manager (`UsedInv`), the handler leaves one task after the other behind
(`ClosingInv`), and `asr_active` is about the manager's own generation except while a
speech start is on its way (`UtteranceInv`). From it `ClosedCorrect`, with the
exception of a clean-up that was itself cancelled (`cut`), and the action property
`FinalKeepsCorrect`.

**WorkerIO.** `WInv`: `SlotsAccounted`, `WriterInv` (who holds `_stdin_lock`, and
nobody after `close()`), `EndInv` (how far `close()` and the reader are), `WriteInv` (a
request about to write is registered, unless the write is bound to fail) and
`WaiterHasNews`, which needs `WriteInv` for the step from writing to waiting and lemmas
on what `Append` and `Tail` do to a queue with a terminal event. Results: types,
`SlotsCorrect`, `NewsCorrect`, `WriteCorrect`, `BlockingSlotsReturned`.

### The endpoints

**Serving.** `ServingInv` is the type invariant, `SlotsCounted` (the limiter's counter
is the number of tokens not yet released) and `UsersAreCounted`, which is inductive
with them. `PoolImplemented` is the refinement of `SlotPool`, one lemma per group of
handlers: a step creates a token while fewer than the limit are out, releases the
client's own, or touches none.

**TtsStream.** `PlayInv`: submitted sentences are a prefix of the text and inside the
window, each queue holds what its thread has made and nobody has sent, and an end
without a cancel finds every thread over; `WireOrderCorrect` follows.

**V2VTts.** `SpeakInv`: sentences that have ended, run on the thread, are in
`drain()` and are queued have numbers in this order (`OrderInv`), and a thread that
`drain()` does not listen to has been told to stop (`StopInv`). Results:
`SynthOrderCorrect`, `LeftBehindCorrect`.

**Profiles.** `SettingsInv`: the operator's keys and those no profile sets are as given
whatever was applied (`OperatorKept`), the applied keys have the current profile's
values until one application raises (`AppliedKept`), each up to what the engine
resolver has put over it, and the limits are those of the profile of the start
(`LimitsKept`). The lemmas say what one `Apply` does to a key;
they need `OwnReferences`.

**TextBuffers.** `TextInv`: what went out and what is pending say what came in. A text
says its characters that are not blank, numbered; joining two texts shifts the numbers
of the second and stripping blanks changes none (`SpokenConcat` and the lemmas after
it), so that any cut keeps the invariant, wherever the code or pysbd makes it.

### Backends and stores

**CtxPool.** `PoolInv`: a thread holds a slot exactly between `get()` and `put()`, a
dirty slot is in the hands of a thread that will still reset it, queued slots are in
nobody's hands and in the queue once. **EngineStreams.** `EngineInv` counts items made,
queued and heard, with the sentinel as the last item. **Moss.** `MossInv`: beside
the processes that could not be stopped `_proc` is the only one that may run, and who
may still register has an attempt left. **EdgeTts.** `LockInv`: the lock's holder waits
for the last process that was started; `IoInv` is the property, also for a holder that
takes its slot.
**Artifacts.** `ArtifactsInv`: a sidecar was written for a file that fitted the host of
the time or beside a bundle, and what is exported has been resolved before.
**Speakers.** `SpeakersInv`: what the handler on the loop is about to do, that it has
the file's entries or none, and that a table has a preset under its own id unless the
environment replaced it.
**RkLlm.** `ChatInv`: what the engine's list holds for a chat that nobody has disturbed.
**Watchdog.** `WatchdogInv`: each counter is the length of the current run of equal
probes, up to its threshold; `HysteresisCorrect` is an action property.

**Recognition.** `QwenInv` adds to `SpeechKept` that the left context exists once
something was trimmed. `ParaformerInv` is `FramesOnce` with types; the lemma
`SlicesJoin` says that the slices of the encoder's output join without a gap, and a
run whose decoder returned nothing puts its slice among the muted frames.
`RecognizerInv` says that nothing that may still be delivered has been. `SegmentsInv`
follows the three passes of the algorithm: cutting leaves no two short neighbours,
merging passes that on and lengthens a segment by less than a fragment, and only the
last segment grows by a tail.

### The agent

**SlvClient.** `SockInv`: only the holder of `_send_lock` opens a socket and starts
without one. **Conversation.** `TalkInv` with `Rounds(h, m)`: a history whose last
round still lacks `m` results. What appending, trimming, rolling back and cutting a
suffix do to it are lemmas. **LlmClient.** `LlmInv`: the calls made and the calls left
(`CallsLeft`) never exceed the budget, and a call is retried only if nothing was
spoken; `DownInv`. **AgentLife.** `LifeInv` says which phase of `shutdown()` has put an
end to what; `RestartsExcludeCorrect`, `ClosedIsSilentCorrect`, `LifeTypeCorrect`.
**Dialogue.** `TurnsInv`: every wait is for a cancelled turn; each step of the machine
leaves the tasks alone, cancels one, ends one, or spawns one (`StepTasks`).

Theorems about `LeftBehindStops`, `SynthOrder`, `OneVoicePerRequest`, `DownIsEarned`,
`RestartsExclude`, `ClosedIsSilent` and `AwaitedTurnsEnd` are of formulas that are not
among the runs' properties; TLC finds them true on the runs' instances too.

### Model-checked only

Liveness is outside the prover's reach: `ReloadTerminates`, `CallsReturn`, `TurnEnds`,
`DisconnectCloses`, `InFlightEnds`, `EdgeCallsEnd`, `RequestEnds`, `StreamEnds`,
`FlushAnswered`, `ClosedFreesSlot`, `ComesBack`, `CaptureRecovers`, `ThinkingWatched`,
`GateReopens`. `EdgeAsr` has no theorem: its property is liveness.

## 6. Plan

What is left, in this order:

1. Type correctness of `Dialogue` (`DTypeOK`), and what its invariants say of the
   latches: that THINKING without a turn has a watchdog.
2. `EdgeAsr`: a deadline that leaves a session behind in the worker, and then that a
   session of the worker belongs to the stream that asks for it.
3. An abstract request service that `WorkerIO` implements for its two owners.
4. The fallback of a `reload()` whose manager is accepted during the drain (section 4),
   once the code registers such a connection.

## 7. Not modelled

Signal processing and tensor code; the worker binaries, CUDA and the recognizer
libraries beyond what their callers rely on; the server VAD (a counter over the
scores of a network: `V2VAsr` lets it report at any frame); authentication, metrics
and log formatting; the presentation of the dashboard, wake-word engines, the event
bus; the translator service, benches, scripts, deployment, vendored code and data.
Each is listed in `PROJECT.json` with the reason. Left out inside the modelled
components: `BackendManager.shutdown()` and `ASRSessionManager.mark_error()`, which
nothing but tests calls; a `reload()` without a profile, which no endpoint sends;
the exhaustion of the default executor's threads by waiting `send_request()`s;
where pysbd divides a text; the artifact pre-flight of a reload; the format of speaker
embeddings and chat templates.
