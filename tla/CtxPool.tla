------------------------------ MODULE CtxPool ------------------------------
(***************************************************************************)
(* app/backends/jetson/kokoro_trt.py and matcha_trt.py: the pool of TensorRT *)
(* context slots.  preload() builds K slots and puts them in _ctx_pool;      *)
(* synthesize() borrows one, launches kernels on the slot's CUDA stream with *)
(* buffers of the slot's arena, resets the slot and puts it back.  unload()  *)
(* drains the queue and destroys the slots, while a thread that its caller   *)
(* has given up on may still hold one or stand before _ctx_pool.get().       *)
(*                                                                           *)
(* A slot is its number in the order of creation.  A synthesis is the        *)
(* sequence of its TensorRT stages: a stage allocates a unit of the arena    *)
(* (or a cudaMalloc when the arena is full), launches a kernel and waits for *)
(* it, except the device-resident stages of Kokoro's split generator, which  *)
(* go on at once.  What the tensors hold is left out.                        *)
(***************************************************************************)
EXTENDS Naturals, Sequences, FiniteSets

CONSTANTS
  Synths,     \* threads in synthesize() or generate_streaming()
  PoolSize,   \* OVS_TTS_STREAM_MAX_WORKERS
  Arena,      \* units of device memory in a slot's arena
  MaxSlots    \* bound: slots created

ASSUME SynthsFinite == IsFiniteSet(Synths) /\ "owner" \notin Synths
ASSUME PoolBounds == PoolSize \in Nat \ {0} /\ Arena \in Nat \ {0} /\ MaxSlots \in Nat

VARIABLES
  gKind,    \* "kokoro" or "matcha"
  gMode,    \* _runtime_mode or _acoustic_mode
  gLoaded,  \* an engine or an ORT session is held
  gReady,   \* _ready
  gSlots,   \* _slots
  gQueue,   \* _ctx_pool
  gMade,    \* slots created so far
  gBusy,    \* slots whose stream has a kernel in flight
  gUsed,    \* units of a slot's arena in use (_arena_offset)
  gOver,    \* allocations of a slot outside its arena (_overflow_allocs)
  gPc,      \* where each thread is
  gSlot,    \* the slot a thread has borrowed
  gStage,   \* the stages its synthesis has still to run
  gLeft     \* text segments it has still to synthesize

gVars == <<gKind, gMode, gLoaded, gReady, gSlots, gQueue, gMade, gBusy, gUsed,
           gOver, gPc, gSlot, gStage, gLeft>>
gBackend == <<gMode, gLoaded, gReady, gSlots, gMade>>
gDevice == <<gBusy, gUsed, gOver>>

Owner == "owner"        \* the BackendManager's thread, in preload()
NoSlot == 0
SlotIds == 1 .. MaxSlots
GThreads == Synths \cup {Owner}
KokoroModes == {"engine", "hybrid", "split", "split_cpu_source", "ort"}
MatchaModes == {"full_ort", "split_trt"}

\* The stages of one synthesis: "free" ends with free_all(), "async" does not wait.
EngineStages == <<"free">>
HybridStages == <<"sync">>
SplitStages(cpuSource) ==
  IF cpuSource THEN <<"sync", "sync", "sync">> ELSE <<"sync", "async", "async", "sync">>
AcousticStages == <<"sync">>    \* the ODE steps, alike
VocosStages == <<"sync">>
StagesOf(mode) ==
  CASE mode = "engine" -> EngineStages
    [] mode = "hybrid" -> HybridStages
    [] mode = "split" -> SplitStages(FALSE)
    [] mode = "split_cpu_source" -> SplitStages(TRUE)
    [] mode = "split_trt" -> AcousticStages \o VocosStages
    [] mode = "full_ort" -> VocosStages
    [] OTHER -> <<>>

GInit(kinds) ==
  /\ gKind \in kinds /\ gMode = "none" /\ gLoaded = FALSE /\ gReady = FALSE
  /\ gSlots = {} /\ gQueue = <<>> /\ gMade = 0
  /\ gBusy = {}
  /\ gUsed = [s \in SlotIds |-> 0] /\ gOver = [s \in SlotIds |-> 0]
  /\ gPc = [c \in GThreads |-> "idle"]
  /\ gSlot = [c \in GThreads |-> NoSlot]
  /\ gStage = [c \in GThreads |-> <<>>]
  /\ gLeft = [c \in GThreads |-> 0]

GGoto(c, p) == gPc' = [gPc EXCEPT ![c] = p]

-----------------------------------------------------------------------------
(* preload() and unload() *)

NewSlots == (gMade + 1) .. (gMade + PoolSize)
BuiltQueue(old) == old \o [i \in 1 .. PoolSize |-> gMade + i]
\* Kokoro drains what an earlier pool left in the queue, Matcha does not.
QueueBefore == IF gKind = "kokoro" THEN <<>> ELSE gQueue

\* _build_ctx_pool(), then _warmup(): a synthesis by the same thread.
BuildAndWarm ==
  /\ gMade + PoolSize <= MaxSlots
  /\ gSlots' = NewSlots /\ gMade' = gMade + PoolSize
  /\ gQueue' = BuiltQueue(QueueBefore)
  /\ GGoto(Owner, "check") /\ gLeft' = [gLeft EXCEPT ![Owner] = 1]
  /\ UNCHANGED <<gSlot, gStage, gDevice, gKind>>

\* The loaders: engines and sessions are there and the mode is set.
LoadEngine == gMode' = "engine" /\ gLoaded' = TRUE
LoadHybrid == gMode' = "hybrid" /\ gLoaded' = TRUE
LoadSplitGenerator == gMode' \in {"split", "split_cpu_source"} /\ gLoaded' = TRUE
LoadOrt == gMode' = "ort" /\ gLoaded' = TRUE
LoadAcoustic == gMode' \in MatchaModes
LoadEngines == gLoaded' = TRUE

\* preload(): the mode the settings and the files ask for.
KokoroPreload ==
  /\ gKind = "kokoro" /\ ~gReady /\ gPc[Owner] = "idle"
  /\ LoadEngine \/ LoadHybrid \/ LoadSplitGenerator \/ LoadOrt
  /\ BuildAndWarm /\ UNCHANGED gReady
MatchaPreload ==
  /\ gKind = "matcha" /\ ~gReady /\ gPc[Owner] = "idle"
  /\ LoadAcoustic /\ LoadEngines
  /\ BuildAndWarm /\ UNCHANGED gReady

\* A file is missing or an engine does not load: what was loaded stays.
LoadRaises ==
  /\ ~gReady /\ ~gLoaded /\ gPc[Owner] = "idle"
  /\ gLoaded' = TRUE
  /\ UNCHANGED <<gKind, gMode, gReady, gSlots, gQueue, gMade, gDevice, gPc, gSlot,
                 gStage, gLeft>>

\* The warm-up has come back.
PreloadReturns ==
  /\ gPc[Owner] = "end"
  /\ gReady' = TRUE /\ GGoto(Owner, "idle")
  /\ UNCHANGED <<gKind, gMode, gLoaded, gSlots, gQueue, gMade, gDevice, gSlot, gStage, gLeft>>

\* The warm-up raised: a full engine gives way to CPU ORT (a second build and a
\* second warm-up), any other mode passes the error on.
FallBackToOrt ==
  /\ gPc[Owner] = "raised" /\ gMode = "engine"
  /\ LoadOrt /\ UNCHANGED gReady
  /\ gMade + PoolSize <= MaxSlots
  /\ gSlots' = NewSlots /\ gMade' = gMade + PoolSize
  /\ gQueue' = BuiltQueue(<<>>)
  /\ GGoto(Owner, "check")
  /\ gBusy' = gBusy \ gSlots
  /\ gUsed' = [s \in SlotIds |-> IF s \in gSlots THEN 0 ELSE gUsed[s]]
  /\ gOver' = [s \in SlotIds |-> IF s \in gSlots THEN 0 ELSE gOver[s]]
  /\ gLeft' = [gLeft EXCEPT ![Owner] = 1]
  /\ UNCHANGED <<gKind, gSlot, gStage>>
PreloadRaises ==
  /\ gPc[Owner] = "raised" /\ gMode # "engine"
  /\ GGoto(Owner, "idle")
  /\ UNCHANGED <<gKind, gMode, gLoaded, gReady, gSlots, gQueue, gMade, gDevice, gSlot, gStage, gLeft>>

\* unload(): drain the queue, then synchronize and destroy every slot, then
\* engines and sessions.  A slot that a thread still holds is destroyed as well.
Destroyed ==
  /\ gQueue' = <<>> /\ gSlots' = {}
  /\ gBusy' = gBusy \ gSlots
  /\ gUsed' = [s \in SlotIds |-> IF s \in gSlots THEN 0 ELSE gUsed[s]]
  /\ gOver' = [s \in SlotIds |-> IF s \in gSlots THEN 0 ELSE gOver[s]]
KokoroUnload ==
  /\ gKind = "kokoro" /\ gPc[Owner] = "idle"
  /\ gReady \/ gLoaded \/ gSlots # {}
  /\ gReady' = FALSE /\ gLoaded' = FALSE /\ Destroyed
  /\ UNCHANGED <<gKind, gMode, gMade, gPc, gSlot, gStage, gLeft>>
MatchaUnload ==
  /\ gKind = "matcha" /\ gPc[Owner] = "idle"
  /\ gReady \/ gLoaded \/ gSlots # {}
  /\ gReady' = FALSE /\ gLoaded' = FALSE /\ Destroyed
  /\ UNCHANGED <<gKind, gMode, gMade, gPc, gSlot, gStage, gLeft>>

-----------------------------------------------------------------------------
(* synthesize() *)

\* Kokoro cuts a text that is too long for the engine's token profile.
TextSegments == IF gKind = "kokoro" THEN 1 .. 2 ELSE {1}
Synthesize(c) ==
  /\ gReady /\ gPc[c] = "idle"
  /\ gLeft' \in {[gLeft EXCEPT ![c] = n] : n \in TextSegments}
  /\ GGoto(c, "check")
  /\ UNCHANGED <<gKind, gBackend, gQueue, gDevice, gSlot, gStage>>

\* _text_to_token_ids(): a text without tokens is silence, before any slot is taken.
KokoroTokenless(c) ==
  /\ gPc[c] = "check" /\ gKind = "kokoro" /\ GGoto(c, "next")
  /\ UNCHANGED <<gKind, gBackend, gQueue, gDevice, gSlot, gStage, gLeft>>
\* if self._slots: ... get()
CheckSlots(c) ==
  /\ gPc[c] = "check"
  /\ GGoto(c, IF gSlots # {} THEN "get" ELSE "oneoff")
  /\ UNCHANGED <<gKind, gBackend, gQueue, gDevice, gSlot, gStage, gLeft>>

\* _text_to_tokens() of Matcha: without tokens there is nothing to run.
MatchaTokenless == IF gKind = "matcha" THEN {<<>>} ELSE {}
Get(c) ==
  /\ gPc[c] = "get" /\ gQueue # <<>>
  /\ gSlot' = [gSlot EXCEPT ![c] = Head(gQueue)] /\ gQueue' = Tail(gQueue)
  /\ gStage' \in {[gStage EXCEPT ![c] = st] : st \in {StagesOf(gMode)} \cup MatchaTokenless}
  /\ GGoto(c, "run")
  /\ UNCHANGED <<gKind, gBackend, gDevice, gLeft>>

\* An error ends the call; only preload() looks at it.
Raised(c) ==
  GGoto(c, IF c = Owner THEN "raised" ELSE "end") /\ gLeft' = [gLeft EXCEPT ![c] = 0]

\* No pool: Matcha makes contexts of its own and destroys them, Kokoro runs CPU
\* ORT or fails its assertion.
OneOff(c) ==
  /\ gPc[c] = "oneoff"
  /\ (GGoto(c, "next") /\ UNCHANGED gLeft) \/ Raised(c)
  /\ UNCHANGED <<gKind, gBackend, gQueue, gDevice, gSlot, gStage>>

\* CudaMemoryPool.allocate(): bump the offset, or cudaMalloc beyond the arena.
Allocate(s) ==
  IF gUsed[s] < Arena
    THEN gUsed' = [gUsed EXCEPT ![s] = @ + 1] /\ UNCHANGED gOver
    ELSE gOver' = [gOver EXCEPT ![s] = @ + 1] /\ UNCHANGED gUsed
FreeAll(s) ==
  /\ gUsed' = [gUsed EXCEPT ![s] = 0]
  /\ gOver' = [gOver EXCEPT ![s] = 0]

\* _run_trt_context() up to execute_async_v3(): buffers, then the kernel.
Launch(c) ==
  /\ gPc[c] = "run" /\ gStage[c] # <<>>
  /\ Allocate(gSlot[c])
  /\ gBusy' = gBusy \cup {gSlot[c]}
  /\ IF Head(gStage[c]) = "async"
       THEN gStage' = [gStage EXCEPT ![c] = Tail(@)] /\ UNCHANGED gPc
       ELSE GGoto(c, "sync") /\ UNCHANGED gStage
  /\ UNCHANGED <<gKind, gBackend, gQueue, gSlot, gLeft>>

\* synchronize() and copy_dtoh().
Synchronize(c) ==
  /\ gPc[c] = "sync" /\ gSlot[c] \notin gBusy
  /\ IF Head(gStage[c]) = "free" THEN FreeAll(gSlot[c]) ELSE UNCHANGED <<gUsed, gOver>>
  /\ gStage' = [gStage EXCEPT ![c] = Tail(@)]
  /\ GGoto(c, "run")
  /\ UNCHANGED <<gKind, gBackend, gQueue, gBusy, gSlot, gLeft>>

\* Binding, allocation, the launch or the copy raises: kernels that an earlier
\* stage launched may be in flight.
StageRaises(c) ==
  /\ gPc[c] = "run" /\ gStage[c] # <<>>
  /\ GGoto(c, "unwind") /\ gStage' = [gStage EXCEPT ![c] = <<>>]
  /\ UNCHANGED <<gKind, gBackend, gQueue, gDevice, gSlot, gLeft>>

\* A length outside the split generator's buckets: CPU ORT, for this request and,
\* as _load_ort() sets _runtime_mode, for all that follow.
ShapeMismatch(c) ==
  /\ gPc[c] = "run" /\ gMode \in {"split", "split_cpu_source"} /\ gStage[c] # <<>>
  /\ LoadOrt
  /\ gStage' = [gStage EXCEPT ![c] = <<>>]
  /\ UNCHANGED <<gKind, gReady, gSlots, gMade, gQueue, gDevice, gPc, gSlot, gLeft>>

\* reset_per_request(), in the finally block.  Kokoro waits for its stream first.
ResetAtOnce(c) ==
  /\ \/ gPc[c] = "run" /\ gStage[c] = <<>> /\ GGoto(c, "put")
     \/ gPc[c] = "unwind" /\ GGoto(c, "putraise")
  /\ FreeAll(gSlot[c])
  /\ UNCHANGED <<gKind, gBackend, gQueue, gBusy, gSlot, gStage, gLeft>>
Reset(c) ==
  /\ gKind = "kokoro" => gSlot[c] \notin gBusy
  /\ \/ gPc[c] = "run" /\ gStage[c] = <<>> /\ GGoto(c, "put")
     \/ gPc[c] = "unwind" /\ GGoto(c, "putraise")
  /\ FreeAll(gSlot[c])
  /\ UNCHANGED <<gKind, gBackend, gQueue, gBusy, gSlot, gStage, gLeft>>

Put(c) ==
  /\ gPc[c] \in {"put", "putraise"}
  /\ gQueue' = Append(gQueue, gSlot[c])
  /\ gSlot' = [gSlot EXCEPT ![c] = NoSlot]
  /\ IF gPc[c] = "put" THEN GGoto(c, "next") /\ UNCHANGED gLeft ELSE Raised(c)
  /\ UNCHANGED <<gKind, gBackend, gDevice, gStage>>

\* The next segment, or the end of the text.
NextSegment(c) ==
  /\ gPc[c] = "next"
  /\ gLeft' = [gLeft EXCEPT ![c] = @ - 1]
  /\ GGoto(c, IF gLeft[c] > 1 THEN "check" ELSE "end")
  /\ UNCHANGED <<gKind, gBackend, gQueue, gDevice, gSlot, gStage>>

\* The GPU finishes what a stream was given.
GpuDone(s) ==
  /\ s \in gBusy /\ gBusy' = gBusy \ {s}
  /\ UNCHANGED <<gKind, gBackend, gQueue, gUsed, gOver, gPc, gSlot, gStage, gLeft>>

GStep(c) ==
  \/ KokoroTokenless(c) \/ CheckSlots(c) \/ Get(c) \/ OneOff(c) \/ Launch(c) \/ Synchronize(c)
  \/ StageRaises(c) \/ ShapeMismatch(c) \/ Reset(c) \/ Put(c) \/ NextSegment(c)
GNext ==
  \/ KokoroPreload \/ MatchaPreload \/ LoadRaises \/ PreloadReturns \/ FallBackToOrt
  \/ PreloadRaises \/ KokoroUnload \/ MatchaUnload
  \/ \E c \in Synths : Synthesize(c)
  \/ \E c \in GThreads : GStep(c)
  \/ \E s \in SlotIds : GpuDone(s)
GSpec == GInit({"kokoro", "matcha"}) /\ [][GNext]_gVars

-----------------------------------------------------------------------------
\* The type invariant.
GTypeOK ==
  /\ gKind \in {"kokoro", "matcha"} /\ gMode \in KokoroModes \cup MatchaModes \cup {"none"}
  /\ gLoaded \in BOOLEAN /\ gReady \in BOOLEAN
  /\ gSlots \subseteq SlotIds /\ gMade \in 0 .. MaxSlots /\ gBusy \subseteq SlotIds
  /\ gQueue \in Seq(SlotIds)
  /\ gUsed \in [SlotIds -> 0 .. Arena] /\ gOver \in [SlotIds -> Nat]
  /\ gPc \in [GThreads -> {"idle", "check", "get", "oneoff", "run", "sync", "unwind",
                           "put", "putraise", "next", "end", "raised"}]
  /\ gSlot \in [GThreads -> SlotIds \cup {NoSlot}]
  /\ gStage \in [GThreads -> Seq({"free", "sync", "async"})] /\ gLeft \in [GThreads -> 0 .. 2]

\* "The queue-based acquire/release guarantees no two threads share a slot at the
\* same time" (_MatchaCtxSlot), and what the defensive sync of Kokoro's
\* reset_per_request is for: a slot that the next request may take is held by
\* nobody, is queued once, has no kernel in flight and no memory allocated; and a
\* slot of the pool that nobody holds is there for the next request.  Whatever the
\* requests raise and whenever unload() and preload() come.
SlotsClean ==
  /\ \A i \in 1 .. Len(gQueue) :
       LET s == gQueue[i] IN
       /\ s \notin gBusy /\ gUsed[s] = 0 /\ gOver[s] = 0
       /\ \A c \in GThreads : gSlot[c] # s
       /\ \A j \in 1 .. Len(gQueue) : gQueue[j] = s => j = i
  /\ \A s \in gSlots : \/ \E c \in GThreads : gSlot[c] = s
                       \/ \E i \in 1 .. Len(gQueue) : gQueue[i] = s
=============================================================================
