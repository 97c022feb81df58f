--------------------------- MODULE EngineStreams ---------------------------
(***************************************************************************)
(* The TTS backends that run an engine in the process itself:                *)
(* jetson/qwen3_trt.py and cpu/sherpa.py give the engine to a thread of its  *)
(* own, whose callback puts audio in a queue that generate_streaming() reads *)
(* up to a sentinel; rk/tts.py pulls chunks out of the rkvoice engine        *)
(* itself.  The consumer may drop the generator at any yield; the engine's   *)
(* thread does not learn of it.  unload() drops the engine under both.       *)
(***************************************************************************)
EXTENDS Naturals, Sequences, FiniteSets

CONSTANTS
  Streams,     \* calls of generate_streaming() or synthesize()
  MaxAudio     \* bound: chunks of one text

ASSUME StreamsFinite == IsFiniteSet(Streams) /\ MaxAudio \in Nat

VARIABLES
  eKind,    \* "qwen3", "sherpa" or "rk"
  eEngine,  \* _engine, _tts or _inner is there
  eReady,   \* is_ready()
  ePc,      \* the generator: "idle", "wait", "yield", "end", "failed", "dropped"
  eRun,     \* its engine thread: "none", "start", "run", "done"
  eQueue,   \* its chunk queue
  eMade,    \* chunks its engine call has produced
  eHeard    \* chunks its consumer has got

eVars == <<eKind, eEngine, eReady, ePc, eRun, eQueue, eMade, eHeard>>
Threaded == {"qwen3", "sherpa"}

EInit(kinds) ==
  /\ eKind \in kinds /\ eEngine = (eKind = "rk") /\ eReady = FALSE
  /\ ePc = [s \in Streams |-> "idle"] /\ eRun = [s \in Streams |-> "none"]
  /\ eQueue = [s \in Streams |-> <<>>]
  /\ eMade = [s \in Streams |-> 0] /\ eHeard = [s \in Streams |-> 0]

EPut(s, item) == eQueue' = [eQueue EXCEPT ![s] = Append(@, item)]
EGo(s, p) == ePc' = [ePc EXCEPT ![s] = p]
eCalls == <<ePc, eRun, eQueue, eMade, eHeard>>

\* preload(): files, model, warm-up.  Once unloaded the RK backend has no engine to
\* load again.
Qwen3Preload ==
  /\ eKind = "qwen3" /\ ~eReady /\ eEngine' = TRUE /\ eReady' = TRUE
  /\ UNCHANGED <<eKind, eCalls>>
SherpaPreload ==
  /\ eKind = "sherpa" /\ ~eReady /\ eEngine' = TRUE /\ eReady' = TRUE
  /\ UNCHANGED <<eKind, eCalls>>
RkPreload ==
  /\ eKind = "rk" /\ ~eReady /\ eEngine /\ eReady' = TRUE
  /\ UNCHANGED <<eKind, eEngine, eCalls>>

\* unload()
Qwen3Unload ==
  /\ eKind = "qwen3" /\ (eReady \/ eEngine)
  /\ eEngine' = FALSE /\ eReady' = FALSE /\ UNCHANGED <<eKind, eCalls>>
SherpaUnload ==
  /\ eKind = "sherpa" /\ (eReady \/ eEngine)
  /\ eEngine' = FALSE /\ eReady' = FALSE /\ UNCHANGED <<eKind, eCalls>>
RkUnload ==
  /\ eKind = "rk" /\ eEngine
  /\ eEngine' = FALSE /\ eReady' = FALSE /\ UNCHANGED <<eKind, eCalls>>

\* generate_streaming() up to the start of the thread.  A text that cannot be
\* tokenized raises here.
Qwen3Stream(s) ==
  /\ eKind = "qwen3" /\ ePc[s] = "idle" /\ (eReady \/ \E t \in Streams : ePc[t] # "idle")
  /\ IF eEngine THEN EGo(s, "wait") /\ eRun' = [eRun EXCEPT ![s] = "start"]
                ELSE EGo(s, "failed") /\ UNCHANGED eRun
  /\ UNCHANGED <<eKind, eEngine, eReady, eQueue, eMade, eHeard>>
SherpaStream(s) ==
  /\ eKind = "sherpa" /\ ePc[s] = "idle" /\ (eReady \/ \E t \in Streams : ePc[t] # "idle")
  /\ EGo(s, "wait") /\ eRun' = [eRun EXCEPT ![s] = "start"]
  /\ UNCHANGED <<eKind, eEngine, eReady, eQueue, eMade, eHeard>>
RkStream(s) ==
  /\ eKind = "rk" /\ ePc[s] = "idle" /\ (eReady \/ \E t \in Streams : ePc[t] # "idle")
  /\ EGo(s, IF eEngine THEN "wait" ELSE "failed")
  /\ UNCHANGED <<eKind, eEngine, eReady, eRun, eQueue, eMade, eHeard>>

\* The thread enters the engine, or finds none; the sentinel is put in a finally.
EngineEnters(s) ==
  /\ eRun[s] = "start" /\ eEngine /\ eRun' = [eRun EXCEPT ![s] = "run"]
  /\ UNCHANGED <<eKind, eEngine, eReady, ePc, eQueue, eMade, eHeard>>
RaisesSilently(s) ==
  /\ eRun[s] = "run" \/ (eRun[s] = "start" /\ ~eEngine)
  /\ eRun' = [eRun EXCEPT ![s] = "done"]
  /\ UNCHANGED <<eKind, eEngine, eReady, ePc, eQueue, eMade, eHeard>>
EngineRaises(s) ==
  /\ eRun[s] = "run" \/ (eRun[s] = "start" /\ ~eEngine)
  /\ EPut(s, "end") /\ eRun' = [eRun EXCEPT ![s] = "done"]
  /\ UNCHANGED <<eKind, eEngine, eReady, ePc, eMade, eHeard>>
EngineChunk(s) ==
  /\ eRun[s] = "run" /\ eMade[s] < MaxAudio
  /\ EPut(s, "chunk") /\ eMade' = [eMade EXCEPT ![s] = @ + 1]
  /\ UNCHANGED <<eKind, eEngine, eReady, ePc, eRun, eHeard>>
EngineReturns(s) ==
  /\ eRun[s] = "run"
  /\ EPut(s, "end") /\ eRun' = [eRun EXCEPT ![s] = "done"]
  /\ UNCHANGED <<eKind, eEngine, eReady, ePc, eMade, eHeard>>

\* The generator's loop, and the consumer that comes back or drops it.
TakeChunk(s) ==
  /\ eKind \in Threaded /\ ePc[s] = "wait" /\ eQueue[s] # <<>>
  /\ eQueue' = [eQueue EXCEPT ![s] = Tail(@)]
  /\ IF Head(eQueue[s]) = "end"
       THEN EGo(s, "end") /\ UNCHANGED eHeard
       ELSE EGo(s, "yield") /\ eHeard' = [eHeard EXCEPT ![s] = @ + 1]
  /\ UNCHANGED <<eKind, eEngine, eReady, eRun, eMade>>
\* rkvoice answers with a chunk, with nothing to play, with the end or an error.
RkChunk(s) ==
  /\ eKind = "rk" /\ ePc[s] = "wait"
  /\ \/ eMade[s] < MaxAudio /\ eMade' = [eMade EXCEPT ![s] = @ + 1]
        /\ \/ EGo(s, "yield") /\ eHeard' = [eHeard EXCEPT ![s] = @ + 1]
           \/ UNCHANGED <<ePc, eHeard>>
     \/ (EGo(s, "end") \/ EGo(s, "failed")) /\ UNCHANGED <<eMade, eHeard>>
  /\ UNCHANGED <<eKind, eEngine, eReady, eRun, eQueue>>
ComesBack(s) ==
  /\ ePc[s] = "yield" /\ EGo(s, "wait")
  /\ UNCHANGED <<eKind, eEngine, eReady, eRun, eQueue, eMade, eHeard>>
Drops(s) ==
  /\ ePc[s] = "yield" /\ EGo(s, "dropped")
  /\ UNCHANGED <<eKind, eEngine, eReady, eRun, eQueue, eMade, eHeard>>

ENext ==
  \/ Qwen3Preload \/ SherpaPreload \/ RkPreload \/ Qwen3Unload \/ SherpaUnload \/ RkUnload
  \/ \E s \in Streams :
       \/ Qwen3Stream(s) \/ SherpaStream(s) \/ RkStream(s)
       \/ EngineEnters(s) \/ EngineRaises(s) \/ EngineChunk(s) \/ EngineReturns(s)
       \/ TakeChunk(s) \/ RkChunk(s) \/ ComesBack(s) \/ Drops(s)
ESpec == EInit({"qwen3", "sherpa", "rk"}) /\ [][ENext]_eVars

-----------------------------------------------------------------------------
\* A generator that waits on its queue, which has no timeout, is never alone: its
\* engine thread runs or has put the sentinel, also when the engine raised or when
\* unload() took it away before the thread looked for it; and a stream that ended
\* has handed out all the audio its engine made, in order.
SentinelComes ==
  \A s \in Streams :
    /\ eKind \in Threaded /\ ePc[s] = "wait" =>
         eRun[s] \in {"start", "run"} \/ eQueue[s] # <<>>
    /\ ePc[s] = "end" /\ eKind \in Threaded => eHeard[s] = eMade[s] /\ eQueue[s] = <<>>
    /\ \A i \in 1 .. Len(eQueue[s]) : eQueue[s][i] = "end" => i = Len(eQueue[s])
=============================================================================
