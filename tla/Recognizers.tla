---------------------------- MODULE Recognizers ----------------------------
(***************************************************************************)
(* app/backends/cpu/sherpa_asr.py and app/backends/rk/asr.py: a stream of    *)
(* the sherpa-onnx recognizer, which detects endpoints by itself and starts  *)
(* a new native stream after each, and the Rockchip adapter, which forwards  *)
(* audio to rkvoice-stream but transcribes long audio segment by segment,    *)
(* while unload() may take the inner backend away.                           *)
(*                                                                           *)
(* Audio is counted in packets; a text is the sequence of the packets it     *)
(* stands for.  The callers are /asr/stream, with and without server VAD,    *)
(* and the ASR session, whose calls come in any order.                       *)
(***************************************************************************)
EXTENDS Naturals, Sequences

CONSTANTS
  MaxPackets,   \* bound: packets of a stream
  LongPackets,  \* _LONG_AUDIO_THRESHOLD_S
  MaxSegments   \* bound: segments of a long audio

ASSUME RecognizerBounds ==
  MaxPackets \in Nat /\ LongPackets \in Nat /\ MaxSegments \in Nat \ {0}

VARIABLES
  rKind,    \* "sherpa" or "rk"
  rCaller,  \* "plain", "vad" or "session"
  rLoaded,  \* the recognizers, or _inner
  rPc,      \* where the caller is
  rTotal,   \* packets accepted
  rNative,  \* packets in the native stream
  rLast,    \* _last_text
  rEndp,    \* _is_endpoint
  rCache,   \* _final_text_cache once cancelled
  rOut,     \* the final texts delivered, joined
  rSegs,    \* segments still to transcribe
  rTexts    \* what became of the others

rVars == <<rKind, rCaller, rLoaded, rPc, rTotal, rNative, rLast, rEndp, rCache, rOut,
           rSegs, rTexts>>
rConfig == <<rKind, rCaller>>
rText == <<rLast, rEndp, rCache, rOut>>
rLong == <<rSegs, rTexts>>

RInit(kinds) ==
  /\ rKind \in kinds
  /\ rCaller \in IF rKind = "sherpa" THEN {"plain", "vad", "session"} ELSE {"plain"}
  /\ rLoaded = (rKind = "rk")         \* create_asr() in __init__
  /\ rPc = "none" /\ rTotal = 0 /\ rNative = <<>>
  /\ rLast = <<>> /\ rEndp = FALSE /\ rCache = <<>> /\ rOut = <<>>
  /\ rSegs = 0 /\ rTexts = <<>>

-----------------------------------------------------------------------------
(* sherpa-onnx *)

\* preload(): the online recognizer loads or is "not available".
SherpaAsrPreload ==
  /\ rKind = "sherpa" /\ ~rLoaded /\ rPc = "none"
  /\ rLoaded' \in BOOLEAN
  /\ UNCHANGED <<rConfig, rPc, rTotal, rNative, rText, rLong>>
\* unload(): a stream keeps its own reference to the recognizer.
SherpaAsrUnload ==
  /\ rKind = "sherpa" /\ rLoaded /\ rLoaded' = FALSE
  /\ UNCHANGED <<rConfig, rPc, rTotal, rNative, rText, rLong>>
SherpaAsrStream ==
  /\ rKind = "sherpa" /\ rLoaded /\ rPc = "none" /\ rPc' = "recv"
  /\ UNCHANGED <<rConfig, rLoaded, rTotal, rNative, rText, rLong>>

\* The native stream once an endpoint is, or is not, detected.
KeepsStream(native, endpoint) == native
AfterEndpoint(native, endpoint) == IF endpoint THEN <<>> ELSE native

\* accept_waveform(), a packet.
SherpaAccept(endpoint) ==
  /\ rKind = "sherpa" /\ rPc = "recv" /\ rTotal < MaxPackets
  /\ rTotal' = rTotal + 1
  /\ rLast' = Append(rNative, rTotal + 1) /\ rEndp' = endpoint
  /\ rNative' = AfterEndpoint(Append(rNative, rTotal + 1), endpoint)
  /\ rPc' = IF rCaller = "session" THEN "recv" ELSE "accepted"
  /\ UNCHANGED <<rConfig, rLoaded, rCache, rOut, rLong>>
\* get_partial(): an endpoint's text is handed out once.
SherpaPartial ==
  /\ rKind = "sherpa" /\ rPc = IF rCaller = "session" THEN "recv" ELSE "accepted"
  /\ rOut' = IF rEndp THEN rOut \o rLast ELSE rOut
  /\ rEndp' = FALSE /\ rLast' = IF rEndp THEN <<>> ELSE rLast
  /\ rPc' = "recv"
  /\ UNCHANGED <<rConfig, rLoaded, rTotal, rNative, rCache, rLong>>
\* finalize(), at the end of the audio or at an endpoint of the server's VAD.
SherpaFinalize ==
  /\ rKind = "sherpa"
  /\ rPc = "recv" \/ (rPc = "accepted" /\ rCaller = "vad")
  /\ rOut' = rOut \o rNative /\ rPc' = "closed"
  /\ UNCHANGED <<rConfig, rLoaded, rTotal, rNative, rLast, rEndp, rCache, rLong>>
\* cancel_and_finalize(), by the session alone; finalize() then gives the cache.
SherpaCancel ==
  /\ rKind = "sherpa" /\ rCaller = "session" /\ rPc = "recv"
  /\ rCache' = rLast /\ rPc' = "cancelled"
  /\ UNCHANGED <<rConfig, rLoaded, rTotal, rNative, rLast, rEndp, rOut, rLong>>
FinalizeCancelled ==
  /\ rKind = "sherpa" /\ rPc = "cancelled"
  /\ rOut' = rOut \o rCache /\ rPc' = "closed"
  /\ UNCHANGED <<rConfig, rLoaded, rTotal, rNative, rLast, rEndp, rCache, rLong>>

-----------------------------------------------------------------------------
(* Rockchip *)

RkUnloadAsr ==
  /\ rKind = "rk" /\ rLoaded /\ rLoaded' = FALSE
  /\ UNCHANGED <<rConfig, rPc, rTotal, rNative, rText, rLong>>
RkCreate ==
  /\ rKind = "rk" /\ rLoaded /\ rPc = "none" /\ rPc' = "recv"
  /\ UNCHANGED <<rConfig, rLoaded, rTotal, rNative, rText, rLong>>
\* accept_waveform(): the adapter's own copy, then the inner stream, which the
\* adapter keeps after an unload.
RkAccept ==
  /\ rKind = "rk" /\ rPc = "recv" /\ rTotal < MaxPackets
  /\ rTotal' = rTotal + 1 /\ rNative' = Append(rNative, rTotal + 1)
  /\ UNCHANGED <<rConfig, rLoaded, rPc, rText, rLong>>
\* finalize() of short audio: the inner stream's text.
RkFinalizeShort ==
  /\ rKind = "rk" /\ rPc = "recv" /\ rTotal <= LongPackets
  /\ rOut' = rNative /\ rPc' = "closed"
  /\ UNCHANGED <<rConfig, rLoaded, rTotal, rNative, rLast, rEndp, rCache, rLong>>
\* finalize() of long audio: split, then a loop over the segments.
RkFinalizeLong ==
  /\ rKind = "rk" /\ rPc = "recv" /\ rTotal > LongPackets
  /\ rSegs' \in 1 .. MaxSegments /\ rPc' = "segments"
  /\ UNCHANGED <<rConfig, rLoaded, rTotal, rNative, rText, rTexts>>
\* transcribe() of long audio, without a stream.
RkTranscribe ==
  /\ rKind = "rk" /\ rLoaded /\ rPc = "none"
  /\ rSegs' \in 1 .. MaxSegments /\ rPc' = "offline"
  /\ UNCHANGED <<rConfig, rLoaded, rTotal, rNative, rText, rTexts>>

\* A segment: too short, transcribed, or a native error, which is logged and skipped.
SegmentDone(what) ==
  /\ rSegs' = rSegs - 1 /\ rTexts' = Append(rTexts, what)
  /\ UNCHANGED <<rConfig, rLoaded, rPc, rTotal, rNative, rText>>
\* _live_backend_inner() raises _UnloadRaceError, which finalize() passes on ...
UnloadRace ==
  /\ rPc' = "raised"
  /\ UNCHANGED <<rConfig, rLoaded, rTotal, rNative, rText, rLong>>
RkSegment ==
  /\ rPc = "segments" /\ rSegs > 0
  /\ \/ SegmentDone("short")
     \/ rLoaded /\ (SegmentDone("text") \/ SegmentDone("failed"))
     \/ ~rLoaded /\ UnloadRace
\* ... while transcribe() finds no attribute of None and skips the segment.
RkOfflineSegment ==
  /\ rPc = "offline" /\ rSegs > 0
  /\ \/ SegmentDone("short")
     \/ rLoaded /\ (SegmentDone("text") \/ SegmentDone("failed"))
     \/ ~rLoaded /\ SegmentDone("gone")
\* _join_segments()
RkJoin ==
  /\ rPc \in {"segments", "offline"} /\ rSegs = 0
  /\ rPc' = IF rPc = "segments" THEN "joined" ELSE "closed"
  /\ UNCHANGED <<rConfig, rLoaded, rTotal, rNative, rText, rLong>>

RNext ==
  \/ SherpaAsrPreload \/ SherpaAsrUnload \/ SherpaAsrStream
  \/ \E endpoint \in BOOLEAN : SherpaAccept(endpoint)
  \/ SherpaPartial \/ SherpaFinalize \/ SherpaCancel \/ FinalizeCancelled
  \/ RkUnloadAsr \/ RkCreate \/ RkAccept \/ RkFinalizeShort \/ RkFinalizeLong
  \/ RkTranscribe \/ RkSegment \/ RkOfflineSegment \/ RkJoin
RSpec == RInit({"sherpa", "rk"}) /\ [][RNext]_rVars

-----------------------------------------------------------------------------
Packets(n) == [i \in 1 .. n |-> i]
PendingText == IF rEndp THEN rLast ELSE <<>>

\* "Reset stream for next utterance" and "Backend was unloaded mid-finalize -
\* propagate".  What /asr/stream delivers from a sherpa stream, with the endpoint not
\* yet polled and the audio not yet final, is all the audio, in order and once; under
\* server VAD and in a session an endpoint may be lost, but no audio is delivered
\* twice.  A long finalize() of the Rockchip adapter that returns a text has left out
\* no segment because of an unload.
TextWhole ==
  /\ rKind = "sherpa" /\ rCaller = "plain" =>
       IF rPc = "closed" THEN rOut = Packets(rTotal)
                         ELSE rOut \o PendingText \o rNative = Packets(rTotal)
  /\ \A i, j \in 1 .. Len(rOut) : i < j => rOut[i] < rOut[j]
  /\ rPc = "joined" => \A i \in 1 .. Len(rTexts) : rTexts[i] # "gone"
=============================================================================
