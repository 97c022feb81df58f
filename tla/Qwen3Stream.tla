---------------------------- MODULE Qwen3Stream ----------------------------
(***************************************************************************)
(* app/backends/jetson/qwen3_asr.py: the two kinds of Qwen3 ASR stream.      *)
(* Qwen3ASRStream collects audio and transcribes it at the end.              *)
(* Qwen3StreamingASRStream encodes it in chunks with a left context, decodes *)
(* partial text from a rolling buffer of encoder frames, detects the end of  *)
(* an utterance by itself and decodes the utterance's audio once more.       *)
(*                                                                           *)
(* Audio is counted in units; a unit is its position in the stream, and      *)
(* contains speech or not.  Samples, mel spectrograms and tokens are left    *)
(* out: a decode is the set of units that it covers.                         *)
(***************************************************************************)
EXTENDS Naturals, FiniteSets

CONSTANTS
  ChunkUnits,    \* CHUNK_SIZE_SEC
  LeftUnits,     \* LEFT_CONTEXT_SEC
  RollingUnits,  \* ROLLING_BUFFER_SEC, in units of audio
  SpeechUnits,   \* VAD_MIN_UTTERANCE_S
  SilenceUnits,  \* VAD_ENDPOINT_SILENCE_MS
  PieceUnits,    \* bound: units of one accept_waveform()
  MaxUnits       \* bound: units of audio

ASSUME QwenUnits ==
  /\ ChunkUnits \in Nat \ {0} /\ SpeechUnits \in Nat \ {0} /\ SilenceUnits \in Nat \ {0}
  /\ LeftUnits \in Nat /\ RollingUnits \in Nat /\ MaxUnits \in Nat
  /\ PieceUnits \subseteq Nat \ {0}

VARIABLES
  qKind,    \* "accumulate" or "streaming"
  qMode,    \* QWEN3_ASR_STREAM_FINAL_MODE: "offline" or "reuse"
  qVad,     \* webrtcvad is there
  qTotal,   \* units accepted
  qBase,    \* units trimmed from the front of _audio_buf
  qProc,    \* _processed_samples
  qEnc,     \* units encoded, in order, each once
  qFrames,  \* units that _encoder_frames covers
  qBuf,     \* _utterance_audio_buffer (or _chunks)
  qSpoken,  \* units that contain speech
  qDone,    \* units that a final decode covered
  qSpeech,  \* _vad_speech_samples
  qSilence, \* _vad_silence_samples
  qFinal,   \* _episode_final
  qEnd      \* "open", "cancelled" or "finalized"

qVars == <<qKind, qMode, qVad, qTotal, qBase, qProc, qEnc, qFrames, qBuf, qSpoken,
           qDone, qSpeech, qSilence, qFinal, qEnd>>
qConfig == <<qKind, qMode, qVad>>

-----------------------------------------------------------------------------
(* Qwen3ASRBackend.preload() and create_stream(): which stream there is follows from *)
(* the files in the model directory, the settings and what of it loads.               *)

QwenFiles == {"pruned engine", "engine", "token map", "pruned embed", "embed", "encoder",
              "encoder engine", "decoder onnx"}
\* The decoder engine; without a pruned one the pruned mode is off.
EnginePath(files, pruned) ==
  IF pruned /\ "pruned engine" \in files THEN "pruned engine"
  ELSE IF "engine" \in files THEN "engine"
  ELSE "none"
HasEncoder(files, native) == (native /\ "encoder engine" \in files) \/ "encoder" \in files
\* The pruned vocabulary is used if token map and embeddings are there as well.
UsesPruned(files, pruned) ==
  pruned /\ {"pruned engine", "token map", "pruned embed"} \subseteq files
HasEmbeds(files, pruned) == UsesPruned(files, pruned) \/ "embed" \in files
\* The TensorRT decoder, else ONNX Runtime, which does not know the pruned vocabulary.
HasTrtDecoder(files, pruned, loads) == EnginePath(files, pruned) # "none" /\ loads
HasDecoder(files, pruned, loads) ==
  \/ HasTrtDecoder(files, pruned, loads)
  \/ ~UsesPruned(files, pruned) /\ "decoder onnx" \in files
\* "Fail closed: pruned mode requires TRT decoder"
PreloadSucceeds(files, pruned, loads) ==
  UsesPruned(files, pruned) => HasTrtDecoder(files, pruned, loads)
StreamKind(files, pruned, native, loads) ==
  IF HasEncoder(files, native) /\ HasDecoder(files, pruned, loads) /\ HasEmbeds(files, pruned)
    THEN "streaming" ELSE "accumulate"

LoadedKinds ==
  {k \in {"accumulate", "streaming"} :
     \E files \in SUBSET QwenFiles, pruned, native, loads \in BOOLEAN :
       PreloadSucceeds(files, pruned, loads) /\ k = StreamKind(files, pruned, native, loads)}

QInit ==
  /\ qKind \in LoadedKinds
  /\ qMode \in {"offline", "reuse"} /\ qVad \in BOOLEAN
  /\ qKind = "accumulate" => qMode = "offline" /\ ~qVad      \* it asks for neither
  /\ qTotal = 0 /\ qBase = 0 /\ qProc = 0 /\ qEnc = 0
  /\ qFrames = {} /\ qBuf = {} /\ qSpoken = {} /\ qDone = {}
  /\ qSpeech = 0 /\ qSilence = 0 /\ qFinal = FALSE /\ qEnd = "open"

MinOf(a, b) == IF a < b THEN a ELSE b
MaxPrefix == LeftUnits + ChunkUnits

\* _process_streaming_chunk(), as often as a whole chunk is there: what follows
\* the processed units is encoded with up to LeftUnits units before it.
ChunksIn(total) == (total - qBase - qProc) \div ChunkUnits
Encoded(n) == qBase + qProc + n * ChunkUnits
\* The rolling buffer drops its oldest chunks.
Rolling(frames, last) ==
  {u \in frames : u <= last /\ u + (IF RollingUnits < ChunkUnits THEN ChunkUnits ELSE RollingUnits) > last}

\* Trimming keeps a left context and a chunk before the processed units.
Trim(proc) == IF proc > 2 * MaxPrefix THEN proc - MaxPrefix ELSE 0

\* _check_new_utterance_resume(): speech after a final starts a new utterance.
Resumes(speech) == qFinal /\ speech
\* The utterance's audio once the new units are appended.
BufAppendFirst(new, speech) == IF Resumes(speech) THEN {} ELSE qBuf \cup new
BufAfter(new, speech) == (IF Resumes(speech) THEN {} ELSE qBuf) \cup new
VadSpeech(n, speech) ==
  LET old == IF Resumes(speech) THEN 0 ELSE qSpeech
  IN IF qVad /\ speech THEN MinOf(old + n, SpeechUnits) ELSE old
VadSilence(n, speech) ==
  LET old == IF Resumes(speech) THEN 0 ELSE qSilence
  IN CASE ~qVad -> old [] qVad /\ speech -> 0 [] OTHER -> MinOf(old + n, SilenceUnits)
\* _check_vad_endpoint()
Endpoint(n, speech) ==
  /\ qVad /\ (~qFinal \/ Resumes(speech))
  /\ VadSpeech(n, speech) >= SpeechUnits /\ VadSilence(n, speech) >= SilenceUnits

\* _final_text(): from the encoder frames, when asked to and when they give text,
\* else from the utterance's audio.
FinalCovers(buf, frames) ==
  IF qMode = "reuse" /\ frames # {} THEN {frames, buf} ELSE {buf}

\* accept_waveform() of the streaming stream, n units with or without speech.
QAccept(n, speech) ==
  LET total == qTotal + n
      new == (qTotal + 1) .. total
      buf == BufAfter(new, speech)
      last == Encoded(ChunksIn(total))
      frames == Rolling((IF Resumes(speech) THEN {} ELSE qFrames)
                          \cup ((qBase + qProc + 1) .. last), last)
      proc == last - qBase
      cut == Trim(proc)
  IN
  /\ qKind = "streaming" /\ qEnd = "open" /\ total <= MaxUnits
  /\ qTotal' = total
  /\ qSpoken' = IF speech THEN qSpoken \cup new ELSE qSpoken
  /\ qEnc' = last /\ qBase' = qBase + cut /\ qProc' = proc - cut
  /\ IF Endpoint(n, speech)
       THEN /\ \E covered \in FinalCovers(buf, frames) : qDone' = qDone \cup covered
            /\ qBuf' = {} /\ qFrames' = {} /\ qSpeech' = 0 /\ qSilence' = 0 /\ qFinal' = TRUE
       ELSE /\ qBuf' = buf /\ qFrames' = frames /\ UNCHANGED qDone
            /\ qSpeech' = VadSpeech(n, speech) /\ qSilence' = VadSilence(n, speech)
            /\ qFinal' = (qFinal /\ ~Resumes(speech))
  /\ UNCHANGED <<qConfig, qEnd>>

\* force_endpoint()
ForceEndpoint ==
  /\ qKind = "streaming" /\ qEnd = "open" /\ ~qFinal
  /\ \E covered \in FinalCovers(qBuf, qFrames) : qDone' = qDone \cup covered
  /\ qBuf' = {} /\ qFrames' = {} /\ qSpeech' = 0 /\ qSilence' = 0 /\ qFinal' = TRUE
  /\ UNCHANGED <<qConfig, qTotal, qBase, qProc, qEnc, qSpoken, qEnd>>

\* finalize(): the tail is encoded; without an endpoint the whole audio is decoded.
QFinalize ==
  /\ qKind = "streaming" /\ qEnd = "open"
  /\ qEnc' = qTotal /\ qProc' = qTotal - qBase
  /\ qFrames' = qFrames \cup ((qBase + qProc + 1) .. qTotal)
  /\ qDone' = IF qFinal THEN qDone ELSE qDone \cup qBuf
  /\ qFinal' = TRUE /\ qEnd' = "finalized"
  /\ UNCHANGED <<qConfig, qTotal, qBase, qBuf, qSpoken, qSpeech, qSilence>>

\* cancel_and_finalize(): the text so far is kept, the audio is dropped.
QCancel ==
  /\ qKind = "streaming" /\ qEnd = "open" /\ qEnd' = "cancelled"
  /\ qBuf' = {} /\ qFrames' = {}
  /\ UNCHANGED <<qConfig, qTotal, qBase, qProc, qEnc, qSpoken, qDone, qSpeech, qSilence, qFinal>>

\* The accumulating stream.
AccAccept(n, speech) ==
  /\ qKind = "accumulate" /\ qEnd = "open" /\ qTotal + n <= MaxUnits
  /\ qTotal' = qTotal + n
  /\ qBuf' = qBuf \cup ((qTotal + 1) .. (qTotal + n))
  /\ qSpoken' = IF speech THEN qSpoken \cup ((qTotal + 1) .. (qTotal + n)) ELSE qSpoken
  /\ UNCHANGED <<qConfig, qBase, qProc, qEnc, qFrames, qDone, qSpeech, qSilence, qFinal, qEnd>>
AccFinalize ==
  /\ qKind = "accumulate" /\ qEnd = "open" /\ qEnd' = "finalized"
  /\ qDone' = qBuf
  /\ UNCHANGED <<qConfig, qTotal, qBase, qProc, qEnc, qFrames, qBuf, qSpoken, qSpeech, qSilence, qFinal>>
AccCancel ==
  /\ qKind = "accumulate" /\ qEnd = "open" /\ qEnd' = "cancelled" /\ qBuf' = {}
  /\ UNCHANGED <<qConfig, qTotal, qBase, qProc, qEnc, qFrames, qSpoken, qDone, qSpeech, qSilence, qFinal>>

QNext ==
  \/ \E n \in PieceUnits, speech \in BOOLEAN : QAccept(n, speech) \/ AccAccept(n, speech)
  \/ ForceEndpoint \/ QFinalize \/ QCancel \/ AccFinalize \/ AccCancel
QSpec == QInit /\ [][QNext]_qVars

-----------------------------------------------------------------------------
\* The type invariant.
QTypeOK ==
  /\ qKind \in {"accumulate", "streaming"} /\ qMode \in {"offline", "reuse"} /\ qVad \in BOOLEAN
  /\ qTotal \in 0 .. MaxUnits /\ qBase \in 0 .. MaxUnits /\ qProc \in 0 .. MaxUnits
  /\ qEnc \in 0 .. MaxUnits
  /\ \A s \in {qFrames, qBuf, qSpoken, qDone} : s \subseteq 1 .. qTotal
  /\ qSpeech \in 0 .. SpeechUnits /\ qSilence \in 0 .. SilenceUnits
  /\ qFinal \in BOOLEAN /\ qEnd \in {"open", "cancelled", "finalized"}

\* "VAD state reset must not discard current chunk (M1 fix)": with the offline final
\* decode, each unit with speech is waiting in the utterance's buffer or is part of
\* a final text, whatever endpoints, resumptions and trims came in between; after
\* finalize() it is part of a final text.  Every unit is encoded once and in order,
\* and the chunk to come has its whole left context although _audio_buf is trimmed.
SpeechKept ==
  /\ qKind = "streaming" => /\ qEnc = qBase + qProc /\ qEnc <= qTotal
                            /\ MinOf(qProc, LeftUnits) = MinOf(qEnc, LeftUnits)
  /\ qMode = "offline" /\ qEnd = "open" => qSpoken \subseteq qBuf \cup qDone
  /\ qMode = "offline" /\ qEnd = "finalized" => qSpoken \subseteq qDone

=============================================================================
