-------------------------- MODULE ParaformerStream --------------------------
(***************************************************************************)
(* app/backends/jetson/paraformer_trt.py: ParaformerTRTStream.  Every chunk  *)
(* runs the encoder over all the audio of the utterance, or over its last    *)
(* CapFrames frames, and integrates (CIF) the frames that are new, except    *)
(* the last Lookahead, which wait for their right context.  What was         *)
(* integrated goes through the decoder once, which may return nothing.       *)
(* finalize() integrates what is left.                                       *)
(*                                                                           *)
(* Audio is counted in LFR frames, a frame is its position in the utterance; *)
(* the weight that CIF carries into the next run counts with its own frame.  *)
(* A stream owns a bundle of TensorRT contexts; unload() and close() race.   *)
(***************************************************************************)
EXTENDS Naturals, Sequences

CONSTANTS
  ChunkFrames,  \* frames in a chunk of CHUNK_SIZE_SEC
  Preroll,      \* PARAFORMER_PREROLL_MS: frames of silence before an utterance
  Lookahead,    \* RIGHT_LOOKAHEAD_LFR
  CapFrames,    \* the encoder engine's longest input, 400 frames
  MaxFrames     \* bound: frames of an utterance

ASSUME ParaformerBounds ==
  /\ ChunkFrames \in Nat \ {0} /\ Lookahead \in Nat /\ CapFrames \in Nat \ {0}
  /\ MaxFrames \in Nat /\ Preroll \in 0 .. (ChunkFrames - 1)

VARIABLES
  jBuf,    \* _audio_buf: frames not yet in a chunk
  jAll,    \* _all_audio
  jCif,    \* _cif_processed_lfr
  jSeen,   \* _all_token_ids: the frames decoded for this utterance, in order
  jMute,   \* frames integrated for which the decoder returned nothing
  jText,   \* the frames the text returned last stands for
  jGone,   \* jMute of that utterance
  jLen,    \* how many frames that utterance had
  jLost,   \* that text is cut short: a forced endpoint, a cancel, no encoder run
  jEnd     \* "open", "cancelled" or "closed"

jRun == <<jCif, jSeen, jMute>>
jVars == <<jBuf, jAll, jRun, jText, jGone, jLen, jLost, jEnd>>

JInit ==
  /\ jBuf = Preroll /\ jAll = 0 /\ jCif = 0 /\ jSeen = <<>> /\ jMute = {}
  /\ jText = <<>> /\ jGone = {} /\ jLen = 0 /\ jLost = FALSE /\ jEnd = "open"

Window(all) == IF all <= CapFrames THEN all ELSE CapFrames
\* The frames a slice [from : to] of the encoder's output stands for.
Slice(all, from, to) == [i \in 1 .. (IF to > from THEN to - from ELSE 0)
                           |-> all - Window(all) + from + i]

\* The decoder runs on what was integrated: into the text, or into nothing.
Decoded(st, cif, frames, dec) ==
  [cif |-> cif,
   seen |-> IF dec THEN st.seen \o frames ELSE st.seen,
   mute |-> IF dec THEN st.mute ELSE st.mute \cup {frames[i] : i \in 1 .. Len(frames)}]

\* One _process_one_chunk() whose encoder returns something.
NoDefer(all, st, dec) ==
  IF Window(all) <= st.cif THEN st
    ELSE Decoded(st, Window(all), Slice(all, st.cif, Window(all)), dec)
OneChunk(all, st, dec) ==
  IF Window(all) <= st.cif + Lookahead THEN st
    ELSE Decoded(st, Window(all) - Lookahead, Slice(all, st.cif, Window(all) - Lookahead), dec)

\* _reset_utterance_state()
ResetUtterance ==
  /\ jBuf' = Preroll /\ jAll' = 0 /\ jCif' = 0 /\ jSeen' = <<>> /\ jMute' = {}

Run == [cif |-> jCif, seen |-> jSeen, mute |-> jMute]

\* accept_waveform() with the frames that complete a chunk, or fewer; enc and dec:
\* the encoder and the decoder return something.
JAccept(n, enc, dec) ==
  /\ jEnd = "open" /\ jAll + jBuf + n <= MaxFrames
  /\ IF jBuf + n < ChunkFrames
       THEN jBuf' = jBuf + n /\ enc /\ dec /\ UNCHANGED <<jAll, jRun>>
       ELSE LET all == jAll + ChunkFrames
                next == IF enc THEN OneChunk(all, Run, dec) ELSE Run
            IN /\ jBuf' = jBuf + n - ChunkFrames /\ jAll' = all
               /\ jCif' = next.cif /\ jSeen' = next.seen /\ jMute' = next.mute
  /\ UNCHANGED <<jText, jGone, jLen, jLost, jEnd>>

\* finalize(): the residue joins the utterance, all pending frames are integrated,
\* unless the encoder returns nothing, and decoded.
JFinalize(enc, dec) ==
  LET all == jAll + jBuf
      from == IF jCif > all - Window(all) THEN jCif - (all - Window(all)) ELSE 0
      last == IF enc THEN Decoded(Run, all, Slice(all, from, Window(all)), dec) ELSE Run
  IN
  /\ jEnd = "open"
  /\ jText' = last.seen /\ jGone' = last.mute
  /\ jLen' = all /\ jLost' = ~enc
  /\ ResetUtterance
  /\ UNCHANGED jEnd

\* force_endpoint(): the text so far; audio that waits is dropped.
JForceEndpoint ==
  /\ jEnd = "open"
  /\ jText' = jSeen /\ jGone' = jMute /\ jLen' = jAll + jBuf /\ jLost' = TRUE
  /\ ResetUtterance
  /\ UNCHANGED jEnd

\* cancel_and_finalize()
JCancel ==
  /\ jEnd = "open" /\ jEnd' = "cancelled"
  /\ jText' = jSeen /\ jGone' = jMute /\ jLen' = jAll + jBuf /\ jLost' = TRUE
  /\ jBuf' = 0
  /\ UNCHANGED <<jAll, jRun>>

\* close(): the contexts are destroyed.
JClose ==
  /\ jEnd # "closed" /\ jEnd' = "closed"
  /\ UNCHANGED <<jBuf, jAll, jRun, jText, jGone, jLen, jLost>>

JNext ==
  \/ \E n \in 1 .. ChunkFrames, enc, dec \in BOOLEAN : JAccept(n, enc, dec)
  \/ \E enc, dec \in BOOLEAN : JFinalize(enc, dec)
  \/ JForceEndpoint \/ JCancel \/ JClose
JSpec == JInit /\ [][JNext]_jVars

-----------------------------------------------------------------------------
\* The type invariant.
JTypeOK ==
  /\ jBuf \in 0 .. MaxFrames /\ jAll \in 0 .. MaxFrames /\ jCif \in 0 .. MaxFrames
  /\ jSeen \in Seq(1 .. MaxFrames) /\ jText \in Seq(1 .. MaxFrames) /\ jLen \in 0 .. MaxFrames
  /\ jMute \subseteq 1 .. MaxFrames /\ jGone \subseteq 1 .. MaxFrames
  /\ jLost \in BOOLEAN /\ jEnd \in {"open", "cancelled", "closed"}

\* t stands for the frames 1 .. n without those of mute, each once and in order.
Stands(t, n, mute) ==
  /\ \A i \in 1 .. Len(t) : t[i] \in (1 .. n) \ mute
  /\ \A f \in (1 .. n) \ mute : \E i \in 1 .. Len(t) : t[i] = f
  /\ \A i, k \in 1 .. Len(t) : i < k => t[i] < t[k]

\* Every frame is integrated exactly once and in order, however the audio is cut
\* into packets and whichever encoder and decoder runs return nothing, and no frame
\* before its right context is there; what the text lacks are the frames whose own
\* decoder run returned nothing, and finalize() leaves out no other.  For utterances
\* that the encoder takes as a whole.
FramesOnce ==
  /\ jAll <= CapFrames => /\ Stands(jSeen, jCif, jMute)
                          /\ jCif = 0 \/ jCif + Lookahead <= jAll
  /\ jLen <= CapFrames /\ ~jLost => Stands(jText, jLen, jGone)

\* "Encoder runs on full all_lfr, so cif_start_local == absolute index": the same
\* without a limit on the length.
FramesOnceAlways ==
  /\ Stands(jSeen, jCif, jMute)
  /\ ~jLost => Stands(jText, jLen, jGone)

\* No frame is missing from the text of a finalize() whose encoder ran, although the
\* decoder returned nothing for a chunk.
NoFrameMuted == ~jLost => jGone = {}
=============================================================================
