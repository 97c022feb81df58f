------------------------- MODULE Recognition_proofs -------------------------
(***************************************************************************)
(* TLAPS proofs about Qwen3Stream, ParaformerStream, Recognizers and       *)
(* Segments: no audio and no text is lost or counted twice by the          *)
(* recognisers, for any chunk sizes, packets and cuts.                     *)
(***************************************************************************)
EXTENDS Qwen3Stream, ParaformerStream, Recognizers, Segments,
        SequenceTheorems, WellFoundedInduction, TLAPS

-----------------------------------------------------------------------------
(* Qwen3Stream *)

\* Once a part of the buffer has been trimmed the left context of the next chunk is there;
\* and what came after a final text, before anyone spoke again, contains no speech.
QwenInv ==
  /\ qKind \in {"accumulate", "streaming"}
  /\ qTotal \in Nat /\ qBase \in Nat /\ qProc \in Nat /\ qEnc \in Nat
  /\ qBase # 0 => qProc >= LeftUnits
  /\ qKind = "accumulate" => ~qFinal /\ (qEnd = "open" => qSpoken \subseteq qBuf)
  /\ qMode = "offline" /\ qFinal /\ qEnd = "open" => qSpoken \subseteq qDone
  /\ SpeechKept

\* Whole chunks never reach beyond the audio that is there.
LEMMA WholeChunks ==
  ASSUME NEW x \in Nat, NEW c \in Nat \ {0}
  PROVE  /\ x \div c \in Nat /\ (x \div c) * c \in Nat /\ (x \div c) * c <= x
OBVIOUS

\* A new stream is empty.
LEMMA QwenInit == QInit => QwenInv
BY QwenUnits DEF QInit, QwenInv, SpeechKept, LoadedKinds, MinOf

\* The counters after accept_waveform(): encoded in order, and trimmed.
LEMMA AcceptCounts ==
  ASSUME QwenInv, NEW n \in PieceUnits, NEW speech \in BOOLEAN, QAccept(n, speech)
  PROVE  /\ qTotal' \in Nat /\ qBase' \in Nat /\ qProc' \in Nat /\ qEnc' \in Nat
         /\ qBase' # 0 => qProc' >= LeftUnits
         /\ qEnc' = qBase' + qProc' /\ qEnc' <= qTotal'
<1> USE QwenUnits
<1> DEFINE total == qTotal + n
           x == total - qBase - qProc
           k == (x \div ChunkUnits) * ChunkUnits
           last == qBase + qProc + k
           proc == last - qBase
<1>1. /\ qTotal \in Nat /\ qBase \in Nat /\ qProc \in Nat /\ qEnc = qBase + qProc /\ qEnc <= qTotal
      /\ qBase # 0 => qProc >= LeftUnits
  BY DEF QwenInv, SpeechKept, QAccept
<1>2. x \in Nat /\ total \in Nat
  BY <1>1
<1>3. k \in Nat /\ k <= x
  <2> HIDE DEF x
  <2> QED
    BY <1>2, WholeChunks
<1>4. /\ qTotal' = total /\ qEnc' = last /\ qBase' = qBase + Trim(proc)
         /\ qProc' = proc - Trim(proc)
  BY DEF QAccept, Encoded, ChunksIn
<1> HIDE DEF k
<1>5. last \in Nat /\ last <= total /\ proc = qProc + k /\ proc \in Nat
  BY <1>1, <1>2, <1>3
<1> HIDE DEF x
<1>6. CASE proc > 2 * MaxPrefix
  <2>1. Trim(proc) = proc - MaxPrefix /\ MaxPrefix \in Nat /\ MaxPrefix >= LeftUnits
    BY <1>6 DEF Trim, MaxPrefix
  <2>2. proc - MaxPrefix \in Nat
    BY <1>5, <1>6, <2>1
  <2>3. qBase' = qBase + (proc - MaxPrefix) /\ qProc' = MaxPrefix /\ last = qBase + proc
    BY <1>1, <1>4, <1>5, <2>1
  <2> HIDE DEF proc, last, total
  <2>4. qBase + (proc - MaxPrefix) + MaxPrefix = qBase + proc
    BY <1>1, <1>5, <2>1
  <2>5. qBase' \in Nat
    BY <1>1, <2>2, <2>3
  <2>6. qProc' \in Nat /\ qProc' >= LeftUnits
    BY <2>1, <2>3
  <2>7. qEnc' = qBase' + qProc'
    BY <1>4, <2>3, <2>4
  <2>8. qEnc' \in Nat /\ qTotal' \in Nat /\ qEnc' <= qTotal'
    BY <1>2, <1>4, <1>5
  <2> QED
    BY <2>5, <2>6, <2>7, <2>8
<1>7. CASE ~(proc > 2 * MaxPrefix)
  <2>1. Trim(proc) = 0
    BY <1>7 DEF Trim
  <2>2. qBase' = qBase /\ qProc' = proc /\ last = qBase + proc
    BY <1>1, <1>4, <1>5, <2>1
  <2>3. proc >= qProc
    BY <1>1, <1>3, <1>5
  <2> HIDE DEF proc, last, total
  <2> QED
    BY <1>1, <1>2, <1>4, <1>5, <2>2, <2>3
<1> QED
  BY <1>6, <1>7

\* Where the audio of the utterance is after accept_waveform().
LEMMA AcceptCovers ==
  ASSUME QwenInv, NEW n \in PieceUnits, NEW speech \in BOOLEAN,
          QAccept(n, speech), qMode = "offline"
  PROVE  qSpoken' \subseteq qBuf' \cup qDone' /\ (qFinal' => qSpoken' \subseteq qDone')
<1> DEFINE new == (qTotal + 1) .. (qTotal + n)
           buf == BufAfter(new, speech)
<1>1. /\ qSpoken \subseteq qBuf \cup qDone /\ (qFinal => qSpoken \subseteq qDone)
  BY DEF QwenInv, SpeechKept, QAccept
<1>2. qSpoken' = IF speech THEN qSpoken \cup new ELSE qSpoken
  BY DEF QAccept
<1>3. qSpoken' \subseteq buf \cup qDone
  BY <1>1, <1>2 DEF BufAfter, Resumes
<1>4. CASE Endpoint(n, speech)
  <2>1. qDone' = qDone \cup buf
    BY <1>4 DEF QAccept, FinalCovers
  <2> QED
    BY <1>3, <2>1
<1>5. CASE ~Endpoint(n, speech)
  <2>1. qBuf' = buf /\ qDone' = qDone /\ qFinal' = (qFinal /\ ~Resumes(speech))
    BY <1>5 DEF QAccept
  <2>2. qFinal' => qFinal /\ ~speech
    BY <2>1 DEF Resumes
  <2> QED
    BY <1>1, <1>2, <1>3, <2>1, <2>2
<1> QED
  BY <1>4, <1>5

\* The left context of a chunk, in samples that the buffer has.
LEMMA LeftContext ==
  ASSUME NEW base \in Nat, NEW proc \in Nat, base # 0 => proc >= LeftUnits
  PROVE  MinOf(proc, LeftUnits) = MinOf(base + proc, LeftUnits)
BY QwenUnits DEF MinOf

\* Every step of a stream keeps the invariant.
LEMMA QwenStep ==
  ASSUME QwenInv, [QNext]_qVars
  PROVE  QwenInv'
<1> USE QwenUnits
<1>1. ASSUME NEW n \in PieceUnits, NEW speech \in BOOLEAN, QAccept(n, speech) PROVE QwenInv'
  <2>1. UNCHANGED <<qKind, qMode, qEnd>> /\ qKind = "streaming" /\ qEnd = "open"
    BY <1>1 DEF QAccept, qConfig
  <2>2. MinOf(qProc', LeftUnits) = MinOf(qEnc', LeftUnits)
    BY <1>1, AcceptCounts, LeftContext
  <2> QED
    BY <1>1, <2>1, <2>2, AcceptCounts, AcceptCovers DEF QwenInv, SpeechKept, MinOf
<1>2. ASSUME NEW n \in PieceUnits, NEW speech \in BOOLEAN, AccAccept(n, speech) PROVE QwenInv'
  <2>1. /\ UNCHANGED <<qKind, qMode, qBase, qProc, qEnc, qDone, qFinal, qEnd>>
           /\ qKind = "accumulate"
        /\ qEnd = "open" /\ qTotal' = qTotal + n /\ qSpoken \subseteq qBuf
    BY <1>2 DEF AccAccept, qConfig, QwenInv
  <2>2. qTotal' \in Nat
    BY <2>1 DEF QwenInv
  <2>3. qSpoken' \subseteq qBuf'
    BY <1>2, <2>1 DEF AccAccept
  <2>4. ~qFinal
    BY <2>1 DEF QwenInv
  <2> QED
    BY <2>1, <2>2, <2>3, <2>4 DEF QwenInv, SpeechKept, MinOf
<1>3. CASE ForceEndpoint
  BY <1>3 DEF ForceEndpoint, FinalCovers, qConfig, QwenInv, SpeechKept, MinOf
<1>4. CASE QFinalize
  BY <1>4 DEF QFinalize, qConfig, QwenInv, SpeechKept, MinOf
<1>5. CASE QCancel \/ AccFinalize \/ AccCancel
  BY <1>5 DEF QCancel, AccFinalize, AccCancel, qConfig, QwenInv, SpeechKept, MinOf
<1>6. CASE UNCHANGED qVars
  BY <1>6 DEF qVars, QwenInv, SpeechKept, MinOf
<1> QED
  BY <1>1, <1>2, <1>3, <1>4, <1>5, <1>6 DEF QNext

\* With the offline final decode no speech is lost, and every unit is encoded once, in
\* order and with its left context.
THEOREM SpeechKeptCorrect == QSpec => []SpeechKept
<1>1. QwenInv /\ [QNext]_qVars => QwenInv'
  BY QwenStep
<1>2. QwenInv => SpeechKept
  BY DEF QwenInv
<1> QED
  BY <1>1, <1>2, QwenInit, PTL DEF QSpec

-----------------------------------------------------------------------------
(* ParaformerStream *)

ParaformerInv ==
  /\ jBuf \in Nat /\ jAll \in Nat /\ jCif \in Nat /\ jLen \in Nat
  /\ jSeen \in Seq(Nat)
  /\ jAll <= CapFrames => jMute \subseteq 1 .. jCif
  /\ FramesOnce

\* A slice of the encoder's output, and what it is when the encoder took all frames.
LEMMA SliceType ==
  ASSUME NEW all \in Nat, NEW from \in Nat, NEW to \in Nat, CapFrames \in Nat
  PROVE  Slice(all, from, to) \in Seq(Nat)
<1> DEFINE n == IF to > from THEN to - from ELSE 0
<1>1. n \in Nat /\ Slice(all, from, to) = [i \in 1 .. n |-> all - Window(all) + from + i]
  BY DEF Slice
<1>2. \A i \in 1 .. n : all - Window(all) + from + i \in Nat
  BY DEF Window
<1> HIDE DEF n
<1> QED
  BY <1>1, <1>2

LEMMA SliceOfAll ==
  ASSUME NEW all \in Nat, all <= CapFrames, NEW from \in Nat, NEW to \in Nat, from <= to
  PROVE  /\ Slice(all, from, to) \in Seq(Nat) /\ Len(Slice(all, from, to)) = to - from
         /\ \A i \in 1 .. (to - from) : Slice(all, from, to)[i] = from + i
<1> DEFINE n == IF to > from THEN to - from ELSE 0
           t == [i \in 1 .. n |-> from + i]
<1>1. n \in Nat /\ n = to - from
  OBVIOUS
<1>2. Slice(all, from, to) = t
  <2>1. Window(all) = all
    BY DEF Window
  <2>2. \A i \in Nat : all - all + from + i = from + i
    OBVIOUS
  <2>3. Slice(all, from, to) = [i \in 1 .. n |-> all - all + from + i]
    BY <2>1 DEF Slice
  <2> HIDE DEF n
  <2> QED
    BY <1>1, <2>2, <2>3
<1> HIDE DEF n
<1>3. t \in Seq(Nat) /\ Len(t) = n /\ \A i \in 1 .. n : t[i] = from + i
  BY <1>1
<1> QED
  BY <1>1, <1>2, <1>3

\* A text that is continued by the frames that follow, and one that lacks them.
LEMMA StandsOn ==
  ASSUME NEW s \in Seq(Nat), NEW t \in Seq(Nat), NEW mute,
         NEW from \in Nat, NEW to \in Nat, from <= to,
         Stands(s, from, mute), mute \subseteq 1 .. from,
         Len(t) = to - from, \A i \in 1 .. (to - from) : t[i] = from + i
  PROVE  Stands(s \o t, to, mute)
<1> DEFINE u == s \o t
           m == Len(s)
           n == Len(t)
<1>1. m \in Nat /\ n \in Nat /\ n = to - from /\ from + n = to
  OBVIOUS
<1>2. /\ \A i \in 1 .. m : s[i] \in (1 .. from) \ mute
      /\ \A f \in (1 .. from) \ mute : \E i \in 1 .. m : s[i] = f
      /\ \A i, k \in 1 .. m : i < k => s[i] < s[k]
  BY DEF Stands
<1>3. u \in Seq(Nat) /\ Len(u) = m + n
  BY ConcatProperties
<1>4. \A i \in 1 .. (m + n) : u[i] = IF i <= m THEN s[i] ELSE t[i - m]
  BY ConcatProperties
<1>5. \A i \in 1 .. n : t[i] = from + i
  BY <1>1
<1> HIDE DEF u, m, n
<1>6. ASSUME NEW i \in 1 .. (m + n)
      PROVE  \/ i \in 1 .. m /\ u[i] = s[i] /\ u[i] \in (1 .. from) \ mute
             \/ i > m /\ u[i] = from + (i - m)
  <2>1. CASE i <= m
    <3>1. i \in 1 .. m /\ u[i] = s[i]
      BY <1>1, <1>4, <2>1
    <3> QED
      BY <1>2, <3>1
  <2>2. CASE ~(i <= m)
    <3>1. u[i] = t[i - m] /\ i - m \in 1 .. n /\ i > m
      BY <1>1, <1>4, <2>2
    <3> QED
      BY <1>5, <3>1
  <2> QED
    BY <2>1, <2>2
<1>7. ASSUME NEW i \in 1 .. (m + n) PROVE u[i] \in (1 .. to) \ mute
  <2>1. CASE i \in 1 .. m /\ u[i] = s[i] /\ u[i] \in (1 .. from) \ mute
    BY <1>1, <2>1
  <2>2. CASE i > m /\ u[i] = from + (i - m)
    <3>1. from + (i - m) \in 1 .. to /\ ~(from + (i - m) \in 1 .. from)
      BY <1>1, <2>2
    <3> QED
      BY <2>2, <3>1
  <2> QED
    BY <1>6, <2>1, <2>2
<1>8. ASSUME NEW f \in (1 .. to) \ mute PROVE \E i \in 1 .. (m + n) : u[i] = f
  <2>1. CASE f \in 1 .. from
    <3>1. PICK i \in 1 .. m : s[i] = f
      BY <1>2, <2>1
    <3>2. i \in 1 .. (m + n) /\ u[i] = s[i]
      BY <1>1, <1>4
    <3> QED
      BY <3>1, <3>2
  <2>2. CASE ~(f \in 1 .. from)
    <3>1. m + (f - from) \in 1 .. (m + n) /\ ~(m + (f - from) <= m) /\ f - from \in 1 .. n
      BY <1>1, <2>2
    <3>2. (m + (f - from)) - m = f - from /\ from + (f - from) = f
      BY <1>1
    <3>3. u[m + (f - from)] = t[f - from]
      BY <1>4, <3>1, <3>2
    <3>4. t[f - from] = f
      BY <1>5, <3>1, <3>2
    <3> QED
      BY <3>1, <3>3, <3>4
  <2> QED
    BY <2>1, <2>2
<1>9. ASSUME NEW i \in 1 .. (m + n), NEW k \in 1 .. (m + n), i < k PROVE u[i] < u[k]
  <2>1. CASE k \in 1 .. m
    <3>1. i \in 1 .. m
      BY <1>1, <1>9, <2>1
    <3>2. u[i] = s[i] /\ u[k] = s[k]
      BY <1>1, <1>4, <2>1, <3>1
    <3> QED
      BY <1>2, <1>9, <2>1, <3>1, <3>2
  <2>2. CASE ~(k \in 1 .. m)
    <3>1. u[k] = from + (k - m) /\ k > m
      BY <1>6, <2>2
    <3>2. CASE u[i] \in (1 .. from) \ mute
      BY <1>1, <3>1, <3>2
    <3>3. CASE i > m /\ u[i] = from + (i - m)
      BY <1>1, <1>9, <3>1, <3>3
    <3> QED
      BY <1>6, <3>2, <3>3
  <2> QED
    BY <2>1, <2>2
<1>10. Stands(u, to, mute)
  BY <1>3, <1>7, <1>8, <1>9 DEF Stands
<1> QED
  BY <1>10 DEF u

LEMMA StandsWithout ==
  ASSUME NEW s \in Seq(Nat), NEW mute, NEW gone, NEW from \in Nat, NEW to \in Nat, from <= to,
         Stands(s, from, mute), mute \subseteq 1 .. from,
         \A f : f \in gone <=> f \in 1 .. to /\ ~(f \in 1 .. from)
  PROVE  Stands(s, to, mute \cup gone)
<1>1. /\ \A i \in 1 .. Len(s) : s[i] \in (1 .. from) \ mute
      /\ \A f \in (1 .. from) \ mute : \E i \in 1 .. Len(s) : s[i] = f
      /\ \A i, k \in 1 .. Len(s) : i < k => s[i] < s[k]
  BY DEF Stands
<1>2. ASSUME NEW f \in 1 .. from PROVE f \in 1 .. to /\ f \notin gone
  OBVIOUS
<1>3. ASSUME NEW i \in 1 .. Len(s) PROVE s[i] \in (1 .. to) \ (mute \cup gone)
  BY <1>1, <1>2
<1>4. ASSUME NEW f \in (1 .. to) \ (mute \cup gone) PROVE f \in (1 .. from) \ mute
  OBVIOUS
<1> QED
  BY <1>1, <1>3, <1>4 DEF Stands

\* What the decoder makes of the frames that follow.
LEMMA DecodedStands ==
  ASSUME NEW all \in Nat, all <= CapFrames, NEW from \in Nat, NEW to \in Nat, from <= to,
         NEW s \in Seq(Nat), NEW mute, Stands(s, from, mute), mute \subseteq 1 .. from,
         NEW dec \in BOOLEAN,
         NEW next,
         next = Decoded([cif |-> from, seen |-> s, mute |-> mute], to, Slice(all, from, to), dec)
  PROVE  Stands(next.seen, to, next.mute) /\ next.mute \subseteq 1 .. to
<1> DEFINE t == Slice(all, from, to)
<1>1. t \in Seq(Nat) /\ Len(t) = to - from /\ \A i \in 1 .. (to - from) : t[i] = from + i
  BY SliceOfAll
<1>2. /\ next.seen = IF dec THEN s \o t ELSE s
      /\ next.mute = IF dec THEN mute ELSE mute \cup {t[i] : i \in 1 .. Len(t)}
  BY DEF Decoded
<1> HIDE DEF t
<1>3. CASE dec
  <2>1. Stands(s \o t, to, mute)
    BY <1>1, StandsOn
  <2>2. mute \subseteq 1 .. to
    OBVIOUS
  <2> QED
    BY <1>2, <1>3, <2>1, <2>2
<1>4. CASE ~dec
  <2> DEFINE gone == {t[i] : i \in 1 .. Len(t)}
  <2>1. ASSUME NEW f \in gone PROVE f \in 1 .. to /\ ~(f \in 1 .. from)
    BY <1>1
  <2>2. ASSUME NEW f, f \in 1 .. to, ~(f \in 1 .. from) PROVE f \in gone
    <3>1. f - from \in 1 .. (to - from) /\ from + (f - from) = f
      BY <2>2
    <3>2. t[f - from] = f
      BY <1>1, <3>1
    <3> QED
      BY <1>1, <3>1, <3>2
  <2> HIDE DEF gone
  <2>3. Stands(s, to, mute \cup gone)
    BY <2>1, <2>2, StandsWithout
  <2>4. mute \cup gone \subseteq 1 .. to
    <3>1. \A f \in 1 .. from : f \in 1 .. to
      OBVIOUS
    <3> QED
      BY <2>1, <3>1
  <2>5. next.seen = s /\ next.mute = mute \cup gone
    BY <1>2, <1>4 DEF gone
  <2> QED
    BY <2>3, <2>4, <2>5
<1> QED
  BY <1>3, <1>4

\* A new utterance has no frames.
LEMMA NoFrames == Stands(<<>>, 0, {})
  BY DEF Stands

LEMMA ParaformerInit == JInit => ParaformerInv
<1> SUFFICES ASSUME JInit PROVE ParaformerInv
  OBVIOUS
<1> QED
  BY NoFrames, ParaformerBounds DEF JInit, ParaformerInv, FramesOnce

\* The utterance begins anew, with the text of the last one.
LEMMA ResetKeeps ==
  ASSUME ParaformerInv, ResetUtterance, jLen' = jAll + jBuf,
         jLen' <= CapFrames /\ ~jLost' => Stands(jText', jLen', jGone')
  PROVE  ParaformerInv'
<1>1. Stands(jSeen', jCif', jMute')
  BY NoFrames DEF ResetUtterance
<1> QED
  BY <1>1, ParaformerBounds DEF ResetUtterance, ParaformerInv, FramesOnce

\* One chunk.
LEMMA ChunkKeeps ==
  ASSUME ParaformerInv, NEW n \in 1 .. ChunkFrames, NEW enc \in BOOLEAN, NEW dec \in BOOLEAN,
         JAccept(n, enc, dec)
  PROVE  ParaformerInv'
<1> USE ParaformerBounds
<1>1. /\ UNCHANGED <<jText, jGone, jLen, jLost>>
      /\ jBuf \in Nat /\ jAll \in Nat /\ jCif \in Nat /\ jLen \in Nat /\ jSeen \in Seq(Nat)
      /\ jLen <= CapFrames /\ ~jLost => Stands(jText, jLen, jGone)
  BY DEF JAccept, ParaformerInv, FramesOnce
<1>2. CASE jBuf + n < ChunkFrames
  BY <1>1, <1>2 DEF JAccept, jRun, ParaformerInv, FramesOnce
<1>3. CASE ~(jBuf + n < ChunkFrames)
  <2> DEFINE all == jAll + ChunkFrames
             next == IF enc THEN OneChunk(all, Run, dec) ELSE Run
  <2>1. /\ jBuf' = jBuf + n - ChunkFrames /\ jAll' = all
        /\ jCif' = next.cif /\ jSeen' = next.seen /\ jMute' = next.mute
    BY <1>3 DEF JAccept
  <2>2. jBuf' \in Nat /\ all \in Nat /\ all >= jAll
    BY <1>1, <1>3, <2>1
  <2>3. Window(all) \in Nat /\ (all <= CapFrames => Window(all) = all)
    BY <2>2 DEF Window
  <2>4. all <= CapFrames => /\ jAll <= CapFrames /\ jMute \subseteq 1 .. jCif
                            /\ Stands(jSeen, jCif, jMute)
                            /\ jCif = 0 \/ jCif + Lookahead <= jAll
    BY <1>1, <2>2 DEF ParaformerInv, FramesOnce
  <2> HIDE DEF all
  <2>5. ASSUME next = Run PROVE ParaformerInv'
    <3>1. jCif' = jCif /\ jSeen' = jSeen /\ jMute' = jMute
      BY <2>1, <2>5 DEF Run
    <3> QED
      BY <1>1, <2>1, <2>2, <2>4, <3>1 DEF ParaformerInv, FramesOnce
  <2>6. ASSUME next # Run PROVE ParaformerInv'
    <3> DEFINE to == Window(all) - Lookahead
    <3>1. /\ ~(Window(all) <= jCif + Lookahead)
          /\ next = Decoded(Run, to, Slice(all, jCif, to), dec)
      BY <2>6 DEF OneChunk, Run
    <3>2. to \in Nat /\ jCif <= to /\ to + Lookahead = Window(all)
      BY <1>1, <2>3, <3>1
    <3> HIDE DEF to, next
    <3>3. jCif' = to
      BY <2>1, <3>1 DEF Decoded
    <3>4. Slice(all, jCif, to) \in Seq(Nat)
      BY <1>1, <2>2, <3>2, SliceType
    <3>5. jSeen' \in Seq(Nat)
      <4>1. jSeen' = IF dec THEN jSeen \o Slice(all, jCif, to) ELSE jSeen
        BY <2>1, <3>1 DEF Decoded, Run
      <4>2. jSeen \o Slice(all, jCif, to) \in Seq(Nat)
        BY <1>1, <3>4, ConcatProperties
      <4> QED
        BY <1>1, <4>1, <4>2
    <3>6. all <= CapFrames => Stands(jSeen', to, jMute') /\ jMute' \subseteq 1 .. to
      <4> SUFFICES ASSUME all <= CapFrames
                   PROVE  Stands(next.seen, to, next.mute) /\ next.mute \subseteq 1 .. to
        BY <2>1
      <4>1. Stands(jSeen, jCif, jMute) /\ jMute \subseteq 1 .. jCif
        BY <2>4
      <4>2. next = Decoded([cif |-> jCif, seen |-> jSeen, mute |-> jMute], to,
                           Slice(all, jCif, to), dec)
        BY <3>1 DEF Run
      <4> QED
        BY <1>1, <2>2, <3>2, <4>1, <4>2, DecodedStands
    <3>7. all <= CapFrames => to + Lookahead <= all
      <4>1. \A x \in Nat : x <= x
        OBVIOUS
      <4> QED
        BY <2>2, <2>3, <3>2, <4>1
    <3> QED
      BY <1>1, <2>1, <2>2, <3>2, <3>3, <3>5, <3>6, <3>7 DEF ParaformerInv, FramesOnce
  <2> QED
    BY <2>5, <2>6
<1> QED
  BY <1>2, <1>3

\* finalize() runs what is left.
LEMMA FinalizeKeeps ==
  ASSUME ParaformerInv, NEW enc \in BOOLEAN, NEW dec \in BOOLEAN, JFinalize(enc, dec)
  PROVE  ParaformerInv'
<1> DEFINE all == jAll + jBuf
           from == IF jCif > all - Window(all) THEN jCif - (all - Window(all)) ELSE 0
           last == IF enc THEN Decoded(Run, all, Slice(all, from, Window(all)), dec) ELSE Run
<1>1. /\ jText' = last.seen /\ jGone' = last.mute
      /\ jLen' = all /\ jLost' = ~enc /\ ResetUtterance
  BY DEF JFinalize
<1>2. all \in Nat /\ jAll \in Nat /\ jAll <= all /\ jCif \in Nat /\ jSeen \in Seq(Nat)
  BY DEF ParaformerInv
<1>3. all <= CapFrames /\ enc => Stands(last.seen, all, last.mute)
  <2> SUFFICES ASSUME all <= CapFrames, enc PROVE Stands(last.seen, all, last.mute)
    OBVIOUS
  <2>0. last = Decoded(Run, all, Slice(all, from, Window(all)), dec)
    OBVIOUS
  <2> HIDE DEF all, last
  <2>1. Window(all) = all
    BY DEF Window
  <2>2. jAll <= CapFrames
    BY <1>2, ParaformerBounds
  <2>3. Stands(jSeen, jCif, jMute) /\ jMute \subseteq 1 .. jCif /\ jCif <= all
    BY <1>2, <2>2, ParaformerBounds DEF ParaformerInv, FramesOnce
  <2>4. from = jCif
    BY <1>2, <2>1
  <2>5. last = Decoded([cif |-> jCif, seen |-> jSeen, mute |-> jMute], all,
                       Slice(all, jCif, all), dec)
    BY <2>0, <2>1, <2>4 DEF Run
  <2> QED
    BY <1>2, <2>3, <2>5, DecodedStands
<1>4. jLen' = jAll + jBuf /\ (jLen' <= CapFrames /\ ~jLost' => Stands(jText', jLen', jGone'))
  <2> HIDE DEF all, last
  <2>1. jLen' <= CapFrames /\ ~jLost' => Stands(jText', jLen', jGone')
    BY <1>1, <1>3
  <2> QED
    BY <1>1, <2>1 DEF all
<1> QED
  BY <1>1, <1>4, ResetKeeps

\* Every step of a stream keeps the invariant.
LEMMA ParaformerStep ==
  ASSUME ParaformerInv, [JNext]_jVars
  PROVE  ParaformerInv'
<1>1. CASE JForceEndpoint
  BY <1>1, ResetKeeps DEF JForceEndpoint
<1>2. CASE JCancel
  BY <1>2 DEF JCancel, jRun, ParaformerInv, FramesOnce
<1>3. CASE JClose \/ UNCHANGED jVars
  BY <1>3 DEF JClose, jVars, jRun, ParaformerInv, FramesOnce
<1> QED
  BY <1>1, <1>2, <1>3, ChunkKeeps, FinalizeKeeps DEF JNext

\* Every frame is integrated once and in order.
THEOREM FramesOnceCorrect == JSpec => []FramesOnce
<1>1. ParaformerInv /\ [JNext]_jVars => ParaformerInv'
  BY ParaformerStep
<1>2. ParaformerInv => FramesOnce
  BY DEF ParaformerInv
<1> QED
  BY <1>1, <1>2, ParaformerInit, PTL DEF JSpec

-----------------------------------------------------------------------------
(* Recognizers *)

\* Texts as sequences of packets: in order, one before the other, and up to packet n.
Rising(t) == \A i, j \in 1 .. Len(t) : i < j => t[i] < t[j]
Before(t, u) == \A i \in 1 .. Len(t), j \in 1 .. Len(u) : t[i] < u[j]
Within(t, n) == \A i \in 1 .. Len(t) : t[i] <= n
TextsUpto(n) == {t \in Seq(Nat) : Rising(t) /\ Within(t, n)}

RTypeOK ==
  /\ rTotal \in Nat /\ rKind \in {"sherpa", "rk"}
  /\ rNative \in TextsUpto(rTotal) /\ rLast \in TextsUpto(rTotal) /\ rCache \in TextsUpto(rTotal)
  /\ rOut \in TextsUpto(rTotal)
  /\ rTexts \in Seq({"short", "text", "failed", "gone"})

\* Nothing that may still be delivered has been delivered, and an endpoint leaves the
\* native stream empty.
OrderInv ==
  /\ rPc # "closed" => Before(rOut, rNative) /\ Before(rOut, rLast)
  /\ rPc = "cancelled" => Before(rOut, rCache)
  /\ rEndp => rNative = <<>>

\* The plain caller polls after every packet.
PlainInv ==
  rKind = "sherpa" /\ rCaller = "plain" =>
    /\ rPc \in {"none", "recv", "accepted", "closed"}
    /\ rEndp => rPc = "accepted"
    /\ rPc = "closed" => rOut = Packets(rTotal)
    /\ rPc # "closed" => rOut \o (IF rEndp THEN rLast ELSE rNative) = Packets(rTotal)

SegmentInv ==
  /\ rPc \notin {"offline", "closed"} => \A i \in 1 .. Len(rTexts) : rTexts[i] # "gone"
  /\ rPc \in {"segments", "offline"} => rKind = "rk"
  /\ rKind = "rk" => ~rEndp /\ (rOut = <<>> \/ rPc = "closed")

RecognizerInv == RTypeOK /\ OrderInv /\ PlainInv /\ SegmentInv

-----------------------------------------------------------------------------
\* The empty text is a text of any packets.
LEMMA NoText == ASSUME NEW n \in Nat PROVE <<>> \in TextsUpto(n)
BY DEF TextsUpto, Rising, Within

\* The empty text comes before and after any text.
LEMMA NothingBefore ==
  ASSUME NEW t \in Seq(Nat)
  PROVE  Before(<<>>, t) /\ Before(t, <<>>) /\ t \o <<>> = t /\ <<>> \o t = t
<1>1. Len(<<>>) = 0
  OBVIOUS
<1>2. Before(<<>>, t) /\ Before(t, <<>>)
  BY <1>1 DEF Before
<1> QED
  BY <1>2, ConcatEmptySeq

\* One more packet.
LEMMA NextPacket ==
  ASSUME NEW n \in Nat, NEW t \in TextsUpto(n), NEW o \in TextsUpto(n), Before(o, t)
  PROVE  /\ Append(t, n + 1) \in TextsUpto(n + 1) /\ o \in TextsUpto(n + 1)
         /\ Before(o, Append(t, n + 1))
<1> DEFINE u == Append(t, n + 1)
<1>1. t \in Seq(Nat) /\ o \in Seq(Nat) /\ Len(t) \in Nat
  BY LenProperties DEF TextsUpto
<1>2. /\ u \in Seq(Nat) /\ Len(u) = Len(t) + 1
      /\ \A i \in 1 .. Len(t) : u[i] = t[i] /\ u[Len(t) + 1] = n + 1
  BY <1>1, AppendProperties
<1>3. u[Len(t) + 1] = n + 1
  BY <1>1, AppendProperties
<1> HIDE DEF u
<1>4. \A i \in 1 .. Len(t) : t[i] \in Nat /\ t[i] <= n /\ u[i] = t[i]
  BY <1>1, <1>2, ElementOfSeq DEF TextsUpto, Within
<1>5. \A i \in 1 .. Len(o) : o[i] \in Nat /\ o[i] <= n
  BY <1>1, ElementOfSeq DEF TextsUpto, Within
<1>6. \A i \in 1 .. Len(u) : i \in 1 .. Len(t) \/ i = Len(t) + 1
  BY <1>1, <1>2
<1>7. Within(u, n + 1)
  BY <1>3, <1>4, <1>6 DEF Within
<1>8. Rising(u)
  <2> SUFFICES ASSUME NEW i \in 1 .. Len(u), NEW j \in 1 .. Len(u), i < j PROVE u[i] < u[j]
    BY DEF Rising
  <2>1. i \in 1 .. Len(t)
    BY <1>1, <1>2
  <2>2. CASE j \in 1 .. Len(t)
    BY <1>4, <2>1, <2>2 DEF TextsUpto, Rising
  <2>3. CASE j = Len(t) + 1
    BY <1>3, <1>4, <2>1, <2>3
  <2> QED
    BY <1>6, <2>2, <2>3
<1>9. Before(o, u)
  <2> SUFFICES ASSUME NEW i \in 1 .. Len(o), NEW j \in 1 .. Len(u) PROVE o[i] < u[j]
    BY DEF Before
  <2>1. CASE j \in 1 .. Len(t)
    BY <1>4, <2>1 DEF Before
  <2>2. CASE j = Len(t) + 1
    BY <1>3, <1>5, <2>2
  <2> QED
    BY <1>6, <2>1, <2>2
<1>10. Within(o, n + 1)
  BY <1>5 DEF Within
<1> QED
  BY <1>1, <1>2, <1>7, <1>8, <1>9, <1>10 DEF TextsUpto, u

\* A text delivered after another.
LEMMA Delivered ==
  ASSUME NEW n \in Nat, NEW t \in TextsUpto(n), NEW u \in TextsUpto(n), Before(t, u)
  PROVE  t \o u \in TextsUpto(n)
<1> DEFINE v == t \o u
<1>1. t \in Seq(Nat) /\ u \in Seq(Nat) /\ Len(t) \in Nat /\ Len(u) \in Nat
  BY LenProperties DEF TextsUpto
<1>2. /\ v \in Seq(Nat) /\ Len(v) = Len(t) + Len(u)
      /\ \A i \in 1 .. (Len(t) + Len(u)) : v[i] = IF i <= Len(t) THEN t[i] ELSE u[i - Len(t)]
  BY <1>1, ConcatProperties, Zenon
<1> HIDE DEF v
<1>3. ASSUME NEW i \in 1 .. Len(v)
      PROVE  \/ i \in 1 .. Len(t) /\ v[i] = t[i]
             \/ i > Len(t) /\ i - Len(t) \in 1 .. Len(u) /\ v[i] = u[i - Len(t)]
  <2>1. v[i] = IF i <= Len(t) THEN t[i] ELSE u[i - Len(t)]
    BY <1>2
  <2>2. i <= Len(t) => i \in 1 .. Len(t)
    BY <1>1, <1>2
  <2>3. ~(i <= Len(t)) => i > Len(t) /\ i - Len(t) \in 1 .. Len(u)
    BY <1>1, <1>2
  <2> QED
    BY <2>1, <2>2, <2>3
<1>4. Within(v, n)
  BY <1>3 DEF Within, TextsUpto
<1>5. Rising(v)
  <2> SUFFICES ASSUME NEW i \in 1 .. Len(v), NEW j \in 1 .. Len(v), i < j PROVE v[i] < v[j]
    BY DEF Rising
  <2>1. CASE j \in 1 .. Len(t) /\ v[j] = t[j]
    <3>1. i \in 1 .. Len(t) /\ v[i] = t[i]
      BY <1>1, <1>2, <1>3, <2>1
    <3> QED
      BY <2>1, <3>1 DEF TextsUpto, Rising
  <2>2. CASE j > Len(t) /\ j - Len(t) \in 1 .. Len(u) /\ v[j] = u[j - Len(t)]
    <3>1. CASE i \in 1 .. Len(t) /\ v[i] = t[i]
      BY <2>2, <3>1 DEF Before
    <3>2. CASE i > Len(t) /\ i - Len(t) \in 1 .. Len(u) /\ v[i] = u[i - Len(t)]
      <4>1. i - Len(t) < j - Len(t)
        BY <1>1, <1>2
      <4> QED
        BY <2>2, <3>2, <4>1 DEF TextsUpto, Rising
    <3> QED
      BY <1>3, <3>1, <3>2
  <2> QED
    BY <1>3, <2>1, <2>2
<1> QED
  BY <1>2, <1>4, <1>5 DEF TextsUpto, v

\* The packets delivered and pending, with one more.
LEMMA PacketsGrow ==
  ASSUME NEW n \in Nat, NEW o \in Seq(Nat), NEW t \in Seq(Nat), o \o t = Packets(n)
  PROVE  o \o Append(t, n + 1) = Packets(n + 1)
<1>1. o \o Append(t, n + 1) = Append(o \o t, n + 1)
  OBVIOUS
<1>2. Append(Packets(n), n + 1) = Packets(n + 1)
  BY DEF Packets
<1> QED
  BY <1>1, <1>2

\* The invariant implies the property.
LEMMA RecognizerWhole == RecognizerInv => TextWhole
<1> SUFFICES ASSUME RecognizerInv PROVE TextWhole
  OBVIOUS
<1>1. rOut \in Seq(Nat) /\ rNative \in Seq(Nat) /\ rLast \in Seq(Nat)
  BY DEF RecognizerInv, RTypeOK, TextsUpto
<1>2. rKind = "sherpa" /\ rCaller = "plain" /\ rPc # "closed" =>
        rOut \o PendingText \o rNative = Packets(rTotal)
  <2> SUFFICES ASSUME rKind = "sherpa", rCaller = "plain", rPc # "closed"
               PROVE  rOut \o PendingText \o rNative = Packets(rTotal)
    OBVIOUS
  <2>1. CASE rEndp
    <3>1. rNative = <<>> /\ rOut \o rLast = Packets(rTotal)
      BY <2>1 DEF RecognizerInv, OrderInv, PlainInv
    <3>2. rOut \o rLast \in Seq(Nat)
      BY <1>1, ConcatProperties
    <3>3. (rOut \o rLast) \o <<>> = rOut \o rLast
      BY <3>2, ConcatEmptySeq
    <3> QED
      BY <2>1, <3>1, <3>3 DEF PendingText
  <2>2. CASE ~rEndp
    <3>1. rOut \o rNative = Packets(rTotal)
      BY <2>2 DEF RecognizerInv, PlainInv
    <3>2. rOut \o <<>> = rOut
      BY <1>1, ConcatEmptySeq
    <3> QED
      BY <2>2, <3>1, <3>2 DEF PendingText
  <2> QED
    BY <2>1, <2>2
<1>3. rKind = "sherpa" /\ rCaller = "plain" /\ rPc = "closed" => rOut = Packets(rTotal)
  BY DEF RecognizerInv, PlainInv
<1>4. \A i, j \in 1 .. Len(rOut) : i < j => rOut[i] < rOut[j]
  BY DEF RecognizerInv, RTypeOK, TextsUpto, Rising
<1>5. rPc = "joined" => \A i \in 1 .. Len(rTexts) : rTexts[i] # "gone"
  BY DEF RecognizerInv, SegmentInv
<1> QED
  BY <1>2, <1>3, <1>4, <1>5 DEF TextWhole

\* A new stream has no text.
LEMMA RecognizerInit == RInit({"sherpa", "rk"}) => RecognizerInv
<1> SUFFICES ASSUME RInit({"sherpa", "rk"}) PROVE RecognizerInv
  OBVIOUS
<1>1. /\ rKind \in {"sherpa", "rk"} /\ rPc = "none" /\ rTotal = 0 /\ rNative = <<>> /\ rLast = <<>>
      /\ ~rEndp /\ rCache = <<>> /\ rOut = <<>> /\ rTexts = <<>>
  BY DEF RInit
<1>2. <<>> \in Seq(Nat) /\ Len(<<>>) = 0 /\ <<>> \in Seq({"short", "text", "failed", "gone"})
      /\ 0 \in Nat
  OBVIOUS
<1>3. Packets(0) = <<>>
  BY DEF Packets
<1>4. RTypeOK
  BY <1>1, <1>2, NoText DEF RTypeOK
<1>5. <<>> \o <<>> = <<>> /\ Before(<<>>, <<>>)
  BY <1>2, NothingBefore
<1> QED
  BY <1>1, <1>2, <1>3, <1>4, <1>5 DEF RecognizerInv, OrderInv, PlainInv, SegmentInv

\* A step that leaves the texts alone.
LEMMA TextsSame ==
  ASSUME RecognizerInv, UNCHANGED <<rKind, rCaller, rTotal, rNative, rLast, rEndp, rCache,
         rOut, rTexts>>,
         UNCHANGED rPc \/ (rPc = "none" /\ rPc' = "recv")
  PROVE  RecognizerInv'
BY DEF RecognizerInv, RTypeOK, OrderInv, PlainInv, SegmentInv

\* accept_waveform() of sherpa.
LEMMA AcceptKeeps ==
  ASSUME RecognizerInv, NEW endpoint \in BOOLEAN, SherpaAccept(endpoint)
  PROVE  RecognizerInv'
<1> DEFINE t == Append(rNative, rTotal + 1)
<1>1. /\ rKind = "sherpa" /\ rPc = "recv" /\ rTotal' = rTotal + 1 /\ rLast' = t
      /\ rEndp' = endpoint /\ rNative' = (IF endpoint THEN <<>> ELSE t)
      /\ rPc' = (IF rCaller = "session" THEN "recv" ELSE "accepted")
      /\ UNCHANGED <<rKind, rCaller, rCache, rOut, rTexts>>
  BY DEF SherpaAccept, AfterEndpoint, rConfig, rLong
<1>2. /\ rTotal \in Nat /\ rNative \in TextsUpto(rTotal) /\ rOut \in TextsUpto(rTotal)
      /\ rCache \in TextsUpto(rTotal) /\ Before(rOut, rNative)
  BY <1>1 DEF RecognizerInv, RTypeOK, OrderInv
<1>3. t \in TextsUpto(rTotal + 1) /\ rOut \in TextsUpto(rTotal + 1) /\ Before(rOut, t)
  BY <1>2, NextPacket
<1>4. <<>> \in TextsUpto(rTotal) /\ <<>> \in TextsUpto(rTotal + 1) /\ rTotal + 1 \in Nat
  BY <1>2, NoText
<1>5. Before(<<>>, rCache) /\ rOut \in Seq(Nat) /\ rCache \in Seq(Nat) /\ rNative \in Seq(Nat)
      /\ Before(rOut, <<>>) /\ Before(rCache, <<>>)
  BY <1>2, NothingBefore DEF TextsUpto
<1>6. rCache \in TextsUpto(rTotal + 1)
  BY <1>2, <1>4, <1>5, NextPacket
<1> HIDE DEF t
<1>7. RTypeOK'
  BY <1>1, <1>3, <1>4, <1>6 DEF RecognizerInv, RTypeOK
<1>8. OrderInv'
  BY <1>1, <1>3, <1>5 DEF OrderInv
<1>9. PlainInv'
  <2> SUFFICES ASSUME rCaller = "plain"
               PROVE  rPc' = "accepted" /\ rOut \o t = Packets(rTotal + 1)
    BY <1>1 DEF PlainInv
  <2>1. rOut \o rNative = Packets(rTotal)
    BY <1>1 DEF RecognizerInv, PlainInv
  <2> QED
    BY <1>1, <1>2, <1>5, <2>1, PacketsGrow DEF t
<1>10. SegmentInv'
  BY <1>1 DEF RecognizerInv, SegmentInv
<1> QED
  BY <1>7, <1>8, <1>9, <1>10 DEF RecognizerInv

\* get_partial() of sherpa.
LEMMA PartialKeeps ==
  ASSUME RecognizerInv, SherpaPartial
  PROVE  RecognizerInv'
<1>1. /\ rKind = "sherpa" /\ rPc \in {"recv", "accepted"} /\ rPc' = "recv" /\ rEndp' = FALSE
      /\ UNCHANGED <<rKind, rCaller, rTotal, rNative, rCache, rTexts>>
  BY DEF SherpaPartial, rConfig, rLong
<1>2. /\ rTotal \in Nat /\ rLast \in TextsUpto(rTotal) /\ rOut \in TextsUpto(rTotal)
      /\ Before(rOut, rLast) /\ Before(rOut, rNative) /\ rNative \in TextsUpto(rTotal)
  BY <1>1 DEF RecognizerInv, RTypeOK, OrderInv
<1>3. CASE rEndp
  <2>1. rOut' = rOut \o rLast /\ rLast' = <<>> /\ rNative = <<>>
    BY <1>3 DEF SherpaPartial, RecognizerInv, OrderInv
  <2>2. rOut' \in TextsUpto(rTotal) /\ <<>> \in TextsUpto(rTotal)
    BY <1>2, <2>1, Delivered, NoText
  <2>3. rOut' \in Seq(Nat)
    BY <2>2 DEF TextsUpto
  <2>4. Before(rOut', <<>>) /\ rOut' \o <<>> = rOut'
    BY <2>3, NothingBefore
  <2>5. RTypeOK'
    BY <1>1, <2>1, <2>2 DEF RecognizerInv, RTypeOK
  <2>6. OrderInv'
    BY <1>1, <2>1, <2>4 DEF OrderInv
  <2>7. PlainInv'
    BY <1>1, <1>3, <2>1, <2>4 DEF RecognizerInv, PlainInv
  <2>8. SegmentInv'
    BY <1>1 DEF RecognizerInv, SegmentInv
  <2> QED
    BY <2>5, <2>6, <2>7, <2>8 DEF RecognizerInv
<1>4. CASE ~rEndp
  <2>1. rOut' = rOut /\ rLast' = rLast
    BY <1>4 DEF SherpaPartial
  <2> QED
    BY <1>1, <1>2, <1>4, <2>1 DEF RecognizerInv, RTypeOK, OrderInv, PlainInv, SegmentInv
<1> QED
  BY <1>3, <1>4

\* The text of the native stream, or the one kept by a cancel, ends the stream.
LEMMA SherpaEnds ==
  ASSUME RecognizerInv, SherpaFinalize \/ FinalizeCancelled
  PROVE  RecognizerInv'
<1>1. /\ rKind = "sherpa" /\ rPc \in {"recv", "accepted", "cancelled"} /\ rPc' = "closed"
      /\ UNCHANGED <<rKind, rCaller, rTotal, rNative, rLast, rEndp, rCache, rTexts>>
  BY DEF SherpaFinalize, FinalizeCancelled, rConfig, rLong
<1>2. PICK t \in {rNative, rCache} :
        /\ rOut' = rOut \o t /\ Before(rOut, t)
        /\ rCaller = "plain" => t = rNative /\ rPc = "recv"
  <2>1. CASE SherpaFinalize
    <3>1. rOut' = rOut \o rNative /\ (rCaller = "plain" => rPc = "recv") /\ Before(rOut, rNative)
      BY <1>1, <2>1 DEF SherpaFinalize, RecognizerInv, OrderInv
    <3> QED
      BY <3>1
  <2>2. CASE FinalizeCancelled
    <3>1. rOut' = rOut \o rCache /\ rCaller # "plain" /\ Before(rOut, rCache)
      BY <1>1, <2>2 DEF FinalizeCancelled, RecognizerInv, OrderInv, PlainInv
    <3> QED
      BY <3>1
  <2> QED
    BY <2>1, <2>2
<1>3. /\ rTotal \in Nat /\ rOut \in TextsUpto(rTotal) /\ t \in TextsUpto(rTotal)
  BY <1>2 DEF RecognizerInv, RTypeOK
<1>4. rOut' \in TextsUpto(rTotal)
  BY <1>2, <1>3, Delivered
<1>5. RTypeOK'
  BY <1>1, <1>4 DEF RecognizerInv, RTypeOK
<1>6. OrderInv' /\ SegmentInv'
  BY <1>1 DEF RecognizerInv, OrderInv, SegmentInv
<1>7. PlainInv'
  <2> SUFFICES ASSUME rCaller = "plain" PROVE rOut' = Packets(rTotal) /\ ~rEndp
    BY <1>1 DEF PlainInv
  <2> QED
    BY <1>1, <1>2 DEF RecognizerInv, PlainInv
<1> QED
  BY <1>5, <1>6, <1>7 DEF RecognizerInv

\* cancel() ends the stream with no text.
LEMMA CancelKeeps ==
  ASSUME RecognizerInv, SherpaCancel
  PROVE  RecognizerInv'
<1>1. /\ rKind = "sherpa" /\ rCaller = "session" /\ rPc = "recv" /\ rPc' = "cancelled"
         /\ rCache' = rLast
      /\ UNCHANGED <<rKind, rCaller, rTotal, rNative, rLast, rEndp, rOut, rTexts>>
  BY DEF SherpaCancel, rConfig, rLong
<1> QED
  BY <1>1 DEF RecognizerInv, RTypeOK, OrderInv, PlainInv, SegmentInv

\* The Rockchip adapter.
LEMMA RkStreamKeeps ==
  ASSUME RecognizerInv, RkAccept \/ RkFinalizeShort
  PROVE  RecognizerInv'
<1>1. /\ rKind = "rk" /\ rPc = "recv" /\ UNCHANGED <<rKind, rCaller, rLast, rEndp, rCache, rTexts>>
      /\ rTotal \in Nat /\ rNative \in TextsUpto(rTotal) /\ rOut = <<>>
      /\ rLast \in TextsUpto(rTotal) /\ rCache \in TextsUpto(rTotal)
  BY DEF RkAccept, RkFinalizeShort, rConfig, rText, rLong, RecognizerInv, RTypeOK, SegmentInv
<1>2. CASE RkFinalizeShort
  <2>1. rOut' = rNative /\ rPc' = "closed" /\ UNCHANGED <<rTotal, rNative>>
    BY <1>2 DEF RkFinalizeShort
  <2> QED
    BY <1>1, <2>1 DEF RecognizerInv, RTypeOK, OrderInv, PlainInv, SegmentInv
<1>3. CASE RkAccept
  <2>1. /\ rTotal' = rTotal + 1 /\ rNative' = Append(rNative, rTotal + 1)
        /\ rPc' = rPc /\ rOut' = <<>>
    BY <1>1, <1>3 DEF RkAccept, rText
  <2>2. <<>> \in TextsUpto(rTotal) /\ rNative \in Seq(Nat) /\ rLast \in Seq(Nat)
        /\ rCache \in Seq(Nat)
    BY <1>1, NoText DEF TextsUpto
  <2>4. Before(<<>>, rNative) /\ Before(rLast, <<>>) /\ Before(rCache, <<>>) /\ Before(<<>>, rLast)
    BY <2>2, NothingBefore
  <2>5. rNative' \in TextsUpto(rTotal') /\ <<>> \in TextsUpto(rTotal') /\ Before(<<>>, rNative')
    BY <1>1, <2>1, <2>2, <2>4, NextPacket
  <2>6. rLast \in TextsUpto(rTotal') /\ rCache \in TextsUpto(rTotal')
    BY <1>1, <2>1, <2>2, <2>4, NextPacket
  <2>7. RTypeOK'
    BY <1>1, <2>1, <2>5, <2>6 DEF RecognizerInv, RTypeOK
  <2>8. ~rEndp
    BY <1>1 DEF RecognizerInv, SegmentInv
  <2>9. OrderInv'
    BY <1>1, <2>1, <2>4, <2>5, <2>8 DEF OrderInv
  <2>10. PlainInv' /\ SegmentInv'
    BY <1>1, <2>1, <2>8 DEF RecognizerInv, PlainInv, SegmentInv
  <2> QED
    BY <2>7, <2>9, <2>10 DEF RecognizerInv
<1> QED
  BY <1>2, <1>3

\* The offline path of RK: one segment after the other.
LEMMA RkSegmentsKeep ==
  ASSUME RecognizerInv, RkFinalizeLong \/ RkTranscribe \/ RkSegment \/ RkOfflineSegment \/ RkJoin
  PROVE  RecognizerInv'
<1> DEFINE what == {"short", "text", "failed", "gone"}
<1>1. UNCHANGED <<rKind, rCaller, rTotal, rNative, rLast, rEndp, rCache, rOut>>
  BY DEF RkFinalizeLong, RkTranscribe, RkSegment, RkOfflineSegment, RkJoin, SegmentDone, UnloadRace,
     rConfig, rText, rLong
<1>2. rKind = "rk" /\ rPc \in {"recv", "none", "segments", "offline"}
  BY DEF RkFinalizeLong, RkTranscribe, RkSegment, RkOfflineSegment, RkJoin, RecognizerInv,
         SegmentInv
<1>3. rTexts \in Seq(what)
  BY DEF RecognizerInv, RTypeOK
<1>4. CASE UNCHANGED rTexts /\ (rPc' \in {"closed", "offline", "segments", "joined", "raised"})
           /\ (rPc = "offline" => rPc' \in {"offline", "closed"})
  <2>1. SegmentInv'
    BY <1>1, <1>2, <1>4 DEF RecognizerInv, SegmentInv
  <2> QED
    BY <1>1, <1>2, <1>4, <2>1 DEF RecognizerInv, RTypeOK, OrderInv, PlainInv
<1>5. CASE \E w \in what : /\ rTexts' = Append(rTexts, w) /\ rPc' = rPc
                            /\ rPc \in {"segments", "offline"} /\ (w = "gone" => rPc = "offline")
  <2>1. PICK w \in what : /\ rTexts' = Append(rTexts, w) /\ rPc' = rPc
                          /\ rPc \in {"segments", "offline"} /\ (w = "gone" => rPc = "offline")
    BY <1>5
  <2>2. /\ rTexts' \in Seq(what) /\ Len(rTexts') = Len(rTexts) + 1 /\ Len(rTexts) \in Nat
        /\ rTexts'[Len(rTexts) + 1] = w /\ \A i \in 1 .. Len(rTexts) : rTexts'[i] = rTexts[i]
    BY <1>3, <2>1, AppendProperties, LenProperties
  <2>3. \A i \in 1 .. Len(rTexts') : i \in 1 .. Len(rTexts) \/ i = Len(rTexts) + 1
    BY <2>2
  <2>4. SegmentInv'
    BY <1>1, <1>2, <2>1, <2>2, <2>3 DEF RecognizerInv, SegmentInv
  <2> QED
    BY <1>1, <1>2, <2>1, <2>2, <2>4 DEF RecognizerInv, RTypeOK, OrderInv, PlainInv
<1>6. CASE RkFinalizeLong \/ RkTranscribe \/ RkJoin
  BY <1>2, <1>4, <1>6 DEF RkFinalizeLong, RkTranscribe, RkJoin, rLong
<1>7. CASE RkSegment \/ RkOfflineSegment
  BY <1>4, <1>5, <1>7 DEF RkSegment, RkOfflineSegment, SegmentDone, UnloadRace, rLong
<1> QED
  BY <1>6, <1>7

\* Every step of a stream keeps the invariant.
LEMMA RecognizerStep ==
  ASSUME RecognizerInv, [RNext]_rVars
  PROVE  RecognizerInv'
<1>1. CASE SherpaAsrPreload \/ SherpaAsrUnload \/ SherpaAsrStream \/ RkUnloadAsr
           \/ RkCreate \/ UNCHANGED rVars
  BY <1>1, TextsSame
  DEF SherpaAsrPreload, SherpaAsrUnload, SherpaAsrStream, RkUnloadAsr, RkCreate,
     rVars, rConfig, rText, rLong
<1> QED
  BY <1>1, AcceptKeeps, PartialKeeps, SherpaEnds, CancelKeeps, RkStreamKeeps, RkSegmentsKeep
  DEF RNext

\* Texts are delivered in order, nothing twice, and to /asr/stream nothing is lost.
THEOREM TextWholeCorrect == RSpec => []TextWhole
<1>1. RecognizerInv /\ [RNext]_rVars => RecognizerInv'
  BY RecognizerStep
<1> QED
  BY <1>1, RecognizerInit, RecognizerWhole, PTL DEF RSpec

-----------------------------------------------------------------------------
(* Segments *)

Cuts == Len(zCuts)

\* What follows a fragment is long: a cut soon after the one before was the last
\* candidate in reach, so the next one lies beyond that reach.
Far == MaxSeg - MinFrag
NoTwo(from) ==
  \A i \in from .. (Cuts - 2) : SegLen(i) < MinFrag => SegLen(i + 1) >= Far
Ahead ==
  Cuts > 1 /\ SegLen(Cuts - 1) < MinFrag =>
    /\ zLen - LastCut >= Far
    /\ \A c \in Candidates : c >= LastCut + MinSeg => c - LastCut >= Far
\* A segment that took a fragment is followed by a long one.
Spared(upto) ==
  \A i \in 1 .. upto : SegLen(i) <= MaxSeg \/ SegLen(i + 1) >= Far

CutsInv ==
  /\ zLen \in Nat /\ zTail \in Nat /\ zI \in Nat \ {0} /\ zSilent \subseteq 0 .. zLen
     /\ zLen \notin zSilent /\ zTail <= Far
  /\ zCuts \in Seq(Nat) /\ Cuts >= 1 /\ zCuts[1] = 0
  /\ \A i \in 1 .. (Cuts - 1) : SegLen(i) \in Nat
  /\ \A i \in 1 .. (Cuts - 1) : SegLen(i) >= MinSeg \/ (i = Cuts - 1 /\ zPc # "walk")
WalkInv ==
  zPc = "walk" =>
    /\ LastCut <= zLen /\ (Cuts > 1 => zLen > MaxSeg) /\ zI = 1
    /\ \A i \in 1 .. (Cuts - 1) : SegLen(i) <= MaxSeg
    /\ NoTwo(1) /\ Ahead
MergeInv ==
  zPc = "merge" =>
    /\ LastCut = zLen /\ zI < Cuts
    /\ \A i \in 2 .. zI : SegLen(i) >= MinFrag
    /\ \A i \in 1 .. zI : SegLen(i) < MaxSeg + MinFrag
    /\ \A i \in (zI + 1) .. (Cuts - 1) : SegLen(i) <= MaxSeg
    /\ NoTwo(zI + 1)
    /\ zI + 1 <= Cuts - 1 => SegLen(zI) <= MaxSeg \/ SegLen(zI + 1) >= Far
    /\ Spared(zI - 1)
TailInv ==
  zPc \in {"tail", "done"} =>
    /\ LastCut = zLen /\ Cuts >= 2
    /\ \A i \in 2 .. (Cuts - 1) : SegLen(i) >= MinFrag
    /\ \A i \in 1 .. (Cuts - 2) : SegLen(i) < MaxSeg + MinFrag
    /\ SegLen(Cuts - 1) < MaxSeg + MinFrag \/ SegLen(Cuts - 1) < MaxSeg + zTail
    /\ Spared(Cuts - 2)
    /\ zPc = "done" /\ Cuts > 2 => SegLen(Cuts - 1) >= zTail
SegmentsInv == CutsInv /\ WalkInv /\ MergeInv /\ TailInv

-----------------------------------------------------------------------------
\* The least member of a set of numbers.
LEMMA MinExists ==
  ASSUME NEW S \in SUBSET Nat, S # {}
  PROVE  Min(S) \in S /\ \A y \in S : Min(S) <= y
<1>1. PICK x \in S : \A y \in S : ~ (<<y, x>> \in OpToRel(<, Nat))
  BY NatLessThanWellFounded, WFMin
<1>2. \A y \in S : ~(y < x)
  BY <1>1 DEF OpToRel
<1>3. \A y \in S : x <= y
  BY <1>2
<1> QED
  BY <1>3 DEF Min

\* The greatest member of a bounded set of numbers.
LEMMA MaxExists ==
  ASSUME NEW b \in Nat, NEW S \in SUBSET (0 .. b), S # {}
  PROVE  Max(S) \in S /\ \A y \in S : y <= Max(S)
<1> DEFINE T == {b - x : x \in S}
<1>1. T \in SUBSET Nat
  OBVIOUS
<1>2. PICK x0 \in S : TRUE
  OBVIOUS
<1>3. b - x0 \in T
  OBVIOUS
<1>4. PICK m \in T : \A y \in T : m <= y
  BY <1>1, <1>3, MinExists
<1>5. PICK x \in S : m = b - x
  BY <1>4
<1>6. ASSUME NEW y \in S PROVE x >= y
  <2>1. b - y \in T
    OBVIOUS
  <2>2. m <= b - y
    BY <1>4, <2>1
  <2> HIDE DEF T
  <2> QED
    BY <1>5, <2>2
<1> QED
  BY <1>6 DEF Max

\* Candidates are frames.
LEMMA CandidatesAreFrames ==
  ASSUME CutsInv
  PROVE  Candidates \subseteq Nat
<1> SUFFICES ASSUME NEW f \in zSilent PROVE (f + RunEnd(f)) \div 2 \in Nat
  BY DEF Candidates, RunStarts
<1> DEFINE S == {g \in f .. zLen : g \notin zSilent}
<1>1. f \in Nat /\ zLen \in Nat /\ f <= zLen /\ zLen \notin zSilent
  BY DEF CutsInv
<1>2. S \in SUBSET Nat /\ zLen \in S
  BY <1>1
<1>3. RunEnd(f) \in Nat
  BY <1>2, MinExists DEF RunEnd
<1> QED
  BY <1>1, <1>3

\* The distance between two cuts.
Gap(t, i) == t[i + 1] - t[i]

\* A cut at the end.
LEMMA CutAppended ==
  ASSUME NEW t \in Seq(Nat), Len(t) >= 1, NEW x \in Nat, x >= t[Len(t)]
  PROVE  /\ Append(t, x) \in Seq(Nat) /\ Len(Append(t, x)) = Len(t) + 1
         /\ Append(t, x)[1] = t[1] /\ Append(t, x)[Len(t) + 1] = x
         /\ Len(t) \in Nat /\ t[Len(t)] \in Nat
         /\ \A i \in 1 .. (Len(t) - 1) : Gap(Append(t, x), i) = Gap(t, i)
         /\ Gap(Append(t, x), Len(t)) = x - t[Len(t)] /\ x - t[Len(t)] \in Nat
<1> DEFINE u == Append(t, x)
<1>1. Len(t) \in Nat
  BY LenProperties
<1>2. /\ u \in Seq(Nat) /\ Len(u) = Len(t) + 1 /\ u[Len(t) + 1] = x
      /\ \A i \in 1 .. Len(t) : u[i] = t[i]
  BY AppendProperties
<1>3. 1 \in 1 .. Len(t) /\ Len(t) \in 1 .. Len(t)
  BY <1>1
<1>4. t[Len(t)] \in Nat
  BY <1>3, ElementOfSeq
<1>5. \A i \in 1 .. (Len(t) - 1) : i \in 1 .. Len(t) /\ i + 1 \in 1 .. Len(t)
  BY <1>1
<1> HIDE DEF u
<1>6. \A i \in 1 .. (Len(t) - 1) : Gap(u, i) = Gap(t, i)
  BY <1>2, <1>5 DEF Gap
<1>7. Gap(u, Len(t)) = x - t[Len(t)] /\ x - t[Len(t)] \in Nat
  BY <1>2, <1>3, <1>4 DEF Gap
<1> QED
  BY <1>1, <1>2, <1>3, <1>4, <1>6, <1>7 DEF u

Removed(t, k) == SubSeq(t, 1, k - 1) \o SubSeq(t, k + 1, Len(t))

\* An inner cut that goes: the two segments beside it are one.
LEMMA CutRemoved ==
  ASSUME NEW t \in Seq(Nat), NEW k \in 2 .. (Len(t) - 1)
  PROVE  /\ Removed(t, k) \in Seq(Nat) /\ Len(Removed(t, k)) = Len(t) - 1 /\ Len(t) \in Nat
         /\ Removed(t, k)[1] = t[1] /\ Removed(t, k)[Len(t) - 1] = t[Len(t)]
         /\ \A i \in 1 .. (k - 2) : Gap(Removed(t, k), i) = Gap(t, i)
         /\ Gap(Removed(t, k), k - 1) = Gap(t, k - 1) + Gap(t, k)
         /\ \A i \in k .. (Len(t) - 2) : Gap(Removed(t, k), i) = Gap(t, i + 1)
<1> DEFINE n == Len(t)
           a == SubSeq(t, 1, k - 1)
           b == SubSeq(t, k + 1, n)
           u == a \o b
<1>1. n \in Nat /\ n >= 3 /\ \A i \in 1 .. n : t[i] \in Nat
  BY LenProperties, ElementOfSeq
<1> HIDE DEF n
<1>2. a \in Seq(Nat) /\ Len(a) = k - 1 /\ \A i \in 1 .. (k - 1) : a[i] = t[i]
  <2>1. 1 \in Int /\ k - 1 \in Int /\ \A i \in 1 .. (k - 1) : t[i] \in Nat
    BY <1>1 DEF n
  <2>2. /\ a \in Seq(Nat) /\ Len(a) = IF 1 <= k - 1 THEN (k - 1) - 1 + 1 ELSE 0
        /\ \A i \in 1 .. ((k - 1) - 1 + 1) : a[i] = t[1 + i - 1]
    BY <2>1, SubSeqProperties
  <2>3. (k - 1) - 1 + 1 = k - 1 /\ 1 <= k - 1 /\ \A i \in Nat : 1 + i - 1 = i
    OBVIOUS
  <2> QED
    BY <2>2, <2>3
<1>3. b \in Seq(Nat) /\ Len(b) = n - k /\ \A i \in 1 .. (n - k) : b[i] = t[k + i]
  <2>1. k + 1 \in Int /\ n \in Int /\ \A i \in (k + 1) .. n : t[i] \in Nat
    BY <1>1 DEF n
  <2>2. /\ b \in Seq(Nat) /\ Len(b) = IF k + 1 <= n THEN n - (k + 1) + 1 ELSE 0
        /\ \A i \in 1 .. (n - (k + 1) + 1) : b[i] = t[(k + 1) + i - 1]
    BY <2>1, SubSeqProperties
  <2>3. n - (k + 1) + 1 = n - k /\ k + 1 <= n /\ \A i \in Nat : (k + 1) + i - 1 = k + i
    BY <1>1 DEF n
  <2> QED
    BY <2>2, <2>3
<1> HIDE DEF a, b
<1>4. /\ u \in Seq(Nat) /\ Len(u) = Len(a) + Len(b)
      /\ \A i \in 1 .. (Len(a) + Len(b)) : u[i] = IF i <= Len(a) THEN a[i] ELSE b[i - Len(a)]
  BY <1>2, <1>3, ConcatProperties, Zenon
<1> HIDE DEF u
<1>5. Len(u) = n - 1 /\ k \in 2 .. (n - 1)
  BY <1>1, <1>2, <1>3, <1>4 DEF n
<1>6. ASSUME NEW i \in 1 .. (k - 1) PROVE u[i] = t[i]
  <2>1. i \in 1 .. (Len(a) + Len(b)) /\ i <= Len(a)
    BY <1>1, <1>2, <1>3, <1>5
  <2> QED
    BY <1>2, <1>4, <2>1
<1>7. ASSUME NEW i \in k .. (n - 1) PROVE u[i] = t[i + 1]
  <2>1. i \in 1 .. (Len(a) + Len(b)) /\ ~(i <= Len(a)) /\ i - Len(a) = i - (k - 1)
    BY <1>1, <1>2, <1>3, <1>5
  <2>2. i - (k - 1) \in 1 .. (n - k) /\ k + (i - (k - 1)) = i + 1
    BY <1>1, <1>5
  <2> QED
    BY <1>3, <1>4, <2>1, <2>2
<1>8. \A i \in 1 .. (k - 2) : Gap(u, i) = Gap(t, i)
  <2>1. \A i \in 1 .. (k - 2) : i \in 1 .. (k - 1) /\ i + 1 \in 1 .. (k - 1)
    BY <1>5
  <2> QED
    BY <1>6, <2>1 DEF Gap
<1>9. \A i \in k .. (n - 2) : Gap(u, i) = Gap(t, i + 1)
  <2>1. \A i \in k .. (n - 2) : i \in k .. (n - 1) /\ i + 1 \in k .. (n - 1)
    BY <1>1, <1>5
  <2> QED
    BY <1>7, <2>1 DEF Gap
<1>10. Gap(u, k - 1) = Gap(t, k - 1) + Gap(t, k)
  <2>1. k - 1 \in 1 .. (k - 1) /\ (k - 1) + 1 = k /\ k \in k .. (n - 1)
        /\ k - 1 \in 1 .. n /\ k \in 1 .. n /\ k + 1 \in 1 .. n
    BY <1>1, <1>5
  <2>2. u[k - 1] = t[k - 1] /\ u[k] = t[k + 1]
    BY <1>6, <1>7, <2>1
  <2>3. t[k - 1] \in Nat /\ t[k] \in Nat /\ t[k + 1] \in Nat
    BY <1>1, <2>1
  <2>4. Gap(u, k - 1) = t[k + 1] - t[k - 1] /\ Gap(t, k - 1) = t[k] - t[k - 1] /\ Gap(t,
        k) = t[k + 1] - t[k]
    BY <2>1, <2>2 DEF Gap
  <2> QED
    BY <2>3, <2>4
<1>11. u[1] = t[1] /\ u[n - 1] = t[n]
  <2>1. 1 \in 1 .. (k - 1) /\ n - 1 \in k .. (n - 1) /\ (n - 1) + 1 = n
    BY <1>1, <1>5
  <2> QED
    BY <1>6, <1>7, <2>1
<1> QED
  BY <1>1, <1>4, <1>5, <1>8, <1>9, <1>10, <1>11 DEF u, a, b, n, Removed

\* How far is far.
LEMMA FarIs ==
  /\ Far \in Nat /\ MinFrag \in Nat \ {0} /\ MaxSeg \in Nat
  /\ MinFrag <= Far /\ Far <= MaxSeg /\ Far + MinFrag = MaxSeg
<1>1. MinFrag \in Nat \ {0} /\ MaxSeg \in Nat /\ 2 * MinFrag <= MaxSeg
  BY SegmentBounds
<1> QED
  BY <1>1 DEF Far

\* The frames of an input, and what the constants say.
LEMMA SegmentsStart ==
  ASSUME ZInit(Lengths)
  PROVE  SegmentsInv
<1>1. zLen \in Nat /\ zTail \in Nat /\ zTail <= Far
  <2>1. zLen \in Nat /\ zTail \in Nat /\ zTail + MinFrag <= MaxSeg
    BY SegmentBounds DEF ZInit
  <2> QED
    BY <2>1, FarIs
<1>2. PICK f \in [1 .. MaxSilent -> 0 .. zLen] : zSilent = {f[i] : i \in 1 .. MaxSilent} \ {zLen}
  BY DEF ZInit
<1>3. zSilent \subseteq 0 .. zLen /\ zLen \notin zSilent
  BY <1>2
<1>4. zCuts = <<0>> /\ zI = 1 /\ zPc = "walk"
  BY DEF ZInit
<1>5. zCuts \in Seq(Nat) /\ Cuts = 1 /\ zCuts[1] = 0 /\ LastCut = 0
  BY <1>4 DEF Cuts, LastCut
<1>6. 1 .. (Cuts - 1) = {} /\ 1 .. (Cuts - 2) = {}
  BY <1>5
<1>7. CutsInv
  BY <1>1, <1>3, <1>4, <1>5, <1>6 DEF CutsInv
<1>8. WalkInv
  BY <1>1, <1>4, <1>5, <1>6 DEF WalkInv, NoTwo, Ahead
<1> QED
  BY <1>4, <1>7, <1>8 DEF SegmentsInv, MergeInv, TailInv

\* The invariant implies the property.
LEMMA SegmentsCovered ==
  ASSUME SegmentsInv
  PROVE  SegmentsCover
<1>1. Cuts \in Nat /\ MinFrag \in Nat /\ MaxSeg \in Nat /\ zTail \in Nat
  BY SegmentBounds, LenProperties DEF SegmentsInv, CutsInv, Cuts
<1>2. \A i \in 1 .. (Len(zCuts) - 1) : SegLen(i) >= MinSeg \/ i = Len(zCuts) - 1
  BY DEF SegmentsInv, CutsInv, Cuts
<1>3. CASE zPc # "done"
  BY <1>2, <1>3 DEF SegmentsCover
<1>4. CASE zPc = "done"
  <2>1. /\ zCuts[1] = 0 /\ LastCut = zLen
        /\ \A i \in 2 .. (Cuts - 1) : SegLen(i) >= MinFrag
        /\ Cuts > 2 => SegLen(Cuts - 1) >= zTail
        /\ \A i \in 1 .. (Cuts - 2) : SegLen(i) < MaxSeg + MinFrag
        /\ SegLen(Cuts - 1) < MaxSeg + MinFrag \/ SegLen(Cuts - 1) < MaxSeg + zTail
    BY <1>4 DEF SegmentsInv, CutsInv, TailInv
  <2>2. ASSUME NEW i \in 1 .. (Cuts - 1)
        PROVE  SegLen(i) < MaxSeg + MinFrag \/ (i = Cuts - 1 /\ SegLen(i) < MaxSeg + zTail)
    <3>1. SegLen(i) \in Nat
      BY DEF SegmentsInv, CutsInv
    <3>2. CASE i = Cuts - 1
      BY <2>1, <3>2
    <3>3. CASE i # Cuts - 1
      <4>1. i \in 1 .. (Cuts - 2)
        BY <1>1, <3>3
      <4> QED
        BY <1>1, <2>1, <3>1, <4>1
    <3> QED
      BY <3>2, <3>3
  <2> QED
    BY <1>2, <2>1, <2>2 DEF SegmentsCover, Cuts
<1> QED
  BY <1>3, <1>4

\* The next cut of the walk: MinSeg to MaxSeg further on.
LEMMA PickReaches ==
  ASSUME CutsInv, LastCut \in Nat
  PROVE  LET reach == {c \in Candidates : c >= LastCut + MinSeg /\ c <= LastCut + MaxSeg}
         IN  /\ Pick(reach) \in Nat
             /\ Pick(reach) >= LastCut + MinSeg /\ Pick(reach) <= LastCut + MaxSeg
             /\ reach = {} => Pick(reach) = LastCut + MaxSeg
             /\ \A c \in reach : c <= Pick(reach)
<1> DEFINE reach == {c \in Candidates : c >= LastCut + MinSeg /\ c <= LastCut + MaxSeg}
<1>0. MinSeg \in Nat /\ MaxSeg \in Nat /\ MinSeg <= MaxSeg /\ Candidates \subseteq Nat
  BY SegmentBounds, CandidatesAreFrames
<1>1. CASE reach = {}
  <2>1. Pick(reach) = LastCut + MaxSeg
    BY <1>1 DEF Pick
  <2> HIDE DEF reach
  <2>2. \A c \in reach : c <= Pick(reach)
    BY <1>1
  <2>3. Pick(reach) \in Nat /\ Pick(reach) >= LastCut + MinSeg /\ Pick(reach) <= LastCut + MaxSeg
    BY <1>0, <2>1
  <2> QED
    BY <2>1, <2>2, <2>3 DEF reach
<1>2. CASE reach # {}
  <2>1. LastCut + MaxSeg \in Nat /\ reach \in SUBSET (0 .. (LastCut + MaxSeg))
    <3>1. LastCut + MaxSeg \in Nat
      BY <1>0
    <3>2. ASSUME NEW c \in reach PROVE c \in 0 .. (LastCut + MaxSeg)
      BY <1>0, <3>1
    <3> QED
      BY <3>1, <3>2
  <2>2. Max(reach) \in reach /\ \A y \in reach : y <= Max(reach)
    BY <1>2, <2>1, MaxExists
  <2>3. Pick(reach) = Max(reach)
    BY <1>2 DEF Pick
  <2>4. Max(reach) \in Nat /\ Max(reach) >= LastCut + MinSeg /\ Max(reach) <= LastCut + MaxSeg
    BY <1>0, <2>2
  <2> HIDE DEF reach
  <2> QED
    BY <1>2, <2>2, <2>3, <2>4 DEF reach
<1> QED
  BY <1>1, <1>2

\* A cut of the walk, or its end.
LEMMA WalkKeeps ==
  ASSUME SegmentsInv, Walk
  PROVE  SegmentsInv'
<1> DEFINE n == Cuts
           reach == {c \in Candidates : c >= LastCut + MinSeg /\ c <= LastCut + MaxSeg}
           more == zLen - LastCut > MaxSeg
           x == IF more THEN Pick(reach) ELSE zLen
<1>0. /\ MinSeg \in Nat \ {0} /\ MaxSeg \in Nat /\ MinSeg <= MaxSeg
      /\ MinFrag \in Nat \ {0} /\ 2 * MinFrag <= MaxSeg
      /\ Far \in Nat /\ MinFrag <= Far /\ Far <= MaxSeg /\ Far + MinFrag = MaxSeg
  BY SegmentBounds, FarIs
<1>1. /\ zLen \in Nat /\ zTail \in Nat /\ zTail <= Far
      /\ zSilent \subseteq 0 .. zLen /\ zLen \notin zSilent
      /\ zCuts \in Seq(Nat) /\ n >= 1 /\ zCuts[1] = 0 /\ zPc = "walk" /\ zI = 1
      /\ LastCut <= zLen /\ (n > 1 => zLen > MaxSeg) /\ NoTwo(1) /\ Ahead
  BY DEF SegmentsInv, CutsInv, WalkInv, Walk
<1>2. \A i \in 1 .. (n - 1) : /\ Gap(zCuts, i) \in Nat
                              /\ Gap(zCuts, i) >= MinSeg
                              /\ Gap(zCuts, i) <= MaxSeg
  BY <1>1 DEF SegmentsInv, CutsInv, WalkInv, SegLen, Gap
<1>3. n \in Nat /\ LastCut \in Nat
  <2>1. n \in Nat
    BY <1>1, LenProperties DEF Cuts
  <2>2. n \in 1 .. Len(zCuts)
    BY <1>1, <2>1 DEF Cuts
  <2> QED
    BY <1>1, <2>1, <2>2, ElementOfSeq DEF Cuts, LastCut
<1>4. /\ Pick(reach) \in Nat
      /\ Pick(reach) >= LastCut + MinSeg /\ Pick(reach) <= LastCut + MaxSeg
      /\ reach = {} => Pick(reach) = LastCut + MaxSeg
      /\ \A c \in reach : c <= Pick(reach)
  BY <1>3, PickReaches DEF SegmentsInv
<1>5. x \in Nat /\ x >= LastCut /\ x <= zLen /\ x - LastCut <= MaxSeg
  <2>1. CASE more
    <3> HIDE DEF reach
    <3>1. x = Pick(reach)
      BY <2>1
    <3> QED
      BY <1>0, <1>1, <1>3, <1>4, <2>1, <3>1
  <2>2. CASE ~more
    BY <1>0, <1>1, <1>3, <2>2
  <2> QED
    BY <2>1, <2>2
<1>6. /\ zCuts' = Append(zCuts, x)
      /\ zPc' = IF more THEN "walk" ELSE IF zLen <= MaxSeg THEN "done" ELSE "merge"
      /\ zLen' = zLen /\ zSilent' = zSilent /\ zTail' = zTail /\ zI' = zI
  BY <1>1 DEF Walk, zInput
<1>7. /\ zCuts' \in Seq(Nat) /\ Len(zCuts') = n + 1 /\ zCuts'[1] = 0 /\ zCuts'[n + 1] = x
      /\ \A i \in 1 .. (n - 1) : Gap(zCuts', i) = Gap(zCuts, i)
      /\ Gap(zCuts', n) = x - LastCut /\ x - LastCut \in Nat
  <2> HIDE DEF x
  <2> QED
    BY <1>1, <1>3, <1>5, <1>6, CutAppended DEF Cuts, LastCut
<1>8. more => x = Pick(reach) /\ x - LastCut >= MinSeg
  <2> HIDE DEF reach
  <2> QED
    BY <1>0, <1>3, <1>4
<1>9. Cuts' = n + 1 /\ LastCut' = x /\ \A i \in Nat : SegLen(i)' = Gap(zCuts', i)
  BY <1>7 DEF Cuts, LastCut, SegLen, Gap
<1>10. \A i \in 1 .. n : i = n \/ i \in 1 .. (n - 1)
  BY <1>3
<1>11. Candidates' = Candidates
  BY <1>6 DEF Candidates, RunStarts, RunEnd
<1>12. ~more => x = zLen
  OBVIOUS
<1> HIDE DEF n, x, reach
<1>13. \A i \in 1 .. n : Gap(zCuts', i) \in Nat /\ Gap(zCuts', i) <= MaxSeg
  BY <1>2, <1>5, <1>7, <1>10
<1>14. \A i \in 1 .. n : Gap(zCuts', i) >= MinSeg \/ (i = n /\ zPc' # "walk")
  BY <1>2, <1>6, <1>7, <1>8, <1>10
\* two fragments: the one before the last is far from every candidate and from the end
<1>15. \A i \in 1 .. (n - 1) : Gap(zCuts', i) < MinFrag => Gap(zCuts', i + 1) >= Far
  <2> SUFFICES ASSUME NEW i \in 1 .. (n - 1), Gap(zCuts', i) < MinFrag
               PROVE  Gap(zCuts', i + 1) >= Far
    OBVIOUS
  <2>1. Gap(zCuts, i) < MinFrag
    BY <1>7
  <2>2. CASE i \in 1 .. (n - 2)
    <3>1. Gap(zCuts, i + 1) >= Far
      BY <1>1, <2>1, <2>2 DEF NoTwo, SegLen, Gap, n
    <3>2. i + 1 \in 1 .. (n - 1)
      BY <1>3, <2>2
    <3> QED
      BY <1>7, <3>1, <3>2
  <2>3. CASE i = n - 1
    <3>1. n > 1 /\ i + 1 = n
      BY <1>3, <2>3
    <3>2. /\ zLen - LastCut >= Far
          /\ \A c \in Candidates : c >= LastCut + MinSeg => c - LastCut >= Far
      BY <1>1, <2>1, <2>3, <3>1 DEF Ahead, SegLen, Gap, n
    <3>3. x - LastCut >= Far
      <4>1. CASE ~more
        BY <1>12, <3>2, <4>1
      <4>2. CASE more /\ reach = {}
        <5>1. x = LastCut + MaxSeg
          BY <1>4, <1>8, <4>2
        <5> QED
          BY <1>0, <1>3, <5>1
      <4>3. CASE more /\ reach # {}
        <5>1. PICK c \in reach : TRUE
          BY <4>3
        <5>2. c \in Candidates /\ c >= LastCut + MinSeg /\ c \in Nat /\ c <= x
          <6>1. c \in Candidates /\ c >= LastCut + MinSeg
            BY <5>1 DEF reach
          <6>2. Candidates \subseteq Nat
            BY CandidatesAreFrames DEF SegmentsInv
          <6> QED
            BY <1>4, <1>8, <4>3, <5>1, <6>1, <6>2
        <5>3. c - LastCut >= Far
          BY <3>2, <5>2
        <5> QED
          BY <1>0, <1>3, <1>5, <5>2, <5>3
      <4> QED
        BY <4>1, <4>2, <4>3
    <3> QED
      BY <1>7, <3>1, <3>3
  <2> QED
    BY <1>3, <2>2, <2>3
<1>16. CutsInv'
  <2>1. /\ zLen' \in Nat /\ zTail' \in Nat /\ zI' \in Nat \ {0} /\ zTail' <= Far
        /\ zSilent' \subseteq 0 .. zLen' /\ zLen' \notin zSilent'
    BY <1>1, <1>6
  <2>2. zCuts' \in Seq(Nat) /\ Cuts' >= 1 /\ zCuts'[1] = 0 /\ Cuts' - 1 = n
    BY <1>3, <1>7, <1>9
  <2>3. \A i \in 1 .. n : SegLen(i)' = Gap(zCuts', i)
    BY <1>9
  <2>4. \A i \in 1 .. n : SegLen(i)' \in Nat
    BY <1>13, <2>3
  <2>5. \A i \in 1 .. n : SegLen(i)' >= MinSeg \/ (i = n /\ zPc' # "walk")
    BY <1>14, <2>3
  <2> QED
    BY <2>1, <2>2, <2>4, <2>5 DEF CutsInv
<1>17. WalkInv'
  <2> SUFFICES ASSUME zPc' = "walk" PROVE WalkInv'
    BY DEF WalkInv
  <2>1. more
    BY <1>6
  <2>2. zLen > MaxSeg
    BY <1>0, <1>1, <1>3, <2>1
  <2>3. \A i \in 1 .. n : SegLen(i)' <= MaxSeg
    BY <1>9, <1>13
  <2>4. NoTwo(1)'
    <3>1. Cuts' - 2 = n - 1
      BY <1>3, <1>9
    <3>2. \A i \in 1 .. (n - 1) : SegLen(i)' = Gap(zCuts', i) /\ SegLen(i + 1)' = Gap(zCuts', i + 1)
      BY <1>9
    <3> QED
      BY <1>15, <3>1, <3>2 DEF NoTwo
  <2>5. Ahead'
    <3>1. SegLen(Cuts - 1)' = x - LastCut
      <4>1. Cuts' - 1 = n
        BY <1>3, <1>9
      <4> QED
        BY <1>7, <4>1 DEF SegLen, Gap
    <3> SUFFICES ASSUME x - LastCut < MinFrag
                 PROVE  /\ zLen - x >= Far
                        /\ \A c \in Candidates : c >= x + MinSeg => c - x >= Far
      BY <1>6, <1>9, <1>11, <3>1 DEF Ahead
    <3>2. zLen - x >= Far
      BY <1>0, <1>1, <1>3, <1>5, <2>1
    <3>3. ASSUME NEW c \in Candidates, c >= x + MinSeg PROVE c - x >= Far
      <4>1. c \in Nat
        BY CandidatesAreFrames DEF SegmentsInv
      <4>2. c > x /\ c >= LastCut + MinSeg
        BY <1>0, <1>3, <1>5, <3>3, <4>1
      <4>3. c \notin reach
        BY <1>4, <1>5, <1>8, <2>1, <4>1, <4>2
      <4>4. c > LastCut + MaxSeg
        BY <1>0, <1>3, <4>1, <4>2, <4>3 DEF reach
      <4> QED
        BY <1>0, <1>3, <1>5, <4>1, <4>4
    <3> QED
      BY <3>2, <3>3
  <2>6. LastCut' <= zLen' /\ (Cuts' > 1 => zLen' > MaxSeg) /\ zI' = 1 /\ Cuts' - 1 = n
    BY <1>1, <1>3, <1>5, <1>6, <1>9, <2>2
  <2> QED
    BY <2>3, <2>4, <2>5, <2>6 DEF WalkInv
<1>18. MergeInv'
  <2> SUFFICES ASSUME zPc' = "merge" PROVE MergeInv'
    BY DEF MergeInv
  <2>1. ~more /\ ~(zLen <= MaxSeg)
    BY <1>6
  <2>2. n > 1
    <3>1. CASE n = 1
      <4>1. LastCut = 0
        BY <1>1, <3>1 DEF LastCut, Cuts, n
      <4> QED
        BY <1>0, <1>1, <2>1, <4>1
    <3> QED
      BY <1>1, <1>3, <3>1
  <2>3. /\ LastCut' = zLen' /\ zI' = 1 /\ zI' < Cuts' /\ zI' + 1 = 2 /\ Cuts' - 1 = n
           /\ Cuts' - 2 = n - 1
        /\ 2 .. zI' = {}
    BY <1>1, <1>3, <1>6, <1>9, <1>12, <2>1, <2>2
  <2>4. \A i \in 1 .. n : SegLen(i)' <= MaxSeg /\ SegLen(i)' < MaxSeg + MinFrag
    <3>1. \A i \in 1 .. n : SegLen(i)' = Gap(zCuts', i)
      BY <1>9
    <3> QED
      BY <1>0, <1>13, <3>1
  <2>5. \A i \in 1 .. 1 : i \in 1 .. n
    BY <1>3, <2>2
  <2>6. \A i \in 2 .. n : i \in 1 .. n
    BY <1>3, <2>2
  <2>7. \A i \in 2 .. (n - 1) : SegLen(i)' < MinFrag => SegLen(i + 1)' >= Far
    <3>1. \A i \in 2 .. (n - 1) : SegLen(i)' = Gap(zCuts', i) /\ SegLen(i + 1)' = Gap(zCuts',
          i + 1) /\ i \in 1 .. (n - 1)
      BY <1>9
    <3> QED
      BY <1>15, <3>1
  <2>8. NoTwo(zI + 1)'
    BY <2>3, <2>7 DEF NoTwo
  <2>9. SegLen(zI)' <= MaxSeg
    <3>1. SegLen(zI)' = Gap(zCuts', 1)
      BY <2>3 DEF SegLen, Gap
    <3>2. 1 \in 1 .. n
      BY <1>3, <2>2
    <3> QED
      BY <1>13, <3>1, <3>2
  <2>10. \A i \in 1 .. zI' : SegLen(i)' < MaxSeg + MinFrag
    BY <2>3, <2>4, <2>5
  <2>11. \A i \in (zI' + 1) .. (Cuts' - 1) : SegLen(i)' <= MaxSeg
    BY <2>3, <2>4, <2>6
  <2>12. Spared(zI - 1)'
    BY <2>3 DEF Spared
  <2> QED
    BY <2>3, <2>8, <2>9, <2>10, <2>11, <2>12 DEF MergeInv
<1>19. TailInv'
  <2> SUFFICES ASSUME zPc' = "done" PROVE TailInv'
    BY <1>6 DEF TailInv
  <2>1. ~more /\ zLen <= MaxSeg
    BY <1>6
  <2>2. n = 1
    BY <1>0, <1>1, <1>3, <2>1
  <2>3. LastCut' = zLen' /\ Cuts' = 2 /\ Cuts' - 1 = 1 /\ Cuts' - 2 = 0
    BY <1>6, <1>9, <1>12, <2>1, <2>2
  <2>4. SegLen(1)' = Gap(zCuts', 1) /\ 1 \in 1 .. n
    BY <1>9, <2>2
  <2>5. SegLen(1)' < MaxSeg + MinFrag
    BY <1>0, <1>1, <1>6, <1>13, <2>4
  <2>6. SegLen(Cuts - 1)' = SegLen(1)'
    BY <2>3 DEF SegLen
  <2>7. Spared(Cuts - 2)'
    BY <2>3 DEF Spared
  <2> QED
    BY <2>3, <2>5, <2>6, <2>7 DEF TailInv
<1> QED
  BY <1>16, <1>17, <1>18, <1>19 DEF SegmentsInv

\* A fragment goes into the segment before it: the next is none.
LEMMA MergeKeeps ==
  ASSUME SegmentsInv, MergeFragment
  PROVE  SegmentsInv'
<1> DEFINE n == Cuts
<1>0. /\ MinSeg \in Nat /\ MaxSeg \in Nat /\ MinFrag \in Nat \ {0}
      /\ Far \in Nat /\ MinFrag <= Far /\ Far <= MaxSeg /\ Far + MinFrag = MaxSeg
  BY SegmentBounds, FarIs
<1>1. /\ zLen \in Nat /\ zTail \in Nat /\ zTail <= Far
      /\ zSilent \subseteq 0 .. zLen /\ zLen \notin zSilent
      /\ zCuts \in Seq(Nat) /\ n >= 1 /\ zCuts[1] = 0 /\ zPc = "merge" /\ zI \in Nat \ {0}
      /\ zCuts[n] = zLen /\ zI < n
  BY DEF SegmentsInv, CutsInv, MergeInv, MergeFragment, LastCut, Cuts
<1>2. n \in Nat
  BY <1>1, LenProperties DEF Cuts
<1>3. /\ \A i \in 1 .. (n - 1) : Gap(zCuts, i) \in Nat
      /\ \A i \in 1 .. (n - 1) : Gap(zCuts, i) >= MinSeg \/ i = n - 1
      /\ \A i \in 2 .. zI : Gap(zCuts, i) >= MinFrag
      /\ \A i \in 1 .. zI : Gap(zCuts, i) < MaxSeg + MinFrag
      /\ \A i \in (zI + 1) .. (n - 1) : Gap(zCuts, i) <= MaxSeg
      /\ \A i \in (zI + 1) .. (n - 2) : Gap(zCuts, i) < MinFrag => Gap(zCuts, i + 1) >= Far
      /\ zI + 1 <= n - 1 => Gap(zCuts, zI) <= MaxSeg \/ Gap(zCuts, zI + 1) >= Far
      /\ \A i \in 1 .. (zI - 1) : Gap(zCuts, i) <= MaxSeg \/ Gap(zCuts, i + 1) >= Far
  BY <1>1 DEF SegmentsInv, CutsInv, MergeInv, NoTwo, Spared, SegLen, Gap
<1>4. zLen' = zLen /\ zSilent' = zSilent /\ zTail' = zTail
  BY DEF MergeFragment, zInput
<1>5. \A i : SegLen(i)' = Gap(zCuts', i)
  BY DEF SegLen, Gap
<1>6. CASE zI < n - 1 /\ Gap(zCuts, zI + 1) < MinFrag
  <2>1. zCuts' = Removed(zCuts, zI + 1) /\ zI' = zI /\ zPc' = "merge"
    <3>1. zCuts[zI + 2] - zCuts[zI + 1] < MinFrag
      BY <1>1, <1>6 DEF Gap
    <3> QED
      BY <1>1, <1>6, <3>1 DEF MergeFragment, CutAt, Removed, Cuts
  <2>2. zI + 1 \in 2 .. (Len(zCuts) - 1) /\ (zI + 1) - 2 = zI - 1 /\ (zI + 1) - 1 = zI
    BY <1>1, <1>2, <1>6 DEF Cuts
  <2>3. /\ zCuts' \in Seq(Nat) /\ Cuts' = n - 1 /\ zCuts'[1] = 0 /\ LastCut' = zLen
        /\ \A i \in 1 .. (zI - 1) : Gap(zCuts', i) = Gap(zCuts, i)
        /\ Gap(zCuts', zI) = Gap(zCuts, zI) + Gap(zCuts, zI + 1)
        /\ \A i \in (zI + 1) .. (n - 2) : Gap(zCuts', i) = Gap(zCuts, i + 1)
    <3> DEFINE k == zI + 1
    <3>1. k \in 2 .. (Len(zCuts) - 1) /\ k - 2 = zI - 1 /\ k - 1 = zI
      BY <2>2
    <3> HIDE DEF k
    <3>2. /\ Removed(zCuts, k) \in Seq(Nat) /\ Len(Removed(zCuts, k)) = Len(zCuts) - 1
          /\ Removed(zCuts, k)[1] = zCuts[1] /\ Removed(zCuts,
             k)[Len(zCuts) - 1] = zCuts[Len(zCuts)]
          /\ \A i \in 1 .. (k - 2) : Gap(Removed(zCuts, k), i) = Gap(zCuts, i)
          /\ Gap(Removed(zCuts, k), k - 1) = Gap(zCuts, k - 1) + Gap(zCuts, k)
          /\ \A i \in k .. (Len(zCuts) - 2) : Gap(Removed(zCuts, k), i) = Gap(zCuts, i + 1)
      BY <1>1, <3>1, CutRemoved
    <3>3. zCuts' = Removed(zCuts, k)
      BY <2>1 DEF k
    <3>4. /\ zCuts' \in Seq(Nat) /\ Cuts' = n - 1 /\ zCuts'[1] = 0 /\ LastCut' = zLen
      BY <1>1, <3>2, <3>3 DEF Cuts, LastCut
    <3> QED
      BY <3>1, <3>2, <3>3, <3>4 DEF k, Cuts
  <2> HIDE DEF n
  <2>4. Gap(zCuts, zI) \in Nat /\ Gap(zCuts, zI + 1) \in Nat /\ Gap(zCuts, zI) <= MaxSeg
        /\ Gap(zCuts, zI) >= MinSeg
    <3>1. zI \in 1 .. (n - 1) /\ zI + 1 \in 1 .. (n - 1) /\ zI # n - 1 /\ zI + 1 <= n - 1
      BY <1>1, <1>2, <1>6
    <3>2. Gap(zCuts, zI) \in Nat /\ Gap(zCuts, zI + 1) \in Nat /\ Gap(zCuts, zI) >= MinSeg
      BY <1>3, <3>1
    <3> QED
      BY <1>0, <1>3, <1>6, <3>1, <3>2
  <2>5. /\ Gap(zCuts', zI) \in Nat /\ Gap(zCuts', zI) < MaxSeg + MinFrag
        /\ Gap(zCuts', zI) >= MinSeg /\ Gap(zCuts', zI) >= Gap(zCuts, zI)
    BY <1>0, <1>6, <2>3, <2>4
  <2>6. \A i \in 1 .. (n - 2) : \/ i \in 1 .. (zI - 1) /\ i \in 1 .. (n - 1) /\ i # n - 1
                                \/ i = zI
                                \/ i \in (zI + 1) .. (n - 2) /\ i + 1 \in 1 .. (n - 1)
                                   /\ (i # n - 2 => i + 1 # n - 1)
    BY <1>1, <1>2
  <2>7. \A i \in 1 .. (n - 2) : Gap(zCuts', i) \in Nat
    BY <1>3, <2>3, <2>5, <2>6
  <2>8. \A i \in 1 .. (n - 2) : Gap(zCuts', i) >= MinSeg \/ i = n - 2
    BY <1>3, <2>3, <2>5, <2>6
  <2>9. \A i \in 2 .. zI : Gap(zCuts', i) >= MinFrag
    <3>1. \A i \in 2 .. zI : i = zI \/ i \in 1 .. (zI - 1)
      BY <1>1
    <3>2. zI \in 2 .. zI => Gap(zCuts', zI) >= MinFrag
      BY <1>0, <1>3, <2>4, <2>5
    <3> QED
      BY <1>3, <2>3, <3>1, <3>2
  <2>10. \A i \in 1 .. zI : Gap(zCuts', i) < MaxSeg + MinFrag
    <3>1. \A i \in 1 .. zI : i = zI \/ i \in 1 .. (zI - 1)
      BY <1>1
    <3> QED
      BY <1>3, <2>3, <2>5, <3>1
  <2>11. \A i \in (zI + 1) .. (n - 2) : i + 1 \in (zI + 1) .. (n - 1) /\ (i <= n - 3
         => i + 1 \in (zI + 1) .. (n - 2))
    BY <1>1, <1>2
  <2>12. \A i \in (zI + 1) .. (n - 2) : Gap(zCuts', i) <= MaxSeg
    BY <1>3, <2>3, <2>11
  <2>13. \A i \in (zI + 1) .. (n - 3) : Gap(zCuts', i) < MinFrag => Gap(zCuts', i + 1) >= Far
    <3>1. \A i \in (zI + 1) .. (n - 3) : i \in (zI + 1) .. (n - 2) /\ i + 1 \in (zI + 1) .. (n - 2)
      BY <1>1, <1>2
    <3> QED
      BY <1>3, <2>3, <3>1
  <2>14. zI + 1 <= n - 2 => Gap(zCuts', zI + 1) >= Far
    <3> SUFFICES ASSUME zI + 1 <= n - 2 PROVE Gap(zCuts', zI + 1) >= Far
      OBVIOUS
    <3>1. zI + 1 \in (zI + 1) .. (n - 2)
      BY <1>1, <1>2
    <3>2. Gap(zCuts', zI + 1) = Gap(zCuts, (zI + 1) + 1)
      BY <2>3, <3>1
    <3>3. Gap(zCuts, (zI + 1) + 1) >= Far
      BY <1>3, <1>6, <3>1
    <3> QED
      BY <3>2, <3>3
  <2>15. /\ Cuts' - 1 = n - 2 /\ Cuts' - 2 = n - 3 /\ Cuts' >= 1 /\ zI' < Cuts' /\ zI' = zI
         /\ zI \in Nat \ {0} /\ zPc' = "merge"
    BY <1>1, <1>2, <1>6, <2>1, <2>3
  <2>16. CutsInv'
    <3>1. \A i \in 1 .. (Cuts' - 1) : SegLen(i)' \in Nat
      BY <1>5, <2>7, <2>15
    <3>2. \A i \in 1 .. (Cuts' - 1) : SegLen(i)' >= MinSeg \/ (i = Cuts' - 1 /\ zPc' # "walk")
      BY <1>5, <2>8, <2>15
    <3>3. /\ zLen' \in Nat /\ zTail' \in Nat /\ zTail' <= Far /\ zI' \in Nat \ {0}
          /\ zSilent' \subseteq 0 .. zLen' /\ zLen' \notin zSilent'
          /\ zCuts' \in Seq(Nat) /\ Cuts' >= 1 /\ zCuts'[1] = 0
      BY <1>1, <1>4, <2>3, <2>15
    <3> QED
      BY <3>1, <3>2, <3>3 DEF CutsInv
  <2>17. MergeInv'
    <3>1. NoTwo(zI + 1)'
      BY <1>5, <2>13, <2>15 DEF NoTwo
    <3>2. /\ \A i \in 2 .. zI' : SegLen(i)' >= MinFrag
          /\ \A i \in 1 .. zI' : SegLen(i)' < MaxSeg + MinFrag
          /\ \A i \in (zI' + 1) .. (Cuts' - 1) : SegLen(i)' <= MaxSeg
      BY <1>5, <2>9, <2>10, <2>12, <2>15
    <3>3. zI' + 1 <= Cuts' - 1 => SegLen(zI + 1)' >= Far
      BY <2>14, <2>15 DEF SegLen, Gap
    <3>4. LastCut' = zLen' /\ zI' < Cuts'
      BY <1>4, <2>3, <2>15
    <3>5. Spared(zI - 1)'
      <4> SUFFICES ASSUME NEW i \in 1 .. (zI - 1)
                   PROVE  Gap(zCuts', i) <= MaxSeg \/ Gap(zCuts', i + 1) >= Far
        BY <1>5, <2>15 DEF Spared
      <4>1. Gap(zCuts', i) = Gap(zCuts, i)
        BY <2>3
      <4>2. Gap(zCuts, i) <= MaxSeg \/ Gap(zCuts, i + 1) >= Far
        BY <1>3
      <4>3. CASE i + 1 \in 1 .. (zI - 1)
        BY <2>3, <4>1, <4>2, <4>3
      <4>4. CASE i + 1 = zI
        BY <1>0, <2>4, <2>5, <4>1, <4>2, <4>4
      <4> QED
        BY <1>1, <4>3, <4>4
    <3> QED
      BY <3>1, <3>2, <3>3, <3>4, <3>5 DEF MergeInv
  <2> QED
    BY <2>15, <2>16, <2>17 DEF SegmentsInv, WalkInv, TailInv
<1>7. CASE zI < n - 1 /\ ~(Gap(zCuts, zI + 1) < MinFrag)
  <2>1. zCuts' = zCuts /\ zI' = zI + 1 /\ zPc' = "merge"
    <3>1. ~(zCuts[zI + 2] - zCuts[zI + 1] < MinFrag)
      BY <1>1, <1>7 DEF Gap
    <3> QED
      BY <1>1, <1>7, <3>1 DEF MergeFragment, Cuts
  <2>2. Cuts' = n /\ LastCut' = zLen
    BY <1>1, <2>1 DEF Cuts, LastCut
  <2> HIDE DEF n
  <2>3. zI + 1 \in 1 .. (n - 1) /\ zI + 1 \in (zI + 1) .. (n - 1)
    BY <1>1, <1>2, <1>7
  <2>4. Gap(zCuts, zI + 1) \in Nat /\ Gap(zCuts, zI + 1) >= MinFrag /\ Gap(zCuts, zI + 1) <= MaxSeg
    BY <1>0, <1>3, <1>7, <2>3
  <2>5. CutsInv'
    <3>1. \A i \in 1 .. (n - 1) : SegLen(i)' \in Nat /\ (SegLen(i)' >= MinSeg \/ i = n - 1)
      BY <1>3, <1>5, <2>1
    <3>2. /\ zLen' \in Nat /\ zTail' \in Nat /\ zTail' <= Far /\ zI' \in Nat \ {0}
          /\ zSilent' \subseteq 0 .. zLen' /\ zLen' \notin zSilent'
          /\ zCuts' \in Seq(Nat) /\ Cuts' >= 1 /\ zCuts'[1] = 0
      BY <1>1, <1>4, <2>1, <2>2
    <3> QED
      BY <2>1, <2>2, <3>1, <3>2 DEF CutsInv
  <2>6. MergeInv'
    <3>1. \A i \in 2 .. (zI + 1) : i = zI + 1 \/ i \in 2 .. zI
      BY <1>1
    <3>2. \A i \in 1 .. (zI + 1) : i = zI + 1 \/ i \in 1 .. zI
      BY <1>1
    <3>3. \A i \in 2 .. zI' : SegLen(i)' >= MinFrag
      BY <1>3, <1>5, <2>1, <2>4, <3>1
    <3>4. \A i \in 1 .. zI' : SegLen(i)' < MaxSeg + MinFrag
      <4>1. Gap(zCuts, zI + 1) < MaxSeg + MinFrag
        BY <1>0, <2>4
      <4> QED
        BY <1>3, <1>5, <2>1, <3>2, <4>1
    <3>5. \A i \in (zI' + 1) .. (n - 1) : i \in (zI + 1) .. (n - 1)
      BY <1>1, <1>2, <2>1
    <3>6. \A i \in (zI' + 1) .. (n - 2) : i \in (zI + 1) .. (n - 2)
      BY <1>1, <1>2, <2>1
    <3>7. \A i \in (zI' + 1) .. (n - 1) : SegLen(i)' <= MaxSeg
      BY <1>3, <1>5, <2>1, <3>5
    <3>8. NoTwo(zI + 1)'
      BY <1>3, <1>5, <2>1, <2>2, <3>6 DEF NoTwo
    <3>9. SegLen(zI)' <= MaxSeg
      BY <2>1, <2>4 DEF SegLen, Gap
    <3>10. LastCut' = zLen' /\ zI' < Cuts'
      BY <1>1, <1>2, <1>4, <1>7, <2>1, <2>2
    <3>11. Spared(zI - 1)'
      <4>1. zI' - 1 = zI /\ zI + 1 <= n - 1 /\ \A i \in 1 .. zI : i = zI \/ i \in 1 .. (zI - 1)
        BY <1>1, <1>2, <1>7, <2>1
      <4>2. \A i \in 1 .. zI : Gap(zCuts, i) <= MaxSeg \/ Gap(zCuts, i + 1) >= Far
        BY <1>3, <4>1
      <4> QED
        BY <1>5, <2>1, <4>1, <4>2 DEF Spared
    <3> QED
      BY <2>2, <3>3, <3>4, <3>7, <3>8, <3>9, <3>10, <3>11 DEF MergeInv
  <2> QED
    BY <2>1, <2>5, <2>6 DEF SegmentsInv, WalkInv, TailInv
<1>8. CASE ~(zI < n - 1)
  <2>1. zCuts' = zCuts /\ zI' = zI /\ zPc' = "tail"
    BY <1>1, <1>8 DEF MergeFragment, Cuts
  <2>2. Cuts' = n /\ LastCut' = zLen'
    BY <1>1, <1>4, <2>1 DEF Cuts, LastCut
  <2> HIDE DEF n
  <2>3. zI = n - 1 /\ n >= 2
    BY <1>1, <1>2, <1>8
  <2>4. CutsInv'
    <3>1. \A i \in 1 .. (n - 1) : SegLen(i)' \in Nat /\ (SegLen(i)' >= MinSeg \/ i = n - 1)
      BY <1>3, <1>5, <2>1
    <3>2. /\ zLen' \in Nat /\ zTail' \in Nat /\ zTail' <= Far /\ zI' \in Nat \ {0}
          /\ zSilent' \subseteq 0 .. zLen' /\ zLen' \notin zSilent'
          /\ zCuts' \in Seq(Nat) /\ Cuts' >= 1 /\ zCuts'[1] = 0
      BY <1>1, <1>4, <2>1, <2>2
    <3> QED
      BY <2>1, <2>2, <3>1, <3>2 DEF CutsInv
  <2>5. TailInv'
    <3>1. \A i \in 2 .. (n - 1) : SegLen(i)' >= MinFrag
      BY <1>3, <1>5, <2>1, <2>3
    <3>2. \A i \in 1 .. (n - 2) : i \in 1 .. zI
      BY <1>2, <2>3
    <3>3. \A i \in 1 .. (n - 2) : SegLen(i)' < MaxSeg + MinFrag
      BY <1>3, <1>5, <2>1, <3>2
    <3>4. SegLen(Cuts - 1)' = Gap(zCuts, zI)
      BY <2>1, <2>2, <2>3 DEF SegLen, Gap
    <3>5. Gap(zCuts, zI) \in Nat /\ Gap(zCuts, zI) < MaxSeg + MinFrag
      <4>1. zI \in 1 .. (n - 1) /\ zI \in 1 .. zI
        BY <1>1, <1>2, <2>3
      <4> QED
        BY <1>3, <4>1
    <3>6. Spared(Cuts - 2)'
      <4>1. Cuts' - 2 = zI - 1
        BY <1>1, <1>2, <2>2, <2>3
      <4> QED
        BY <1>3, <1>5, <2>1, <4>1 DEF Spared
    <3> QED
      BY <2>1, <2>2, <2>3, <3>1, <3>3, <3>4, <3>5, <3>6 DEF TailInv
  <2> QED
    BY <2>1, <2>4, <2>5 DEF SegmentsInv, WalkInv, MergeInv
<1> QED
  BY <1>6, <1>7, <1>8

\* A short tail goes into the segment before it.
LEMMA TailKeeps ==
  ASSUME SegmentsInv, MergeTail
  PROVE  SegmentsInv'
<1> DEFINE n == Cuts
<1>0. /\ MinSeg \in Nat /\ MaxSeg \in Nat /\ MinFrag \in Nat \ {0}
      /\ Far \in Nat /\ MinFrag <= Far /\ Far <= MaxSeg /\ Far + MinFrag = MaxSeg
  BY SegmentBounds, FarIs
<1>1. /\ zLen \in Nat /\ zTail \in Nat /\ zTail <= Far
      /\ zSilent \subseteq 0 .. zLen /\ zLen \notin zSilent
      /\ zCuts \in Seq(Nat) /\ n >= 2 /\ zCuts[1] = 0 /\ zPc = "tail" /\ zI \in Nat \ {0}
      /\ zCuts[n] = zLen
  BY DEF SegmentsInv, CutsInv, TailInv, MergeTail, LastCut, Cuts
<1>2. n \in Nat
  BY <1>1, LenProperties DEF Cuts
<1>3. /\ \A i \in 1 .. (n - 1) : Gap(zCuts, i) \in Nat
      /\ \A i \in 1 .. (n - 1) : Gap(zCuts, i) >= MinSeg \/ i = n - 1
      /\ \A i \in 2 .. (n - 1) : Gap(zCuts, i) >= MinFrag
      /\ \A i \in 1 .. (n - 2) : Gap(zCuts, i) < MaxSeg + MinFrag
      /\ Gap(zCuts, n - 1) < MaxSeg + MinFrag \/ Gap(zCuts, n - 1) < MaxSeg + zTail
      /\ \A i \in 1 .. (n - 2) : Gap(zCuts, i) <= MaxSeg \/ Gap(zCuts, i + 1) >= Far
  BY <1>1 DEF SegmentsInv, CutsInv, TailInv, Spared, SegLen, Gap
<1>4. zLen' = zLen /\ zSilent' = zSilent /\ zTail' = zTail /\ zI' = zI
  BY DEF MergeTail, zInput
<1>5. \A i : SegLen(i)' = Gap(zCuts', i)
  BY DEF SegLen, Gap
<1>6. Gap(zCuts, n - 1) = zCuts[n] - zCuts[n - 1]
  BY <1>2 DEF Gap
<1>7. CASE n >= 3 /\ Gap(zCuts, n - 1) < zTail
  <2>1. zCuts' = Removed(zCuts, n - 1) /\ zPc' = "tail"
    BY <1>1, <1>6, <1>7 DEF MergeTail, CutAt, Removed, Cuts, LastCut
  <2>2. /\ zCuts' \in Seq(Nat) /\ Cuts' = n - 1 /\ zCuts'[1] = 0 /\ LastCut' = zLen
        /\ \A i \in 1 .. (n - 3) : Gap(zCuts', i) = Gap(zCuts, i)
        /\ Gap(zCuts', n - 2) = Gap(zCuts, n - 2) + Gap(zCuts, n - 1)
    <3> DEFINE k == n - 1
    <3>1. k \in 2 .. (Len(zCuts) - 1) /\ k - 2 = n - 3 /\ k - 1 = n - 2
      BY <1>2, <1>7 DEF Cuts
    <3> HIDE DEF k
    <3>2. /\ Removed(zCuts, k) \in Seq(Nat) /\ Len(Removed(zCuts, k)) = Len(zCuts) - 1
          /\ Removed(zCuts, k)[1] = zCuts[1] /\ Removed(zCuts,
             k)[Len(zCuts) - 1] = zCuts[Len(zCuts)]
          /\ \A i \in 1 .. (k - 2) : Gap(Removed(zCuts, k), i) = Gap(zCuts, i)
          /\ Gap(Removed(zCuts, k), k - 1) = Gap(zCuts, k - 1) + Gap(zCuts, k)
      BY <1>1, <3>1, CutRemoved
    <3>3. zCuts' = Removed(zCuts, k)
      BY <2>1 DEF k
    <3>4. /\ zCuts' \in Seq(Nat) /\ Cuts' = n - 1 /\ zCuts'[1] = 0 /\ LastCut' = zLen
      BY <1>1, <3>2, <3>3 DEF Cuts, LastCut
    <3> QED
      BY <3>1, <3>2, <3>3, <3>4 DEF k
  <2> HIDE DEF n
  <2>3. n - 2 \in 1 .. (n - 2) /\ n - 2 \in 1 .. (n - 1) /\ n - 1 \in 1 .. (n - 1) /\ n - 2 # n - 1
    BY <1>2, <1>7
  <2>4. /\ Gap(zCuts, n - 2) \in Nat /\ Gap(zCuts, n - 1) \in Nat
        /\ Gap(zCuts, n - 2) <= MaxSeg /\ Gap(zCuts, n - 2) >= MinSeg
    <3>1. Gap(zCuts, n - 2) <= MaxSeg \/ Gap(zCuts, (n - 2) + 1) >= Far
      BY <1>3, <2>3
    <3>2. (n - 2) + 1 = n - 1 /\ Gap(zCuts, n - 1) \in Nat
      BY <1>2, <1>3, <2>3
    <3>3. ~(Gap(zCuts, n - 1) >= Far)
      BY <1>0, <1>1, <1>7, <3>2
    <3> QED
      BY <1>3, <2>3, <3>1, <3>2, <3>3
  <2>5. /\ Gap(zCuts', n - 2) \in Nat /\ Gap(zCuts', n - 2) < MaxSeg + zTail
        /\ Gap(zCuts', n - 2) >= Gap(zCuts, n - 2)
    <3>1. \A a, b, c, e \in Nat : a <= c /\ b < e => a + b \in Nat /\ a + b < c + e /\ a + b >= a
      OBVIOUS
    <3> DEFINE a == Gap(zCuts, n - 2)
               b == Gap(zCuts, n - 1)
    <3>2. b < zTail /\ MaxSeg \in Nat /\ zTail \in Nat
      BY <1>0, <1>1, <1>7
    <3>3. a \in Nat /\ b \in Nat /\ a <= MaxSeg
      BY <2>4
    <3>4. Gap(zCuts', n - 2) = a + b
      BY <2>2
    <3> HIDE DEF a, b
    <3>5. a + b \in Nat /\ a + b < MaxSeg + zTail /\ a + b >= a
      BY <3>1, <3>2, <3>3
    <3> QED
      BY <3>4, <3>5 DEF a
  <2>6. \A i \in 1 .. (n - 2) : i = n - 2 \/ (i \in 1 .. (n - 3) /\ i \in 1 .. (n - 1) /\ i # n - 1)
    BY <1>2
  <2>7. \A i \in 1 .. (n - 2) : Gap(zCuts', i) \in Nat /\ (Gap(zCuts', i) >= MinSeg \/ i = n - 2)
    BY <1>3, <2>2, <2>5, <2>6
  <2>8. \A i \in 2 .. (n - 2) : Gap(zCuts', i) >= MinFrag
    <3>1. \A i \in 2 .. (n - 2) : i \in 2 .. (n - 1) /\ (i = n - 2 \/ i \in 1 .. (n - 3))
      BY <1>2
    <3>2. n - 2 \in 2 .. (n - 1) => Gap(zCuts', n - 2) >= MinFrag
      BY <1>0, <1>3, <2>4, <2>5
    <3> QED
      BY <1>3, <2>2, <3>1, <3>2
  <2>9. \A i \in 1 .. (n - 3) : i \in 1 .. (n - 2)
    BY <1>2
  <2>10. \A i \in 1 .. (n - 3) : Gap(zCuts', i) < MaxSeg + MinFrag
    BY <1>3, <2>2, <2>9
  <2>11. Cuts' - 1 = n - 2 /\ Cuts' - 2 = n - 3 /\ Cuts' >= 2
    BY <1>2, <1>7, <2>2
  <2>12. CutsInv'
    <3>1. \A i \in 1 .. (Cuts' - 1) : SegLen(i)' \in Nat /\ (SegLen(i)' >= MinSeg \/ i = Cuts' - 1)
      BY <1>5, <2>7, <2>11
    <3>2. /\ zLen' \in Nat /\ zTail' \in Nat /\ zTail' <= Far /\ zI' \in Nat \ {0}
          /\ zSilent' \subseteq 0 .. zLen' /\ zLen' \notin zSilent'
          /\ zCuts' \in Seq(Nat) /\ Cuts' >= 1 /\ zCuts'[1] = 0
      BY <1>1, <1>4, <1>2, <2>2, <2>11
    <3> QED
      BY <2>1, <3>1, <3>2 DEF CutsInv
  <2>13. TailInv'
    <3>1. /\ \A i \in 2 .. (Cuts' - 1) : SegLen(i)' >= MinFrag
          /\ \A i \in 1 .. (Cuts' - 2) : SegLen(i)' < MaxSeg + MinFrag
      BY <1>5, <2>8, <2>10, <2>11
    <3>2. SegLen(Cuts - 1)' < MaxSeg + zTail'
      BY <1>4, <2>5, <2>11 DEF SegLen, Gap
    <3>3. Spared(Cuts - 2)'
      <4> SUFFICES ASSUME NEW i \in 1 .. (n - 3)
                   PROVE  Gap(zCuts', i) <= MaxSeg \/ Gap(zCuts', i + 1) >= Far
        BY <1>5, <2>11 DEF Spared
      <4>1. Gap(zCuts', i) = Gap(zCuts, i) /\ i \in 1 .. (n - 2)
        BY <1>2, <2>2, <2>9
      <4>2. Gap(zCuts, i) <= MaxSeg \/ Gap(zCuts, i + 1) >= Far
        BY <1>3, <4>1
      <4>3. CASE i + 1 \in 1 .. (n - 3)
        BY <2>2, <4>1, <4>2, <4>3
      <4>4. CASE i + 1 = n - 2
        BY <1>0, <2>4, <2>5, <4>1, <4>2, <4>4
      <4> QED
        BY <1>2, <4>3, <4>4
    <3> QED
      BY <1>4, <2>1, <2>2, <2>11, <3>1, <3>2, <3>3 DEF TailInv
  <2> QED
    BY <2>1, <2>12, <2>13 DEF SegmentsInv, WalkInv, MergeInv
<1>8. CASE ~(n >= 3 /\ Gap(zCuts, n - 1) < zTail)
  <2>1. zCuts' = zCuts /\ zPc' = "done"
    BY <1>1, <1>6, <1>8 DEF MergeTail, Cuts, LastCut
  <2>2. Cuts' = n /\ LastCut' = zLen'
    BY <1>1, <1>4, <2>1 DEF Cuts, LastCut
  <2> HIDE DEF n
  <2>3. n > 2 => Gap(zCuts, n - 1) >= zTail
    <3> SUFFICES ASSUME n > 2 PROVE Gap(zCuts, n - 1) >= zTail
      OBVIOUS
    <3>1. n >= 3 /\ n - 1 \in 1 .. (n - 1)
      BY <1>2
    <3>2. Gap(zCuts, n - 1) \in Nat
      BY <1>3, <3>1
    <3> QED
      BY <1>1, <1>8, <3>1, <3>2
  <2>4. CutsInv'
    <3>1. \A i \in 1 .. (n - 1) : SegLen(i)' \in Nat /\ (SegLen(i)' >= MinSeg \/ i = n - 1)
      BY <1>3, <1>5, <2>1
    <3>2. /\ zLen' \in Nat /\ zTail' \in Nat /\ zTail' <= Far /\ zI' \in Nat \ {0}
          /\ zSilent' \subseteq 0 .. zLen' /\ zLen' \notin zSilent'
          /\ zCuts' \in Seq(Nat) /\ Cuts' >= 1 /\ zCuts'[1] = 0
      BY <1>1, <1>4, <1>2, <2>1, <2>2
    <3> QED
      BY <2>1, <2>2, <3>1, <3>2 DEF CutsInv
  <2>5. TailInv'
    <3>1. /\ \A i \in 2 .. (Cuts' - 1) : SegLen(i)' >= MinFrag
          /\ \A i \in 1 .. (Cuts' - 2) : SegLen(i)' < MaxSeg + MinFrag
      BY <1>3, <1>5, <2>1, <2>2
    <3>2. SegLen(Cuts - 1)' = Gap(zCuts, n - 1)
      BY <2>1, <2>2 DEF SegLen, Gap
    <3>3. Spared(Cuts - 2)'
      BY <1>3, <1>5, <2>1, <2>2 DEF Spared
    <3> QED
      BY <1>1, <1>3, <1>4, <2>1, <2>2, <2>3, <3>1, <3>2, <3>3 DEF TailInv
  <2> QED
    BY <2>1, <2>4, <2>5 DEF SegmentsInv, WalkInv, MergeInv
<1> QED
  BY <1>7, <1>8

\* Every step of the segmentation keeps the invariant.
LEMMA SegmentsStep ==
  ASSUME SegmentsInv, [ZNext]_zVars
  PROVE  SegmentsInv'
<1>1. CASE Walk
  BY <1>1, WalkKeeps
<1>2. CASE MergeFragment
  BY <1>2, MergeKeeps
<1>3. CASE MergeTail
  BY <1>3, TailKeeps
<1>4. CASE UNCHANGED zVars
  <2>1. /\ zLen' = zLen /\ zSilent' = zSilent /\ zTail' = zTail /\ zCuts' = zCuts
        /\ zI' = zI /\ zPc' = zPc
    BY <1>4 DEF zVars
  <2>2. CutsInv'
    BY <2>1 DEF SegmentsInv, CutsInv, Cuts, SegLen
  <2>3. WalkInv'
    BY <2>1 DEF SegmentsInv, WalkInv, NoTwo, Ahead, Cuts, SegLen, LastCut, Candidates,
                RunStarts, RunEnd
  <2>4. MergeInv'
    BY <2>1 DEF SegmentsInv, MergeInv, NoTwo, Spared, Cuts, SegLen, LastCut
  <2>5. TailInv'
    BY <2>1 DEF SegmentsInv, TailInv, Spared, Cuts, SegLen, LastCut
  <2> QED
    BY <2>2, <2>3, <2>4, <2>5 DEF SegmentsInv
<1> QED
  BY <1>1, <1>2, <1>3, <1>4 DEF ZNext

\* No step of the splitter loses audio or leaves a fragment after the first segment: the
\* segments of every input, cut at any set of silent frames, are as SegmentsCover says.
THEOREM SegmentsCoverCorrect == ZSpec => []SegmentsCover
<1>1. ZInit(Lengths) => SegmentsInv
  BY SegmentsStart
<1>2. SegmentsInv /\ [ZNext]_zVars => SegmentsInv'
  BY SegmentsStep
<1>3. SegmentsInv => SegmentsCover
  BY SegmentsCovered
<1> QED
  BY <1>1, <1>2, <1>3, PTL DEF ZSpec

=============================================================================
