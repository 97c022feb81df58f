----------------------------- MODULE TextBuffers -----------------------------
(***************************************************************************)
(* app/core/v2v.py: the buffers between the text of a language model and the *)
(* sentences that are synthesized: SentenceBuffer over pysbd, a library that *)
(* divides the buffer's text into sentences as it likes, SentenceBuffer over *)
(* its regular expression, and LowLatencyTTSBuffer.  A character is its      *)
(* class:                                                                    *)
(*   "w" letter   "b" blank   "c" soft break (comma, colon)                  *)
(*   "h" hard break   "p" full stop, which ends a sentence before a blank    *)
(***************************************************************************)
EXTENDS Naturals, Sequences, FiniteSetsExt

CONSTANTS
  MinSentence,  \* DEFAULT_MIN_SENTENCE_CHARS
  MaxBuffer,    \* SentenceBuffer.max_buffer
  MinChars, TargetChars, MaxChars,   \* LowLatencyTTSBuffer
  MaxInput      \* bound: characters of a text

\* LowLatencyTTSBuffer.__post_init__() puts the three in this order.
ASSUME BufferSizes == 2 <= MinChars /\ MinChars <= TargetChars /\ TargetChars <= MaxChars
ASSUME TextSizes ==
  {MinSentence, MaxBuffer, MinChars, TargetChars, MaxChars, MaxInput} \subseteq Nat

Chars == {"w", "b", "c", "h", "p"}

VARIABLES
  xKind,      \* the buffer: "pysbd", "regex" or "lowlatency"
  xCjk,       \* the language of a LowLatencyTTSBuffer
  xBuf,       \* _buf
  xIn,        \* history: all that came in
  xOut,       \* history: all that left the buffer
  xSwallowed, \* history: the sentences in xOut that were not yielded, each with its
              \* first and last place
  xPc
xVars == <<xKind, xCjk, xBuf, xIn, xOut, xSwallowed, xPc>>

Solid(s) == {n \in DOMAIN s : s[n] # "b"}
LStrip(s) == IF Solid(s) = {} THEN <<>> ELSE SubSeq(s, Min(Solid(s)), Len(s))
Strip(s) == IF Solid(s) = {} THEN <<>> ELSE SubSeq(s, Min(Solid(s)), Max(Solid(s)))
Prefix(s, n) == SubSeq(s, 1, n)
From(s, n) == SubSeq(s, n, Len(s))

\* The characters of s that are not blank, each with its place among them.
Spoken(s) == {<<Cardinality({m \in Solid(s) : m <= n}), s[n]>> : n \in Solid(s)}

\* A piece and what stays in the buffer; an empty piece is None and ends the
\* loop of add() or flush().
Piece(out, rest) == [out |-> out, rest |-> rest]
Nothing(s) == Piece(<<>>, s)

-----------------------------------------------------------------------------
\* _extract_next_sentence_regex(): ends of matches, first to last; a run of
\* hard breaks is one match, a full stop counts before a blank or at the end.
SentenceEnds(s) ==
  {n \in DOMAIN s : \/ s[n] = "h" /\ (n = Len(s) \/ s[n + 1] # "h")
                    \/ s[n] = "p" /\ (n = Len(s) \/ s[n + 1] = "b")}

NextSentence(s) ==
  LET ends == {n \in SentenceEnds(s) : Len(Strip(Prefix(s, n))) >= MinSentence}
  IN  IF ends # {} THEN Piece(Strip(Prefix(s, Min(ends))), From(s, Min(ends) + 1))
      ELSE IF Len(s) >= MaxBuffer THEN Piece(Strip(s), <<>>)
      ELSE Nothing(s)

-----------------------------------------------------------------------------
(* LowLatencyTTSBuffer *)

Breaks(s, c) == {n \in DOMAIN s : s[n] = c}

\* mutant: what follows the cut is forgotten
TakeForgets(s, end) == Piece(Strip(Prefix(s, end)), LStrip(From(s, end + 2)))

Take(s, end) == Piece(Strip(Prefix(s, end)), LStrip(From(s, end + 1)))

\* _choose_length_cut()
LengthCut(s) ==
  LET limit == IF Len(s) < MaxChars THEN Len(s) ELSE MaxChars
      soft == {n \in Breaks(s, "c") : MinChars <= n /\ n <= limit}
      blanks == {n \in Breaks(s, "b") : MinChars <= n /\ n <= limit}
  IN  IF xCjk
      THEN IF soft # {} THEN Max(soft) ELSE limit
      ELSE IF blanks # {} THEN Max(blanks)
           ELSE IF Len(s) < TargetChars THEN Len(s) ELSE TargetChars

\* _next_chunk(final=False)
NextChunk(buf) ==
  LET s == LStrip(buf)
      hard == Breaks(s, "h")
      soft == Breaks(s, "c")
      size == Len(Strip(s))
  IN  IF hard # {} /\ Len(Strip(Prefix(s, Min(hard)))) >= MinSentence THEN Take(s, Min(hard))
      ELSE IF soft # {} /\ Len(Strip(Prefix(s, Max(soft)))) >= MinChars THEN Take(s, Max(soft))
      ELSE IF soft # {} /\ size >= TargetChars THEN Take(s, Len(s))
      ELSE IF s = <<>> \/ size < (IF xCjk THEN MaxChars ELSE TargetChars) THEN Nothing(s)
      ELSE Take(s, LengthCut(s))

-----------------------------------------------------------------------------
XInit ==
  /\ xKind \in {"pysbd", "regex", "lowlatency"}
  /\ xCjk \in BOOLEAN /\ (xCjk => xKind = "lowlatency")
  /\ xBuf = <<>> /\ xIn = <<>> /\ xOut = <<>> /\ xSwallowed = {}
  /\ xPc = "idle"

\* add()
AddText ==
  /\ xPc = "idle"
  /\ \E t \in UNION {[1 .. n -> Chars] : n \in 1 .. 2} :
       /\ Len(xIn) + Len(t) <= MaxInput
       /\ xBuf' = xBuf \o t
       /\ xIn' = xIn \o t
  /\ xPc' = "emit"
  /\ UNCHANGED <<xKind, xCjk, xOut, xSwallowed>>

\* A sentence of pysbd's: one that is too short is swallowed.
Yield(s) ==
  /\ xOut' = xOut \o s
  /\ xSwallowed' = IF s = <<>> \/ Len(s) >= MinSentence THEN xSwallowed
                   ELSE xSwallowed \cup {<<Len(xOut) + 1, Len(xOut) + Len(s)>>}

\* _emit_pysbd(): every sentence but the last; a single one only when it is too long.
Segment ==
  /\ xPc \in {"emit", "more"} /\ xKind = "pysbd"
  /\ \/ \E n \in 1 .. Len(xBuf) - 1 :
          /\ Yield(Strip(Prefix(xBuf, n)))
          /\ xBuf' = From(xBuf, n + 1)
          /\ xPc' = "more"
     \/ /\ xPc' = "idle"
        /\ LET p == IF xPc = "emit" /\ Len(xBuf) >= MaxBuffer THEN Piece(Strip(xBuf), <<>>)
                                                               ELSE Nothing(xBuf)
           IN  xBuf' = p.rest /\ xOut' = xOut \o p.out
        /\ UNCHANGED xSwallowed
  /\ UNCHANGED <<xKind, xCjk, xIn>>

\* The next piece of the other two, or the end of add().
Emit ==
  /\ xPc = "emit" /\ xKind # "pysbd"
  /\ LET p == IF xKind = "regex" THEN NextSentence(xBuf) ELSE NextChunk(xBuf) IN
     /\ xBuf' = p.rest
     /\ xOut' = xOut \o p.out
     /\ xPc' = IF p.out = <<>> THEN "idle" ELSE "emit"
  /\ UNCHANGED <<xKind, xCjk, xIn, xSwallowed>>

\* flush()
FlushText ==
  /\ xPc = "idle"
  /\ xOut' = xOut \o Strip(xBuf)
  /\ xBuf' = <<>>
  /\ xPc' = "flushed"
  /\ UNCHANGED <<xKind, xCjk, xIn, xSwallowed>>

XNext == AddText \/ Segment \/ Emit \/ FlushText
XSpec == XInit /\ [][XNext]_xVars

XTypeOK ==
  /\ xKind \in {"pysbd", "regex", "lowlatency"} /\ xCjk \in BOOLEAN
  /\ {xBuf, xIn, xOut} \subseteq Seq(Chars)
  /\ xSwallowed \subseteq (1 .. Len(xOut)) \X (1 .. Len(xOut))
  /\ xPc \in {"idle", "emit", "more", "flushed"}

\* What the language model said leaves the buffer once and in order, in whatever
\* chunks the text arrives and wherever it is cut: nothing but blanks is lost or
\* repeated.  All of it is yielded, except that the pysbd path swallows sentences
\* shorter than the minimum, which the other two never do.
TextSpokenOnce ==
  /\ Spoken(xOut \o xBuf) = Spoken(xIn)
  /\ xKind # "pysbd" => xSwallowed = {}
  /\ \A p \in xSwallowed : p[2] - p[1] + 1 < MinSentence
=============================================================================
