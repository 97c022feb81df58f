------------------------------ MODULE Segments ------------------------------
(***************************************************************************)
(* Cutting long audio at silences: _split_at_silence_vad() and               *)
(* _split_at_silence_energy() of app/backends/jetson/qwen3_asr.py, and the    *)
(* copy in app/backends/rk/asr.py.  Candidates are the midpoints of runs of  *)
(* silent frames; a greedy walk cuts at the last candidate within reach, or  *)
(* hard; fragments and a short tail are merged into what precedes them.      *)
(*                                                                           *)
(* An input is a length and the set of its silent frames, and the lengths    *)
(* below are in frames.  Which frames the VAD or the energy threshold takes  *)
(* for silent is the input.                                                  *)
(***************************************************************************)
EXTENDS Naturals, Sequences, FiniteSets, FiniteSetsExt

CONSTANTS
  MaxSeg,      \* VAD_MAX_SEG_SEC, 4.5 s
  MinSeg,      \* VAD_MIN_SEG_SEC, 0.5 s
  MinFrag,     \* min_frag, 1.0 s
  Tails,       \* min_tail, by splitter: 2.0 s, or 1.5 s on Rockchip
  Boundary,    \* the length past which the model stops early, 6 s
  MinRun,      \* the shortest run of silence that is a candidate
  Lengths,     \* bound: lengths of the inputs
  MaxSilent    \* bound: silent frames of an input

ASSUME SegmentBounds ==
  /\ MinSeg \in Nat \ {0} /\ MaxSeg \in Nat /\ MinSeg <= MaxSeg
  /\ MinFrag \in Nat \ {0} /\ 2 * MinFrag <= MaxSeg
  /\ Boundary \in Nat /\ Tails \subseteq Nat /\ \A t \in Tails : t + MinFrag <= MaxSeg
  /\ MinRun \in Nat \ {0}
  /\ Lengths \subseteq Nat /\ MaxSilent \in Nat

VARIABLES
  zLen,     \* len(audio)
  zSilent,  \* the silent frames
  zTail,    \* min_tail
  zCuts,    \* cuts
  zI,       \* i of the merging loop
  zPc       \* "walk", "merge", "tail" or "done"

zVars == <<zLen, zSilent, zTail, zCuts, zI, zPc>>
zInput == <<zLen, zSilent, zTail>>

ZInit(lengths) ==
  /\ zLen \in lengths
  /\ \E f \in [1 .. MaxSilent -> 0 .. zLen] :      \* MaxSilent frames at most
       zSilent = {f[i] : i \in 1 .. MaxSilent} \ {zLen}
  /\ zTail \in Tails
  /\ zCuts = <<0>> /\ zI = 1 /\ zPc = "walk"
\* For compositions: no audio at all.
ZNone ==
  /\ zLen = 0 /\ zSilent = {} /\ zTail = 0 /\ zCuts = <<0, 0>> /\ zI = 1 /\ zPc = "done"

\* The midpoints of the maximal runs a .. b - 1 of at least MinRun silent frames.
RunStarts == {f \in zSilent : f = 0 \/ f - 1 \notin zSilent}
RunEnd(f) == Min({g \in f .. zLen : g \notin zSilent})
Candidates ==
  {(f + RunEnd(f)) \div 2 : f \in {r \in RunStarts : RunEnd(r) - r >= MinRun}}

LastCut == zCuts[Len(zCuts)]
CutAt(i) == SubSeq(zCuts, 1, i - 1) \o SubSeq(zCuts, i + 1, Len(zCuts))   \* cuts.pop(i - 1)
\* The last candidate in reach, else a hard cut.
Pick(reach) == IF reach = {} THEN LastCut + MaxSeg ELSE Max(reach)

Walk ==
  /\ zPc = "walk"
  /\ IF zLen - LastCut > MaxSeg
       THEN /\ zCuts' = Append(zCuts,
                 Pick({c \in Candidates : c >= LastCut + MinSeg /\ c <= LastCut + MaxSeg}))
            /\ UNCHANGED zPc
       ELSE \* audio that fits is returned as it is
            /\ zCuts' = Append(zCuts, zLen)
            /\ zPc' = IF zLen <= MaxSeg THEN "done" ELSE "merge"
  /\ UNCHANGED <<zInput, zI>>
\* Fragments: i runs over the inner cuts, from the first.
MergeFragment ==
  /\ zPc = "merge"
  /\ IF zI < Len(zCuts) - 1
       THEN IF zCuts[zI + 2] - zCuts[zI + 1] < MinFrag
              THEN zCuts' = CutAt(zI + 1) /\ UNCHANGED <<zI, zPc>>
              ELSE zI' = zI + 1 /\ UNCHANGED <<zCuts, zPc>>
       ELSE zPc' = "tail" /\ UNCHANGED <<zCuts, zI>>
  /\ UNCHANGED zInput
\* A tail shorter than min_tail.
TailIsFragment ==
  /\ zPc = "tail"
  /\ IF Len(zCuts) >= 3 /\ LastCut - zCuts[Len(zCuts) - 1] < MinFrag
       THEN zCuts' = CutAt(Len(zCuts) - 1) /\ UNCHANGED zPc
       ELSE zPc' = "done" /\ UNCHANGED zCuts
  /\ UNCHANGED <<zInput, zI>>
MergeTail ==
  /\ zPc = "tail"
  /\ IF Len(zCuts) >= 3 /\ LastCut - zCuts[Len(zCuts) - 1] < zTail
       THEN zCuts' = CutAt(Len(zCuts) - 1) /\ UNCHANGED zPc
       ELSE zPc' = "done" /\ UNCHANGED zCuts
  /\ UNCHANGED <<zInput, zI>>

ZNext == Walk \/ MergeFragment \/ MergeTail
ZSpec == ZInit(Lengths) /\ [][ZNext]_zVars

-----------------------------------------------------------------------------
SegLen(i) == zCuts[i + 1] - zCuts[i]

\* The segments are all the audio, in order; none after the first is a fragment, "tiny
\* chunks produce hallucinations", the last of several is at least min_tail long; no
\* cut lies closer than MinSeg to the one before.  "Merged segment may slightly exceed
\* max_seg", by less than a fragment; the last one by less than a tail.
SegmentsCover ==
  /\ \A i \in 1 .. (Len(zCuts) - 1) : SegLen(i) >= MinSeg \/ i = Len(zCuts) - 1
  /\ zPc = "done" =>
       /\ zCuts[1] = 0 /\ LastCut = zLen
       /\ \A i \in 2 .. (Len(zCuts) - 1) : SegLen(i) >= MinFrag
       /\ Len(zCuts) > 2 => SegLen(Len(zCuts) - 1) >= zTail
       /\ \A i \in 1 .. (Len(zCuts) - 1) :
            SegLen(i) < MaxSeg + MinFrag \/ (i = Len(zCuts) - 1 /\ SegLen(i) < MaxSeg + zTail)

\* "... but stays under the 6s Bug A boundary (max_seg + min_frag < 6.0s)": a short tail
\* that is merged goes over it.
BelowBoundary ==
  zPc = "done" => \A i \in 1 .. (Len(zCuts) - 1) : SegLen(i) < Boundary
=============================================================================
