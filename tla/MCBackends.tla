----------------------------- MODULE MCBackends -----------------------------
(* The speech backends, what serves beside them, and the stores: one of them runs. *)
EXTENDS CtxPool, Qwen3Stream, ParaformerStream, EngineStreams, Moss, Recognizers,
        Segments, Watchdog, Speakers, RkLlm

VARIABLE subject

Init ==
  /\ subject \in {"pool", "qwen3", "paraformer", "engine", "moss", "recognizer", "segments",
                  "watchdog", "speakers", "llm"}
  /\ GInit(IF subject = "pool" THEN {"kokoro", "matcha"} ELSE {"kokoro"})
  /\ QInit
  /\ subject # "qwen3" => qKind = "accumulate" /\ qMode = "offline" /\ ~qVad
  /\ JInit
  /\ EInit(IF subject = "engine" THEN {"qwen3", "sherpa", "rk"} ELSE {"rk"})
  /\ MInit
  /\ RInit(IF subject = "recognizer" THEN {"sherpa", "rk"} ELSE {"rk"})
  /\ IF subject = "segments" THEN ZInit(Lengths) ELSE ZNone
  /\ WInit
  /\ SInit
  /\ LInit(IF subject = "llm" THEN {"dummy", "real"} ELSE {"dummy"})

Next ==
  \/ /\ subject = "pool" /\ GNext
     /\ UNCHANGED <<subject, qVars, jVars, eVars, mVars, rVars, zVars, wVars, sVars, lVars>>
  \/ /\ subject = "qwen3" /\ QNext
     /\ UNCHANGED <<subject, gVars, jVars, eVars, mVars, rVars, zVars, wVars, sVars, lVars>>
  \/ /\ subject = "paraformer" /\ JNext
     /\ UNCHANGED <<subject, gVars, qVars, eVars, mVars, rVars, zVars, wVars, sVars, lVars>>
  \/ /\ subject = "engine" /\ ENext
     /\ UNCHANGED <<subject, gVars, qVars, jVars, mVars, rVars, zVars, wVars, sVars, lVars>>
  \/ /\ subject = "moss" /\ MNext
     /\ UNCHANGED <<subject, gVars, qVars, jVars, eVars, rVars, zVars, wVars, sVars, lVars>>
  \/ /\ subject = "recognizer" /\ RNext
     /\ UNCHANGED <<subject, gVars, qVars, jVars, eVars, mVars, zVars, wVars, sVars, lVars>>
  \/ /\ subject = "segments" /\ ZNext
     /\ UNCHANGED <<subject, gVars, qVars, jVars, eVars, mVars, rVars, wVars, sVars, lVars>>
  \/ /\ subject = "watchdog" /\ WNext
     /\ UNCHANGED <<subject, gVars, qVars, jVars, eVars, mVars, rVars, zVars, sVars, lVars>>
  \/ /\ subject = "speakers" /\ SNext
     /\ UNCHANGED <<subject, gVars, qVars, jVars, eVars, mVars, rVars, zVars, wVars, lVars>>
  \/ /\ subject = "llm" /\ LNext
     /\ UNCHANGED <<subject, gVars, qVars, jVars, eVars, mVars, rVars, zVars, wVars, sVars>>

vars == <<subject, gVars, qVars, jVars, eVars, mVars, rVars, zVars, wVars, sVars, lVars>>
Spec == Init /\ [][Next]_vars
=============================================================================
