------------------------------ MODULE MCEdge ------------------------------
(* The two TRT Edge-LLM backends, and the volume the engines come from: one *)
(* behaviour of one of them.                                                *)
EXTENDS EdgeTts, EdgeAsr, Artifacts

VARIABLE subject
vars == <<subject, tVars, aVars, bVars>>

mcEngines == <<"encoder", "vocoder">>
mcBundle == {"encoder"}
mcFiles == <<"model", "tokens">>

Init ==
  /\ subject \in {"tts", "asr", "artifacts"}
  /\ TInit /\ AInit /\ BInit(IF subject = "artifacts" THEN LanguageModes ELSE {"rk"})

Next ==
  \/ subject = "tts" /\ TNext /\ UNCHANGED <<subject, aVars, bVars>>
  \/ subject = "asr" /\ ANext /\ UNCHANGED <<subject, tVars, bVars>>
  \/ subject = "artifacts" /\ BNext /\ UNCHANGED <<subject, tVars, aVars>>

Spec == Init /\ [][Next]_vars /\ TFairness /\ AFairness

\* The type invariant of both backends.
TypeOK == TTypeOK /\ ATypeOK

\* Calls of both backends end, whatever their workers do: a synthesis returns, raises or
\* is abandoned through every restart, and a recognition gets its answer or an error, if
\* only no process hangs before it is ready.
EdgeCallsEnd == TtsCallsEnd /\ AsrCallsEnd
=============================================================================
