------------------------------ MODULE MCServing ------------------------------
(* The endpoints of app/main.py with their admission, and the text buffers:   *)
(* two parts that share no state, one behaviour of either.                    *)
EXTENDS Serving, TextBuffers

VARIABLE subject
vars == <<subject, sVars, xVars>>

MCKinds == [player  |-> {"stream", "cstream"},
            speaker |-> {"ws", "asr", "v2v"},
            caller  |-> {"tts", "clone", "embed"}]

\* The part that is not the subject has one initial state.
Init ==
  /\ subject \in {"endpoints", "buffers"}
  /\ SInit /\ XInit
  /\ subject # "endpoints" => sState["tts"] = "none" /\ sMode = "concurrent"
  /\ subject # "buffers" => xKind = "regex"

Next ==
  \/ subject = "endpoints" /\ SNext /\ UNCHANGED <<subject, xVars>>
  \/ subject = "buffers" /\ XNext /\ UNCHANGED <<subject, sVars>>

Spec == Init /\ [][Next]_vars /\ SFairness

\* The type invariant of the parts.
TypeOK == STypeOK /\ XTypeOK
=============================================================================
