----------------------------- MODULE MCDialogue -----------------------------
(* The dialogue of the agent: its state machine, the conversation with the LLM *)
(* that one of its turns carries on, and the LLM client; one behaviour of one  *)
(* of them.                                                                    *)
EXTENDS Dialogue, Conversation, LlmClient

CONSTANT Subjects      \* the parts a run looks at

VARIABLE subject
vars == <<subject, dVars, hVars, kVars>>

\* A part that is not the subject has one initial state, in which none of its
\* fair actions is enabled.
Init ==
  /\ subject \in Subjects
  /\ DInit /\ HInit /\ KInit
  /\ subject # "machine" => dState = "idle"
  /\ subject # "talk" => hMode = "chat"

Next ==
  \/ subject = "machine" /\ DNext /\ UNCHANGED <<subject, hVars, kVars>>
  \/ subject = "talk" /\ HNext /\ UNCHANGED <<subject, dVars, kVars>>
  \/ subject = "llm" /\ KNext /\ UNCHANGED <<subject, dVars, hVars>>

Spec == Init /\ [][Next]_vars /\ DFairness /\ KFairness
=============================================================================
