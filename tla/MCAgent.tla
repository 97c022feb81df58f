------------------------------- MODULE MCAgent -------------------------------
(* What keeps the agent going: its socket, and its tasks and capture from     *)
(* start to end; one behaviour of either.                                     *)
EXTENDS SlvClient, AgentLife

VARIABLE subject
vars == <<subject, cVars, lVars>>

\* In the initial state of the part that is not the subject none of its fair
\* actions is enabled.
Init == subject \in {"socket", "life"} /\ CInit /\ LInit

Next ==
  \/ subject = "socket" /\ CNext /\ UNCHANGED <<subject, lVars>>
  \/ subject = "life" /\ LNext /\ UNCHANGED <<subject, cVars>>

Spec == Init /\ [][Next]_vars /\ CFairness /\ LFairness
=============================================================================
