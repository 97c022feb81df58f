------------------------------ MODULE MCV2VAsr ------------------------------
(* TLC instances of V2VAsr. *)
EXTENDS V2VAsr

\* What each coroutine of v2v_stream calls.
V2VCalls == [t \in Tasks |-> CASE t = "dispatcher" -> {"start", "audio", "cancel"}
                               [] t = "out" -> {"partial", "finalize", "cancel"}
                               [] t = "handler" -> {"cancel"}]

AnyConfig == [vad : BOOLEAN, multi : BOOLEAN]
VadMulti == {[vad |-> TRUE, multi |-> TRUE]}
PlainMulti == {[vad |-> FALSE, multi |-> TRUE]}
=============================================================================
