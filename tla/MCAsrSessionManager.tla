------------------------ MODULE MCAsrSessionManager ------------------------
(* TLC instances of AsrSessionManager: the dispatcher and asr_out_task. *)
EXTENDS AsrSessionManager

\* What the two coroutines of v2v_stream call.
V2VCalls == [t \in Tasks |-> IF t = "dispatcher" THEN {"start", "audio", "cancel"}
                                                 ELSE {"partial", "finalize", "cancel"}]
=============================================================================
