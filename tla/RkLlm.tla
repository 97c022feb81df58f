------------------------------- MODULE RkLlm -------------------------------
(***************************************************************************)
(* services/llm: the OpenAI-compatible chat server over one RKLLM engine.    *)
(* A streamed answer is generated on a thread of the executor and polled by  *)
(* the event loop; a plain one is generated on the loop itself, which does   *)
(* nothing else meanwhile.  Nothing serialises two generations, nothing      *)
(* aborts the one of a client that went away, and the binding keeps the      *)
(* tokens in one attribute of the model.                                     *)
(***************************************************************************)
EXTENDS Naturals, Sequences

CONSTANTS
  Chats,       \* requests to /v1/chat/completions
  MaxTokens,   \* bound: tokens of an answer
  MaxReloads   \* bound: calls of /admin/reload

ASSUME ChatBounds == MaxTokens \in Nat /\ MaxReloads \in Nat

VARIABLES
  lKind,    \* RKLLM_ENGINE, "dummy" or "real"
  lLoaded,  \* the engines with a model; engines are numbered, the last is _engine
  lEngine,  \* the number of _engine
  lBusy,    \* the chat whose generation holds the loop, or NoChat
  lChat,    \* per chat: [at, engine, mode, gave, read, tokens, idx, gone, shared]
  lList,    \* RKLLM._tokens as a list object: per chat, the list its chat() made
  lHolds    \* per engine: the chat whose list is the attribute _tokens, or NoChat

lVars == <<lKind, lLoaded, lEngine, lBusy, lChat, lList, lHolds>>

NoChat == "none"
LEngines == 0 .. MaxReloads
NewChat == [at |-> "new", engine |-> 0, mode |-> "stream", gave |-> 0, read |-> NoChat,
            tokens |-> <<>>, idx |-> 0, gone |-> FALSE, shared |-> FALSE]
Ended == [NewChat EXCEPT !.at = "ended"]
\* In generate().
Generating(c) == lChat[c].at \in {"run", "collect"}
\* In the generator of the response, or on the loop.
Polling(c) == lChat[c].at \in {"queued", "run", "collect", "raised", "done"} /\ ~lChat[c].gone
LoopFree == lBusy = NoChat

LInit(kinds) ==
  /\ lKind \in kinds /\ lLoaded = {0} /\ lEngine = 0 /\ lBusy = NoChat
  /\ lChat = [c \in Chats |-> NewChat] /\ lList = [c \in Chats |-> <<>>]
  /\ lHolds = [e \in LEngines |-> NoChat]

\* chat_completions() up to the generation: 503 without a model, 400 for a prompt
\* over the limit.
Refuse(c) ==
  /\ LoopFree /\ lChat[c].at = "new" /\ lChat' = [lChat EXCEPT ![c] = Ended]
  /\ UNCHANGED <<lKind, lLoaded, lEngine, lBusy, lList, lHolds>>
Accept(c, mode) ==
  /\ LoopFree /\ lChat[c].at = "new" /\ lEngine \in lLoaded
  /\ lChat' = [lChat EXCEPT ![c] = [@ EXCEPT !.at = "queued", !.engine = lEngine, !.mode = mode]]
  /\ lBusy' = IF mode = "plain" THEN c ELSE NoChat
  /\ UNCHANGED <<lKind, lLoaded, lEngine, lList, lHolds>>

\* generate(): an unloaded engine raises; a real one starts with a list of its own.
Overlaps(c, chats) ==
  LET others == {d \in Chats \ {c} : Generating(d) /\ chats[d].engine = chats[c].engine}
  IN [d \in Chats |-> IF others # {} /\ d \in others \cup {c}
                        THEN [chats[d] EXCEPT !.shared = TRUE] ELSE chats[d]]
Generate(c) ==
  /\ lChat[c].at = "queued"
  /\ IF lChat[c].engine \in lLoaded
       THEN /\ lChat' = Overlaps(c, [lChat EXCEPT ![c].at = "run"])
            /\ lHolds' = IF lKind = "real" THEN [lHolds EXCEPT ![lChat[c].engine] = c] ELSE lHolds
       ELSE lChat' = [lChat EXCEPT ![c].at = "raised"] /\ UNCHANGED lHolds
  /\ UNCHANGED <<lKind, lLoaded, lEngine, lBusy, lList>>
\* A token.  The dummy hands it on at once; the callback of the library appends it to
\* the list that is the attribute now.
DummyToken(c) ==
  /\ lKind = "dummy" /\ lChat[c].at = "run" /\ lChat[c].gave < MaxTokens
  /\ lChat' = [lChat EXCEPT ![c].gave = @ + 1, ![c].tokens = Append(@, <<c, Len(@) + 1>>)]
  /\ UNCHANGED <<lKind, lLoaded, lEngine, lBusy, lList, lHolds>>
OnResult(c) ==
  /\ lKind = "real" /\ lChat[c].at = "run" /\ lChat[c].gave < MaxTokens
  /\ lChat' = [lChat EXCEPT ![c].gave = @ + 1]
  /\ lList' = [lList EXCEPT ![lHolds[lChat[c].engine]] = Append(@, <<c, lChat[c].gave + 1>>)]
  /\ UNCHANGED <<lKind, lLoaded, lEngine, lBusy, lHolds>>
\* rkllm_run() returns; chat() then walks the list that is the attribute now.
RunReturns(c) ==
  /\ lChat[c].at = "run"
  /\ lChat' = [lChat EXCEPT ![c].at = IF lKind = "dummy" THEN "done" ELSE "collect",
                            ![c].read = lHolds[lChat[c].engine]]
  /\ UNCHANGED <<lKind, lLoaded, lEngine, lBusy, lList, lHolds>>
\* It fails, as it may for a model that was destroyed under it.
RunFails(c) ==
  /\ lKind = "real" /\ lChat[c].at = "run" /\ lChat' = [lChat EXCEPT ![c].at = "raised"]
  /\ UNCHANGED <<lKind, lLoaded, lEngine, lBusy, lList, lHolds>>
Collect(c) ==
  LET got == Len(lChat[c].tokens)
      list == lList[lChat[c].read] IN
  /\ lChat[c].at = "collect"
  /\ lChat' = [lChat EXCEPT ![c] =
       IF got < Len(list) THEN [@ EXCEPT !.tokens = Append(lChat[c].tokens, list[got + 1])]
                          ELSE [@ EXCEPT !.at = "done"]]
  /\ UNCHANGED <<lKind, lLoaded, lEngine, lBusy, lList, lHolds>>

-----------------------------------------------------------------------------
\* The loop of _stream(): what has come is sent, then the future is looked at; once it
\* is done the rest is sent before the last chunk.
SendChunks(c) ==
  /\ LoopFree /\ Polling(c) /\ lChat[c].mode = "stream"
  /\ lChat' = [lChat EXCEPT ![c].idx = Len(lChat[c].tokens)]
  /\ UNCHANGED <<lKind, lLoaded, lEngine, lBusy, lList, lHolds>>
StopAtDone(c) ==
  /\ LoopFree /\ lChat[c].at = "done" /\ ~lChat[c].gone /\ lChat[c].mode = "stream"
  /\ lChat' = [lChat EXCEPT ![c].at = "stopped"]
  /\ UNCHANGED <<lKind, lLoaded, lEngine, lBusy, lList, lHolds>>
Stop(c) ==
  /\ LoopFree /\ lChat[c].at = "done" /\ ~lChat[c].gone /\ lChat[c].mode = "stream"
  /\ lChat' = [lChat EXCEPT ![c].at = "stopped", ![c].idx = Len(lChat[c].tokens)]
  /\ UNCHANGED <<lKind, lLoaded, lEngine, lBusy, lList, lHolds>>
\* The future raised: a chunk with the reason "error".
StreamError(c) ==
  /\ LoopFree /\ lChat[c].at = "raised" /\ ~lChat[c].gone /\ lChat[c].mode = "stream"
  /\ lChat' = [lChat EXCEPT ![c] = Ended]
  /\ UNCHANGED <<lKind, lLoaded, lEngine, lBusy, lList, lHolds>>
\* The client goes away: the generator ends, the thread does not.
Disconnect(c) ==
  /\ LoopFree /\ Polling(c) /\ lChat[c].mode = "stream" /\ lChat' = [lChat EXCEPT ![c].gone = TRUE]
  /\ UNCHANGED <<lKind, lLoaded, lEngine, lBusy, lList, lHolds>>
\* A plain answer is whatever generate() returned, or 500.
Answer(c) ==
  /\ lBusy = c /\ lChat[c].at \in {"done", "raised"} /\ lBusy' = NoChat
  /\ lChat' = [lChat EXCEPT ![c] =
       IF @.at = "raised" THEN Ended
                          ELSE [@ EXCEPT !.at = "stopped", !.idx = Len(lChat[c].tokens)]]
  /\ UNCHANGED <<lKind, lLoaded, lEngine, lList, lHolds>>

\* /admin/reload: the old engine is unloaded, under whatever runs on it; the new one is
\* _engine even when its load() raises.
Reload(loads) ==
  /\ LoopFree /\ lEngine < MaxReloads /\ lEngine' = lEngine + 1
  /\ lLoaded' = (lLoaded \ {lEngine}) \cup (IF loads THEN {lEngine + 1} ELSE {})
  /\ UNCHANGED <<lKind, lBusy, lChat, lList, lHolds>>

LNext ==
  \/ \E c \in Chats :
       \/ Refuse(c) \/ (\E mode \in {"stream", "plain"} : Accept(c, mode)) \/ Generate(c)
       \/ DummyToken(c) \/ OnResult(c) \/ RunReturns(c) \/ RunFails(c) \/ Collect(c)
       \/ SendChunks(c) \/ Stop(c) \/ StreamError(c) \/ Disconnect(c) \/ Answer(c)
  \/ \E loads \in BOOLEAN : Reload(loads)
LSpec == LInit({"dummy", "real"}) /\ [][LNext]_lVars

-----------------------------------------------------------------------------
\* An answer that ends with the reason "stop" is the whole answer to its own prompt, in
\* order and nothing twice, across reloads and clients that go away: always for the
\* dummy engine, and for the real one if no other generation shared the engine.
AnswerIsWhole ==
  \A c \in Chats : lChat[c].at = "stopped" /\ (lKind = "dummy" \/ ~lChat[c].shared) =>
    SubSeq(lChat[c].tokens, 1, lChat[c].idx) = [k \in 1 .. lChat[c].gave |-> <<c, k>>]

\* Without that condition: an answer holds tokens of its own prompt only.
AnswerIsOwn ==
  \A c \in Chats : lChat[c].at = "stopped" => \A k \in 1 .. lChat[c].idx : lChat[c].tokens[k][1] = c
=============================================================================
