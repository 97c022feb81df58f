---------------------------- MODULE Conversation ----------------------------
(***************************************************************************)
(* One dialogue session of the agent (session.py) and the turns that write   *)
(* it: run_default_dialogue_turn() and speak() of app_mode.py, the tool      *)
(* rounds of tools/runner.py with the registry's dispatch, the modes, and    *)
(* ModeManager.switch().  Two turns may be under way: the one of the user's   *)
(* utterance and the one of the monologue loop, which outlives a switch      *)
(* until exit() has cancelled it.  A coroutine runs from one await to the    *)
(* next in one step.                                                         *)
(*                                                                          *)
(* A message is a role and a number: the calls of an assistant(tool_calls), *)
(* or 1 for the short reply an echo loop repeats.  Every message weighs one. *)
(***************************************************************************)
EXTENDS Naturals, Sequences, FiniteSets

CONSTANTS
  ModeNames,      \* the registered modes, a subset of the four below
  RoundCalls,     \* tool calls of one round
  MaxIterations,  \* tools_max_iterations
  Budget,         \* session_max_input_tokens * 0.75, in messages
  EchoWindow,     \* Session.ECHO_WINDOW
  MaxTurns        \* bound: turns begun in a behaviour

ASSUME ConversationBounds ==
  /\ RoundCalls \in Nat \ {0} /\ MaxIterations \in Nat /\ Budget \in Nat /\ EchoWindow \in Nat

VARIABLES
  hHist,       \* Session.history
  hMode,       \* ModeManager._current
  hPending,    \* switches that wait in MonologueMode.exit()
  hLoop,       \* the monologue loop task is alive
  hTurn,       \* the two turns
  hBegun,      \* turns begun
  hMixed       \* a turn began, or the history was cleared, under a running turn

hVars == <<hHist, hMode, hPending, hLoop, hTurn, hBegun, hMixed>>

Turns2 == {"user", "loop"}
Resting == [pc |-> "off", anchor |-> 0, msgs |-> <<>>, iter |-> 0, left |-> 0, sent |-> FALSE]

User == [role |-> "user", n |-> 0]
Reply(n) == [role |-> "reply", n |-> n]
CallsMsg == [role |-> "calls", n |-> RoundCalls]
Result == [role |-> "result", n |-> 0]

HInit ==
  /\ hHist = <<>>
  /\ hMode \in ModeNames \ {"monologue"}
  /\ hPending = <<>> /\ hLoop = FALSE
  /\ hTurn = [t \in Turns2 |-> Resting]
  /\ hBegun = 0 /\ hMixed = FALSE

-----------------------------------------------------------------------------
(* Session *)

\* rollback_to(anchor): nothing when the history is no longer than that.
RollbackTo(h, anchor) == IF anchor >= Len(h) THEN h ELSE SubSeq(h, 1, anchor)

\* _maybe_recover_from_echo()
Echoes(h) ==
  LET said == SelectSeq(h, LAMBDA m : m.role = "reply")
  IN  Len(said) >= EchoWindow /\ \A i \in Len(said) - EchoWindow + 1 .. Len(said) : said[i].n = 1

AddAssistant(h, m) == IF Echoes(Append(h, m)) THEN <<>> ELSE Append(h, m)

\* _msg_tokens() of a list of messages.
Tokens(h) == Len(h)

\* mutant: the trim cuts messages, not turns
TrimMessages(h) == IF Tokens(h) <= Budget THEN h ELSE SubSeq(h, Len(h) - Budget + 1, Len(h))

\* _trim_to_budget(): drop the oldest whole turns until the rest fits.  The
\* latest turn stays.  Without any user message, drop the oldest messages.
TrimToBudget(h) ==
  LET starts == {i \in DOMAIN h : h[i].role = "user"}
      fits == {i \in starts : Len(h) - i + 1 <= Budget}
      last == CHOOSE i \in starts : \A j \in starts : j <= i
      cut == IF fits = {} THEN last ELSE CHOOSE i \in fits : \A j \in fits : i <= j
  IN  IF Tokens(h) <= Budget THEN h
      ELSE IF starts = {} THEN SubSeq(h, Len(h) - Budget + 1, Len(h))
      ELSE LET first == CHOOSE i \in starts : \A j \in starts : i <= j
           IN  IF Len(h) - first + 1 <= Budget THEN h ELSE SubSeq(h, cut, Len(h))

-----------------------------------------------------------------------------
(* A turn *)

Running(t) == hTurn[t].pc # "off"
Other(t) == IF t = "user" THEN "loop" ELSE "user"

\* Once two turns write one history, its contents are not followed further.
Write(h) == hHist' = IF hMixed' THEN <<>> ELSE h

Step(t, r) ==
  LET next == [hTurn EXCEPT ![t] = r]
  IN  hTurn' = IF hMixed' THEN [u \in Turns2 |-> [next[u] EXCEPT !.msgs = <<>>, !.anchor = 0]]
               ELSE next

Over(t) == Step(t, Resting)

\* on_assistant_token and its kin: the server is sent a piece of the answer.
Speaks(t) == Step(t, [hTurn[t] EXCEPT !.sent = TRUE])

\* run_default_dialogue_turn() up to the first event of the stream: the user's
\* message, the messages for the LLM, the anchor of the rollback.
BeginDefault(t, h) ==
  LET with == Append(h, User) IN
  /\ Write(with)
  /\ Step(t, [Resting EXCEPT !.pc = "stream", !.anchor = Len(with), !.msgs = TrimToBudget(with),
                            !.iter = 1])

\* The LLM is known to be down: LLMUnavailable before anything is written.
Unavailable(t) ==
  /\ ~Running(t)
  /\ t = "loop" => hLoop /\ hPending = <<>>
  /\ hBegun < MaxTurns
  /\ hBegun' = hBegun + 1
  /\ UNCHANGED <<hHist, hMode, hPending, hLoop, hTurn, hMixed>>

\* ChatMode.on_user_utterance(), and a round of MonologueMode._broadcast_loop().
Chat(t) ==
  /\ ~Running(t)
  /\ IF t = "loop" THEN hLoop /\ hPending = <<>> ELSE hMode = "chat"
  /\ hBegun < MaxTurns
  /\ hBegun' = hBegun + 1
  /\ hMixed' = (hMixed \/ Running(Other(t)))
  /\ BeginDefault(t, hHist)
  /\ UNCHANGED <<hMode, hPending, hLoop>>

\* InterpreterMode.on_user_utterance(): the history is cleared, then the
\* translator is asked, or the LLM when there is no use in asking it.
Interpret ==
  /\ hMode = "interpreter" /\ ~Running("user")
  /\ hMixed' = (hMixed \/ Running("loop"))
  /\ hBegun < MaxTurns
  /\ hBegun' = hBegun + 1
  /\ \/ BeginDefault("user", <<>>)
     \/ hHist' = <<>> /\ Step("user", [Resting EXCEPT !.pc = "translate"])
  /\ UNCHANGED <<hMode, hPending, hLoop>>

\* The translator answers: speak(), or the LLM when it fails or says nothing.
Translated ==
  /\ hTurn["user"].pc = "translate"
  /\ hMixed' = (hMixed \/ Running("loop"))
  /\ \/ BeginDefault("user", hHist)
     \/ /\ Step("user", [hTurn["user"] EXCEPT !.pc = "flush", !.sent = TRUE])
        /\ UNCHANGED hHist
  /\ UNCHANGED <<hMode, hPending, hLoop, hBegun>>

\* TranscribeMode.on_user_utterance(), and MonologueMode.preprocess_user_text():
\* the text is passed on, or dropped.
NoReply ==
  /\ hMode \in {"transcribe", "monologue"}
  /\ hBegun < MaxTurns
  /\ hBegun' = hBegun + 1
  /\ UNCHANGED <<hHist, hMode, hPending, hLoop, hTurn, hMixed>>

\* A text event, or the preamble of a tool whose name has come.
Token(t) ==
  /\ hTurn[t].pc \in {"stream", "tool"} /\ ~hTurn[t].sent
  /\ UNCHANGED hMixed
  /\ Speaks(t)
  /\ UNCHANGED <<hHist, hMode, hPending, hLoop, hBegun>>

\* The stream ends without tool calls: the text is the answer.
FinalText(t) ==
  /\ hTurn[t].pc = "stream"
  /\ UNCHANGED hMixed
  /\ \/ ~hTurn[t].sent /\ UNCHANGED hHist
     \/ hTurn[t].sent /\ \E n \in 0 .. 1 : Write(AddAssistant(hHist, Reply(n)))
  /\ Step(t, [hTurn[t] EXCEPT !.pc = "flush"])
  /\ UNCHANGED <<hMode, hPending, hLoop, hBegun>>

\* The stream ends with tool calls: they are committed, then executed in order.
CommitCalls(t) ==
  /\ hTurn[t].pc = "stream"
  /\ UNCHANGED hMixed
  /\ Write(Append(hHist, CallsMsg))
  /\ Step(t, [hTurn[t] EXCEPT !.pc = "tool", !.left = RoundCalls, !.msgs = Append(@, CallsMsg)])
  /\ UNCHANGED <<hMode, hPending, hLoop, hBegun>>

\* One dispatch(): it returns a result whatever the tool does.
ToolResult(t) ==
  /\ hTurn[t].pc = "tool" /\ hTurn[t].left > 0
  /\ UNCHANGED hMixed
  /\ Write(Append(hHist, Result))
  /\ Step(t, [hTurn[t] EXCEPT !.left = @ - 1, !.msgs = Append(@, Result)])
  /\ UNCHANGED <<hMode, hPending, hLoop, hBegun>>

\* A template tool succeeded: its completion text ends the turn.
Template(t) ==
  /\ hTurn[t].pc = "tool" /\ hTurn[t].left = 0
  /\ UNCHANGED hMixed
  /\ Write(AddAssistant(hHist, Reply(0)))
  /\ Step(t, [hTurn[t] EXCEPT !.pc = "flush", !.sent = TRUE])
  /\ UNCHANGED <<hMode, hPending, hLoop, hBegun>>

\* The iteration cap: as if the turn had not answered.
CapRollback(t) == RollbackTo(hHist, hTurn[t].anchor)

\* The next round, or the end at the cap.
NextRound(t) ==
  /\ hTurn[t].pc = "tool" /\ hTurn[t].left = 0
  /\ UNCHANGED hMixed
  /\ IF hTurn[t].iter < MaxIterations
     THEN /\ Step(t, [hTurn[t] EXCEPT !.pc = "stream", !.iter = @ + 1])
          /\ UNCHANGED hHist
     ELSE /\ hHist' = CapRollback(t)
          /\ Step(t, [hTurn[t] EXCEPT !.pc = "flush"])
  /\ UNCHANGED <<hMode, hPending, hLoop, hBegun>>

\* tts_flush: the server speaks what it has, whoever sent it.  A failed send
\* is swallowed by the default turn.
Flush(t) ==
  /\ hTurn[t].pc = "flush"
  /\ UNCHANGED hMixed
  /\ Over(t)
  /\ UNCHANGED <<hHist, hMode, hPending, hLoop, hBegun>>

\* The turn is cancelled, or anything in it raises, a timeout of the stream
\* included: the runner rolls back, then the server is told to abort.
Fails(t) ==
  /\ hTurn[t].pc \in {"stream", "tool"}
  /\ UNCHANGED hMixed
  /\ hHist' = RollbackTo(hHist, hTurn[t].anchor)
  /\ IF hTurn[t].sent THEN Step(t, [hTurn[t] EXCEPT !.pc = "abort"]) ELSE Over(t)
  /\ UNCHANGED <<hMode, hPending, hLoop, hBegun>>

\* abort() and stop_playback(): the server's buffer is dropped.
Aborted(t) ==
  /\ hTurn[t].pc = "abort"
  /\ UNCHANGED hMixed
  /\ Over(t)
  /\ UNCHANGED <<hHist, hMode, hPending, hLoop, hBegun>>

\* A cancellation that strikes while the translator or the flush is awaited:
\* neither the runner nor the turn has a handler there.
CancelledLate(t) ==
  /\ hTurn[t].pc \in {"translate", "flush"}
  /\ UNCHANGED hMixed
  /\ Over(t)
  /\ UNCHANGED <<hHist, hMode, hPending, hLoop, hBegun>>

-----------------------------------------------------------------------------
(* ModeManager and the dashboard *)

\* What follows exit(): the current mode, and enter().
Enters(name) ==
  /\ hMode' = name
  /\ hLoop' = (name = "monologue")

\* switch(): only MonologueMode.exit() awaits anything.
Switch(name) ==
  /\ name # hMode
  /\ IF hLoop \/ hPending # <<>>
     THEN /\ Len(hPending) < 2
          /\ hPending' = Append(hPending, name)
          /\ UNCHANGED <<hMode, hLoop>>
     ELSE Enters(name) /\ UNCHANGED hPending
  /\ UNCHANGED <<hHist, hTurn, hBegun, hMixed>>

\* The loop's task has ended: every waiting switch goes on, in its order.
Exited ==
  /\ hPending # <<>> /\ ~Running("loop")
  /\ Enters(hPending[Len(hPending)])
  /\ hPending' = <<>>
  /\ UNCHANGED <<hHist, hTurn, hBegun, hMixed>>

\* _api_session_clear() of the dashboard: reset(), at any moment.
SessionClear ==
  /\ hHist # <<>>
  /\ hHist' = <<>>
  /\ hMixed' = (hMixed \/ \E t \in Turns2 : Running(t))
  /\ Step("user", hTurn["user"])
  /\ UNCHANGED <<hMode, hPending, hLoop, hBegun>>

-----------------------------------------------------------------------------
TurnSteps(t) ==
  \/ Token(t) \/ FinalText(t) \/ CommitCalls(t) \/ ToolResult(t) \/ Template(t)
  \/ NextRound(t) \/ Flush(t) \/ Fails(t) \/ Aborted(t)

HNext ==
  \/ \E t \in Turns2 : Unavailable(t) \/ Chat(t) \/ TurnSteps(t) \/ CancelledLate(t)
  \/ Interpret \/ Translated \/ NoReply
  \/ \E name \in ModeNames : Switch(name)
  \/ Exited
  \/ SessionClear

HSpec == HInit /\ [][HNext]_hVars

-----------------------------------------------------------------------------
HTypeOK ==
  /\ hMode \in ModeNames /\ hLoop \in BOOLEAN /\ hMixed \in BOOLEAN
  /\ hPending \in UNION {[1 .. k -> ModeNames] : k \in 0 .. 2}
  /\ hBegun \in 0 .. MaxTurns
  /\ \A i \in DOMAIN hHist : hHist[i] \in {User, Reply(0), Reply(1), CallsMsg, Result}

\* What an OpenAI server accepts: a round of calls has all its results right
\* behind it, and a result stands in such a round.
RoundsComplete(h) ==
  \A i \in DOMAIN h :
    /\ h[i].role = "calls" =>
         \A k \in 1 .. h[i].n : i + k <= Len(h) /\ h[i + k].role = "result"
    /\ h[i].role = "result" =>
         \E k \in 1 .. RoundCalls : i > k /\ h[i - k].role = "calls"

\* rollback_to(): "keep history strict-valid for OpenAI (no orphan
\* assistant(tool_calls) without matching role:tool followup, no truncated tool
\* round)", and the trim "never splits a turn" and keeps the latest: every
\* request shows the LLM complete rounds, from a user's message on, the one
\* being answered included, and between turns the history has no other.  Not
\* so when two turns overlap or the history is cleared under a running one.
RequestsValid ==
  ~hMixed =>
    /\ (\A t \in Turns2 : ~Running(t)) => RoundsComplete(hHist)
    /\ \A t \in Turns2 : hTurn[t].pc = "stream" =>
         /\ RoundsComplete(hTurn[t].msgs)
         /\ hTurn[t].msgs # <<>> /\ Head(hTurn[t].msgs).role = "user"
         /\ hHist[hTurn[t].anchor].role = "user"
=============================================================================
