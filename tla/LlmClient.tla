----------------------------- MODULE LlmClient -----------------------------
(***************************************************************************)
(* The agent's LLM client (llm/openai_compat.py and llm/edge_llm.py): one    *)
(* request of a turn with its retry after a transient failure and its        *)
(* fallback without the prefix cache; the session's cache flags; and the     *)
(* availability machine (plugins/llm_availability.py) with its probes, the   *)
(* reports of turns and the gate in front of them.                           *)
(***************************************************************************)
EXTENDS Naturals, FiniteSets

CONSTANTS
  RetryOnTransient,  \* OpenAICompatBackend._retry_on_transient
  FailuresToDown,    \* llm_availability_failures_to_down
  Unknowns,          \* llm_availability_unknowns_to_unknown_state
  MaxRequests,       \* bound: requests of a behaviour
  MaxFlips           \* bound: how often the LLM goes down or comes back

ASSUME LlmBounds ==
  /\ RetryOnTransient \in Nat /\ FailuresToDown \in Nat \ {0} /\ Unknowns \in Nat \ {0}
  /\ MaxRequests \in Nat /\ MaxFlips \in Nat

VARIABLES
  kWarm, kDisabled,  \* Session.prefix_cache_warmed, prefix_cache_disabled
  kPc,               \* the request: "idle", "call", "stream", "report"
  kPrefix,           \* used_prefix_cache
  kAttempt,          \* attempts left in this pass
  kCalls,            \* upstream calls of this request
  kSpoken,           \* the calls whose payload the turn has seen
  kOk,               \* what the turn will report
  kOn,               \* the plugin is started: its task runs, the app asks it
  kState,            \* LLMAvailabilityPlugin.state
  kFail, kUnk,       \* its counters, up to their thresholds
  kProbe,            \* who is in _probe(), and whether the LLM was up all along
  kUp,               \* external: the LLM serves requests
  kRequests, kFlips

kVars == <<kWarm, kDisabled, kPc, kPrefix, kAttempt, kCalls, kSpoken, kOk, kOn, kState, kFail,
           kUnk, kProbe, kUp, kRequests, kFlips>>
kReq == <<kPc, kPrefix, kAttempt, kCalls, kSpoken, kOk>>
kAvail == <<kOn, kState, kFail, kUnk, kProbe>>
kEnv == <<kUp, kFlips>>

AvailabilityStates == {"healthy", "degraded", "down", "recovering", "unknown"}
Probers == {"run", "operator"}

KInit ==
  /\ kWarm = FALSE /\ kDisabled = FALSE
  /\ kPc = "idle" /\ kPrefix = FALSE /\ kAttempt = 0 /\ kCalls = 0 /\ kSpoken = {} /\ kOk = FALSE
  /\ kOn = FALSE /\ kState = "healthy" /\ kFail = 0 /\ kUnk = 0
  /\ kProbe = [p \in Probers |-> "idle"]
  /\ kUp = TRUE /\ kRequests = 0 /\ kFlips = 0

-----------------------------------------------------------------------------
(* The availability machine *)

UpTo(n, limit) == IF n < limit THEN n + 1 ELSE n

\* mutant: RECOVERING waits for a report that the gate does not let through
AfterSuccessStuck(s) == IF s \in {"down", "recovering"} THEN "recovering" ELSE "healthy"

AfterSuccess(s) == IF s = "down" THEN "recovering" ELSE "healthy"

AfterFailure(s, fails) ==
  CASE s \in {"healthy", "unknown"} -> "degraded"
    [] s = "degraded" -> IF fails >= FailuresToDown THEN "down" ELSE "degraded"
    [] OTHER -> "down"

\* _advance()
Advance(ok) ==
  IF ok
  THEN /\ kState' = AfterSuccess(kState)
       /\ kFail' = IF AfterSuccess(kState) = "healthy" THEN 0 ELSE kFail
  ELSE /\ kFail' = UpTo(kFail, FailuresToDown)
       /\ kState' = AfterFailure(kState, UpTo(kFail, FailuresToDown))

\* A probe without an answer counts, and may lead to UNKNOWN; DOWN stays.
NoAnswer ==
  /\ kUnk' = UpTo(kUnk, Unknowns)
  /\ kState' = IF kUnk + 1 >= Unknowns /\ kState # "down" THEN "unknown" ELSE kState
  /\ UNCHANGED kFail

\* start() and stop(); a probe of the task that is cancelled has no result.
Start ==
  /\ ~kOn
  /\ kOn' = TRUE
  /\ UNCHANGED <<kWarm, kDisabled, kReq, kState, kFail, kUnk, kProbe, kEnv, kRequests>>

Stop ==
  /\ kOn
  /\ kOn' = FALSE
  /\ kProbe' = [kProbe EXCEPT !["run"] = "idle"]
  /\ UNCHANGED <<kWarm, kDisabled, kReq, kState, kFail, kUnk, kEnv, kRequests>>

\* run() after its sleep, or force_probe(): one at a time.
ProbeBegins(p) ==
  /\ kOn
  /\ \A q \in Probers : kProbe[q] = "idle"
  /\ kProbe' = [kProbe EXCEPT ![p] = IF kUp THEN "up" ELSE "down"]
  /\ UNCHANGED <<kWarm, kDisabled, kReq, kOn, kState, kFail, kUnk, kEnv, kRequests>>

\* _probe() returns, and its result is applied before anything else runs.
ProbeEnds(p) ==
  /\ kProbe[p] # "idle"
  /\ \/ kUnk' = 0 /\ Advance(TRUE)
     \/ kProbe[p] = "down" /\ kUnk' = 0 /\ Advance(FALSE)
     \/ kProbe[p] = "down" /\ NoAnswer
  /\ kProbe' = [kProbe EXCEPT ![p] = "idle"]
  /\ UNCHANGED <<kWarm, kDisabled, kReq, kOn, kEnv, kRequests>>

\* The LLM goes down or comes back; a probe under way may see either.
Flip ==
  /\ kFlips < MaxFlips
  /\ kFlips' = kFlips + 1 /\ kUp' = ~kUp
  /\ kProbe' = [p \in Probers |-> IF kProbe[p] = "idle" THEN "idle" ELSE "down"]
  /\ UNCHANGED <<kWarm, kDisabled, kReq, kOn, kState, kFail, kUnk, kRequests>>

-----------------------------------------------------------------------------
(* The session's flags *)

\* warmup() at start-up: its first step may fail.
Warmup ==
  /\ kRequests = 0 /\ ~kWarm /\ kPc = "idle"
  /\ kWarm' = TRUE
  /\ UNCHANGED <<kDisabled, kReq, kAvail, kEnv, kRequests>>

\* A trim of the history makes the cached prefix useless.
Trimmed ==
  /\ kWarm /\ kPc = "idle"
  /\ kWarm' = FALSE
  /\ UNCHANGED <<kDisabled, kReq, kAvail, kEnv, kRequests>>

\* reset(), an echo wipe, or the dashboard: at any moment.
Reset ==
  /\ kWarm \/ kDisabled
  /\ kWarm' = FALSE /\ kDisabled' = FALSE
  /\ UNCHANGED <<kReq, kAvail, kEnv, kRequests>>

-----------------------------------------------------------------------------
(* A request *)

\* EdgeLLMBackend.stream_events(), behind the gate of the turn.
Request ==
  /\ kPc = "idle" /\ kRequests < MaxRequests
  /\ kOn => kState \notin {"down", "unknown"}
  /\ kRequests' = kRequests + 1
  /\ kPc' = "call"
  /\ kPrefix' = (kWarm /\ ~kDisabled)
  /\ kAttempt' = RetryOnTransient
  /\ kCalls' = 0 /\ kSpoken' = {} /\ kOk' = FALSE
  /\ UNCHANGED <<kWarm, kDisabled, kAvail, kEnv>>

\* _do_stream(): one upstream call.
Upstream ==
  /\ kPc = "call"
  /\ kPc' = "stream" /\ kCalls' = kCalls + 1
  /\ UNCHANGED <<kWarm, kDisabled, kPrefix, kAttempt, kSpoken, kOk, kAvail, kEnv, kRequests>>

\* An event with text or a tool call goes to the turn.
Payload ==
  /\ kPc = "stream" /\ kUp
  /\ kSpoken' = kSpoken \cup {kCalls}
  /\ UNCHANGED <<kWarm, kDisabled, kPc, kPrefix, kAttempt, kCalls, kOk, kAvail, kEnv, kRequests>>

\* The stream is drained.
StreamDrained ==
  /\ kPc = "stream" /\ kUp
  /\ kPc' = "report" /\ kOk' = TRUE /\ kWarm' = TRUE
  /\ UNCHANGED <<kDisabled, kPrefix, kAttempt, kCalls, kSpoken, kAvail, kEnv, kRequests>>

\* stream_events() of the base class: a transient failure before any payload.
Retries(transient) == transient /\ kAttempt > 0 /\ kCalls \notin kSpoken

\* The call fails.  After the retries, a failure that names the prefix cache
\* latches it off and, when nothing was yielded, is followed by one more pass
\* without it and without retries.
CallFails ==
  /\ kPc = "stream"
  /\ \E transient, cache \in BOOLEAN :
       LET again == Retries(transient)
           latched == ~again /\ kPrefix /\ cache
           fallback == latched /\ kSpoken = {}
       IN  /\ kAttempt' = IF again THEN kAttempt - 1 ELSE 0
           /\ kDisabled' = (kDisabled \/ latched)
           /\ kPrefix' = (kPrefix /\ ~latched)
           /\ kPc' = IF again \/ fallback THEN "call" ELSE "report"
  /\ UNCHANGED <<kWarm, kCalls, kSpoken, kOk, kAvail, kEnv, kRequests>>

\* The turn is cancelled (a barge-in, a newer utterance): it reports nothing.
RequestCancelled ==
  /\ kPc \in {"call", "stream"}
  /\ kPc' = "idle" /\ kAttempt' = 0 /\ kPrefix' = FALSE /\ kCalls' = 0 /\ kSpoken' = {}
  /\ UNCHANGED <<kWarm, kDisabled, kOk, kAvail, kEnv, kRequests>>

\* report_request_success(), report_request_failure() of _run_user_utterance().
Report ==
  /\ kPc = "report"
  /\ IF kOn THEN Advance(kOk) ELSE UNCHANGED <<kState, kFail>>
  /\ kPc' = "idle" /\ kOk' = FALSE /\ kAttempt' = 0 /\ kPrefix' = FALSE /\ kCalls' = 0 /\ kSpoken' = {}
  /\ UNCHANGED <<kWarm, kDisabled, kOn, kUnk, kProbe, kEnv, kRequests>>

-----------------------------------------------------------------------------
KNext ==
  \/ \E p \in Probers : ProbeBegins(p) \/ ProbeEnds(p)
  \/ Start \/ Stop \/ Flip \/ Warmup \/ Trimmed \/ Reset
  \/ Request \/ Upstream \/ Payload \/ StreamDrained \/ CallFails \/ RequestCancelled \/ Report

\* run() goes on probing, and a probe ends: it has a timeout.  While the run()
\* task is not probing, an operator's probe may be: the lock is fair.
KFairness ==
  /\ SF_kVars(ProbeBegins("run"))
  /\ \A p \in Probers : WF_kVars(ProbeEnds(p))

KSpec == KInit /\ [][KNext]_kVars /\ KFairness

-----------------------------------------------------------------------------
KTypeOK ==
  /\ {kWarm, kDisabled, kPrefix, kOk, kOn, kUp} \subseteq BOOLEAN
  /\ kPc \in {"idle", "call", "stream", "report"}
  /\ kAttempt \in 0 .. RetryOnTransient /\ kSpoken \subseteq 1 .. RetryOnTransient + 2
  /\ kState \in AvailabilityStates
  /\ kFail \in 0 .. FailuresToDown /\ kUnk \in 0 .. Unknowns
  /\ kProbe \in [Probers -> {"idle", "up", "down"}]

\* "once the caller sees content we must not duplicate it on a re-attempt", and
\* the retry and the fallback together must not make "4 upstream calls per
\* turn": what a turn speaks comes from one call, and there are at most as many
\* calls as attempts and one fallback.
OneVoicePerRequest ==
  /\ Cardinality(kSpoken) <= 1
  /\ kCalls <= RetryOnTransient + 2

\* The gate closes for a reason: DOWN, and RECOVERING from it, come after as many
\* failures as the threshold asks for, with no success between them; one success that
\* is seen as HEALTHY wipes them all out.
DownIsEarned ==
  /\ kState \in {"down", "recovering"} => kFail = FailuresToDown
  /\ kState = "degraded" => kFail > 0
  /\ kState = "healthy" => kFail = 0

\* The gate opens again: when the LLM serves for good, the state goes back to
\* HEALTHY, from DOWN through two successes and from UNKNOWN through one,
\* although no turn can report a success while the gate is closed.
GateReopens == <>[](kUp /\ kOn) => []<>(kState = "healthy")
=============================================================================
