------------------------------ MODULE Watchdog ------------------------------
(***************************************************************************)
(* app/core/gpu_watchdog.py: a background task probes the accelerator and    *)
(* keeps a cached status with hysteresis, which /health and the admission    *)
(* of requests read.  The task can be stopped, started again, and crash.     *)
(***************************************************************************)
EXTENDS Naturals, Sequences

CONSTANTS
  FailThreshold,     \* _FAIL_THRESHOLD, 3
  RecoverThreshold   \* _RECOVER_THRESHOLD, 5

ASSUME ThresholdsPositive == FailThreshold \in Nat \ {0} /\ RecoverThreshold \in Nat \ {0}

VARIABLES
  wOk,        \* _status.ok
  wPlatform,  \* _status.platform
  wFails,     \* consecutive_failures, counted up to FailThreshold
  wGood,      \* consecutive_successes, counted up to RecoverThreshold
  wTask,      \* "none", "starting", "probing", "asleep" or "done"
  wHist       \* the last results, oldest first

wVars == <<wOk, wPlatform, wFails, wGood, wTask, wHist>>

Platforms == {"jetson", "rk", "hailo", "desktop_cuda", "cpu"}
ToolResults == {"absent", "ok", "failed", "timeout"}
HistLen == IF FailThreshold > RecoverThreshold THEN FailThreshold ELSE RecoverThreshold

WInit ==
  /\ wOk = TRUE /\ wPlatform = "cpu" /\ wFails = 0 /\ wGood = 0
  /\ wTask = "none" /\ wHist = <<>>

\* The probes, from what a first and a second source of information say.  tegrastats
\* never exits by itself, so its timeout is a sign of life.
CheckJetson(tegrastats, smi) ==
  tegrastats \in {"ok", "timeout"} \/ smi = "ok"
CheckRk(rknpu, devfreq) == rknpu = "ok" \/ devfreq = "ok"
CheckHailo(cli) == cli = "ok"
\* A device count of NVML is believed, an error of NVML is not.
CheckDesktopCuda(nvml, smi) ==
  nvml = "ok" \/ (nvml # "failed" /\ smi = "ok")
CheckOnce(first, second) ==
  CASE wPlatform = "jetson" -> CheckJetson(first, second)
    [] wPlatform = "rk" -> CheckRk(first, second)
    [] wPlatform = "hailo" -> CheckHailo(first)
    [] wPlatform = "desktop_cuda" -> CheckDesktopCuda(first, second)
    [] OTHER -> TRUE

UpTo(n, max) == IF n < max THEN n ELSE max
\* _apply_check_result()
KeepsFailures(ok) ==
  IF ok
    THEN /\ wGood' = UpTo(wGood + 1, RecoverThreshold) /\ UNCHANGED wFails
         /\ wOk' = (wOk \/ wGood' >= RecoverThreshold)
    ELSE /\ wFails' = UpTo(wFails + 1, FailThreshold) /\ wGood' = 0
         /\ wOk' = (wOk /\ wFails' < FailThreshold)
ApplyCheckResult(ok) ==
  IF ok
    THEN /\ wGood' = UpTo(wGood + 1, RecoverThreshold) /\ wFails' = 0
         /\ wOk' = (wOk \/ wGood' >= RecoverThreshold)
    ELSE /\ wFails' = UpTo(wFails + 1, FailThreshold) /\ wGood' = 0
         /\ wOk' = (wOk /\ wFails' < FailThreshold)
Remember(ok) ==
  LET h == Append(wHist, IF ok THEN "good" ELSE "bad")
  IN wHist' = IF Len(h) > HistLen THEN Tail(h) ELSE h

\* start(): nothing if a task runs.
WStart ==
  /\ wTask \in {"none", "done"} /\ wTask' = "starting"
  /\ UNCHANGED <<wOk, wPlatform, wFails, wGood, wHist>>
\* The head of _run_loop(): the platform is detected once.
DetectPlatform ==
  /\ wTask = "starting" /\ wTask' = "probing" /\ wPlatform' \in Platforms
  /\ UNCHANGED <<wOk, wFails, wGood, wHist>>
\* One iteration; a crash of the iteration counts as a failure.
Probe ==
  /\ wTask = "probing" /\ wTask' = "asleep"
  /\ \E ok \in BOOLEAN, first, second \in ToolResults :
       (ok => CheckOnce(first, second)) /\ ApplyCheckResult(ok) /\ Remember(ok)
  /\ UNCHANGED wPlatform
Wake ==
  /\ wTask = "asleep" /\ wTask' = "probing"
  /\ UNCHANGED <<wOk, wPlatform, wFails, wGood, wHist>>
\* _run_with_crash_guard(): whatever escapes the loop.
TaskCrashes ==
  /\ wTask \in {"starting", "probing", "asleep"} /\ wTask' = "done" /\ wOk' = FALSE
  /\ UNCHANGED <<wPlatform, wFails, wGood, wHist>>
\* stop(): the task is cancelled, a probe's result is dropped.
WStop ==
  /\ wTask # "none" /\ wTask' = "none"
  /\ UNCHANGED <<wOk, wPlatform, wFails, wGood, wHist>>

WNext == WStart \/ DetectPlatform \/ Probe \/ Wake \/ TaskCrashes \/ WStop
WSpec == WInit /\ [][WNext]_wVars

-----------------------------------------------------------------------------
\* The last n results were all r.
LastAre(h, n, r) == Len(h) >= n /\ \A i \in (Len(h) - n + 1) .. Len(h) : h[i] = r

\* The hysteresis of _apply_check_result, said of the results themselves: a probe
\* makes the status bad exactly when it is the last of FailThreshold failures in a
\* row, good exactly when it is the last of RecoverThreshold successes in a row, and
\* alternating results never change it; besides a probe only a crash of the task
\* changes it, to bad.  Across stop() and start().
StatusFollowsProbes ==
  [][IF wTask = "probing" /\ wTask' = "asleep"
       THEN wOk' = CASE LastAre(wHist', FailThreshold, "bad") -> FALSE
                     [] LastAre(wHist', RecoverThreshold, "good") -> TRUE
                     [] OTHER -> wOk
       ELSE wOk' # wOk => ~wOk' /\ wTask' = "done"]_wVars
=============================================================================
