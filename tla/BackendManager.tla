--------------------------- MODULE BackendManager ---------------------------
(***************************************************************************)
(* app/core/backend_manager.py: life cycle and hot reload of the ASR and   *)
(* TTS backends, with the HTTP requests gated by acquire() and the         *)
(* WebSocket sessions of /v2v/stream that reload() closes.                 *)
(*                                                                         *)
(* Everything runs on one asyncio event loop.  A step of the model is the  *)
(* code between two points where a coroutine really suspends.  The tail of *)
(* reload(), from the end of the drain to the answer, never suspends       *)
(* (unload, apply_profile, factory and preload are synchronous and         *)
(* _state_lock is never contended), so while `loop' names a manager no     *)
(* other coroutine moves.                                                  *)
(***************************************************************************)
EXTENDS Naturals, FiniteSets

CONSTANTS
  Kinds,        \* the managers: "tts" and "asr"
  Requests,     \* HTTP requests (or v2v sentences) that call acquire()
  Sockets,      \* WebSocket connections
  Profiles,     \* profile references that resolve to a usable profile
  StartProfile, \* the profile applied before the managers are built
  MaxBackends,  \* bound: backend instances ever built
  MaxReloads    \* bound: accepted reload() calls

ASSUME KindsAssumption == IsFiniteSet(Kinds) /\ "none" \notin Kinds
ASSUME RequestsAssumption == IsFiniteSet(Requests)
ASSUME ProfileAssumption == StartProfile \in Profiles
ASSUME BoundAssumption == MaxBackends \in Nat /\ MaxReloads \in Nat

VARIABLES
  state,      \* _state of each manager
  current,    \* _current of each manager
  cache,      \* main._asr_backend / tts_service._backend: the factory's cache
  inflight,   \* _inflight_http
  lastRef,    \* _last_profile_ref
  rl,         \* the locals of the reload() holding _reload_lock
  profile,    \* profile_loader._CURRENT_PROFILE, shared by both managers
  built,      \* backends ever constructed: id -> profile it was built under
  live,       \* backends whose preload succeeded
  dead,       \* backends that unload() was called on
  forced,     \* backends unloaded after a drain timeout
  holds,      \* what each request got from acquire()
  ws,         \* WebSocket sessions
  loop,       \* which reload(), if any, is in its synchronous tail
  reloads     \* accepted reloads so far

vars == <<state, current, cache, inflight, lastRef, rl, profile, built, live,
          dead, forced, holds, ws, loop, reloads>>

States == {"init", "ready", "draining", "reloading", "failed"}
NoBackend == 0
NoKind == "none"
Ids == 1 .. MaxBackends
Held == [kind : Kinds \cup {NoKind}, be : Ids \cup {NoBackend}]
Nothing == [kind |-> NoKind, be |-> NoBackend]
Phases == {"idle", "closing", "build", "rollback"}
Reload == [pc : Phases, ref : Profiles, oldRef : Profiles, oldProfile : Profiles,
           old : Ids \cup {NoBackend}, handles : SUBSET Sockets,
           result : {"none", "reloaded", "rolled_back", "failed"}]
Session == [st : {"off", "accepted", "bound", "closing"}, reg : SUBSET Kinds,
            be : [Kinds -> Ids \cup {NoBackend}]]
NoSession == [st |-> "off", reg |-> {}, be |-> [k \in Kinds |-> NoBackend]]

Init ==
  /\ state = [k \in Kinds |-> "init"]
  /\ current = [k \in Kinds |-> NoBackend]
  /\ cache = [k \in Kinds |-> NoBackend]
  /\ inflight = [k \in Kinds |-> 0]
  /\ lastRef = [k \in Kinds |-> StartProfile]
  /\ rl = [k \in Kinds |-> [pc |-> "idle", ref |-> StartProfile,
                            oldRef |-> StartProfile, oldProfile |-> StartProfile,
                            old |-> NoBackend, handles |-> {}, result |-> "none"]]
  /\ profile = StartProfile
  /\ built = [b \in {} |-> StartProfile]
  /\ live = {}
  /\ dead = {}
  /\ forced = {}
  /\ holds = [r \in Requests |-> Nothing]
  /\ ws = [s \in Sockets |-> NoSession]
  /\ loop = NoKind
  /\ reloads = 0

IsReady(k) == state[k] = "ready" /\ current[k] # NoBackend

Fresh(b) == b \in Ids \ DOMAIN built /\ \A i \in Ids : i < b => i \in DOMAIN built

\* _tts_factory / _asr_factory: b is the cached backend or, when the cache is
\* empty, a new one constructed under profile p.
Factory(k, b, p) ==
  /\ IF cache[k] = NoBackend THEN Fresh(b) ELSE b = cache[k]
  /\ built' = [i \in DOMAIN built \cup {b} |->
                 IF i \in DOMAIN built THEN built[i] ELSE p]

\* Mutant: the unloader does not reset the module global.
CacheKept(k) == cache[k]

\* The factory's cache after _tts_unloader / _asr_unloader.
Unloaded(k) == NoBackend

-----------------------------------------------------------------------------
(* Start-up: the manager builds its backend (start()).  factory() may raise, *)
(* or preloader() may, which leaves the broken instance in the cache.       *)
StartOk(k, b) ==
  /\ loop = NoKind
  /\ state[k] = "init"
  /\ Factory(k, b, profile)
  /\ cache' = [cache EXCEPT ![k] = b]
  /\ current' = [current EXCEPT ![k] = b]
  /\ live' = live \cup {b}
  /\ state' = [state EXCEPT ![k] = "ready"]
  /\ UNCHANGED <<inflight, lastRef, rl, profile, dead, forced, holds, ws, loop, reloads>>

StartFail(k) ==
  /\ loop = NoKind
  /\ state[k] = "init"
  /\ state' = [state EXCEPT ![k] = "failed"]
  /\ UNCHANGED <<current, cache, inflight, lastRef, rl, profile, built, live, dead,
                 forced, holds, ws, loop, reloads>>

StartPreloadFail(k, b) ==
  /\ loop = NoKind
  /\ state[k] = "init"
  /\ Factory(k, b, profile)
  /\ cache' = [cache EXCEPT ![k] = b]
  /\ state' = [state EXCEPT ![k] = "failed"]
  /\ UNCHANGED <<current, inflight, lastRef, rl, profile, live, dead, forced, holds,
                 ws, loop, reloads>>

(* acquire().__aenter__: anything but READY answers 503 and changes nothing. *)
Acquire(r, k) ==
  /\ loop = NoKind
  /\ holds[r] = Nothing
  /\ IsReady(k)
  /\ inflight' = [inflight EXCEPT ![k] = @ + 1]
  /\ holds' = [holds EXCEPT ![r] = [kind |-> k, be |-> current[k]]]
  /\ UNCHANGED <<state, current, cache, lastRef, rl, profile, built, live, dead,
                 forced, ws, loop, reloads>>

Uncount(n) == IF n > 0 THEN n - 1 ELSE 0

(* acquire().__aexit__: the count is clamped at zero.  The notify_all() is the *)
(* guard of EndDrain.                                                        *)
Release(r) ==
  /\ loop = NoKind
  /\ holds[r] # Nothing
  /\ inflight' = [inflight EXCEPT ![holds[r].kind] = Uncount(@)]
  /\ holds' = [holds EXCEPT ![r] = Nothing]
  /\ UNCHANGED <<state, current, cache, lastRef, rl, profile, built, live, dead,
                 forced, ws, loop, reloads>>

-----------------------------------------------------------------------------
(* WebSocket sessions (main.v2v_stream). *)

\* After accept: register_ws with every manager that is READY at this moment.
WsAccept(s) ==
  /\ loop = NoKind
  /\ ws[s].st = "off"
  /\ ws' = [ws EXCEPT ![s] = [NoSession EXCEPT !.st = "accepted",
                              !.reg = {k \in Kinds : IsReady(k)}]]
  /\ UNCHANGED <<state, current, cache, inflight, lastRef, rl, profile, built,
                 live, dead, forced, holds, loop, reloads>>

\* After the config frame: bind the backends of the requested kinds straight
\* from the module globals.  A kind that is not ready ends the connection.
WsBind(s) ==
  /\ loop = NoKind
  /\ ws[s].st = "accepted"
  /\ \E ks \in SUBSET Kinds \ {{}} :
       /\ \A k \in ks : cache[k] \in live
       /\ ws' = [ws EXCEPT ![s].st = "bound",
                           ![s].be = [k \in Kinds |-> IF k \in ks THEN cache[k]
                                                                  ELSE NoBackend]]
  /\ UNCHANGED <<state, current, cache, inflight, lastRef, rl, profile, built,
                 live, dead, forced, holds, loop, reloads>>

\* The handler's finally block, or an early exit: unregister and end.
WsEnd(s) ==
  /\ loop = NoKind
  /\ ws[s].st # "off"
  /\ ws' = [ws EXCEPT ![s] = NoSession]
  /\ UNCHANGED <<state, current, cache, inflight, lastRef, rl, profile, built,
                 live, dead, forced, holds, loop, reloads>>

-----------------------------------------------------------------------------
Handles(k) == {s \in Sockets : k \in ws[s].reg}

(* reload(): refused with 409 while another reload of this manager holds     *)
(* _reload_lock or the manager is not READY, with 400 when the preview fails *)
(* (a refusal changes nothing).                                            *)
BeginReload(k, ref) ==
  /\ loop = NoKind
  /\ rl[k].pc = "idle"
  /\ IsReady(k)
  /\ reloads < MaxReloads
  /\ reloads' = reloads + 1
  /\ state' = [state EXCEPT ![k] = "draining"]
  /\ rl' = [rl EXCEPT ![k] = [pc |-> "closing", ref |-> ref, oldRef |-> lastRef[k],
                              oldProfile |-> profile, old |-> current[k],
                              handles |-> Handles(k),
                              result |-> "none"]]
  /\ UNCHANGED <<current, cache, inflight, lastRef, profile, built, live, dead,
                 forced, holds, ws, loop>>

(* One turn of _force_close_ws_sessions: close the socket, cancel its task. *)
CloseSocket(k, s) ==
  /\ loop = NoKind
  /\ rl[k].pc = "closing"
  /\ s \in rl[k].handles
  /\ rl' = [rl EXCEPT ![k].handles = @ \ {s}]
  /\ ws' = IF k \in ws[s].reg THEN [ws EXCEPT ![s].st = "closing"] ELSE ws
  /\ UNCHANGED <<state, current, cache, inflight, lastRef, profile, built, live,
                 dead, forced, holds, loop, reloads>>

\* Mutants: the wait is skipped; the wait has no timeout.
DrainSkipped(k, drained) == drained
DrainUnbounded(k, drained) == drained /\ inflight[k] = 0

\* The result of _wait_for_http_drain: True when the count reached zero, False
\* when drain_timeout_s ran out first.
DrainOver(k, drained) == drained <=> inflight[k] = 0

(* _wait_for_http_drain returns (clean, or after drain_timeout_s) and the    *)
(* old backend is unloaded, which also empties the factory's cache.          *)
EndDrain(k, drained) ==
  /\ loop = NoKind
  /\ rl[k].pc = "closing"
  /\ rl[k].handles = {}
  /\ DrainOver(k, drained)
  /\ state' = [state EXCEPT ![k] = "reloading"]
  /\ current' = [current EXCEPT ![k] = NoBackend]
  /\ cache' = [cache EXCEPT ![k] = Unloaded(k)]
  /\ dead' = dead \cup {rl[k].old}
  /\ forced' = IF drained THEN forced ELSE forced \cup {rl[k].old}
  /\ rl' = [rl EXCEPT ![k].pc = "build"]
  /\ loop' = k
  /\ UNCHANGED <<inflight, lastRef, profile, built, live, holds, ws, reloads>>

\* Leaving reload() with an answer frees the event loop.
Finish(k, result) ==
  /\ rl' = [rl EXCEPT ![k].pc = "idle", ![k].result = result]
  /\ loop' = NoKind

RecordedRef(k) == rl[k].ref

(* apply_profile(ref), factory() and preloader() all succeed. *)
BuildOk(k, b) ==
  /\ rl[k].pc = "build"
  /\ profile' = rl[k].ref
  /\ Factory(k, b, rl[k].ref)
  /\ cache' = [cache EXCEPT ![k] = b]
  /\ current' = [current EXCEPT ![k] = b]
  /\ live' = live \cup {b}
  /\ lastRef' = [lastRef EXCEPT ![k] = RecordedRef(k)]
  /\ state' = [state EXCEPT ![k] = "ready"]
  /\ Finish(k, "reloaded")
  /\ UNCHANGED <<inflight, dead, forced, holds, ws, reloads>>

(* apply_profile or factory() raises: nothing was built. *)
BuildFail(k) ==
  /\ rl[k].pc = "build"
  /\ profile' \in {profile, rl[k].ref}
  /\ rl' = [rl EXCEPT ![k].pc = "rollback"]
  /\ UNCHANGED <<state, current, cache, inflight, lastRef, built, live, dead, forced,
                 holds, ws, loop, reloads>>

(* preloader() raises and the handler unloads the half-built backend, which  *)
(* empties the factory's cache again.                                       *)
PreloadFail(k, b) ==
  /\ rl[k].pc = "build"
  /\ profile' = rl[k].ref
  /\ Factory(k, b, rl[k].ref)
  /\ dead' = dead \cup {b}
  /\ cache' = [cache EXCEPT ![k] = Unloaded(k)]
  /\ rl' = [rl EXCEPT ![k].pc = "rollback"]
  /\ UNCHANGED <<state, current, inflight, lastRef, live, forced, holds, ws, loop,
                 reloads>>

RollbackProfile(k) == rl[k].oldRef

(* Rollback: re-apply the remembered reference and build afresh. *)
RollbackOk(k, b) ==
  /\ rl[k].pc = "rollback"
  /\ profile' = RollbackProfile(k)
  /\ Factory(k, b, RollbackProfile(k))
  /\ cache' = [cache EXCEPT ![k] = b]
  /\ current' = [current EXCEPT ![k] = b]
  /\ live' = live \cup {b}
  /\ state' = [state EXCEPT ![k] = "ready"]
  /\ Finish(k, "rolled_back")
  /\ UNCHANGED <<inflight, lastRef, dead, forced, holds, ws, reloads>>

(* The rollback raises too: FAILED, from which no operation leads out.  When  *)
(* it is the preload that raised, the broken backend stays in the cache.    *)
RollbackFail(k) ==
  /\ rl[k].pc = "rollback"
  /\ profile' \in {profile, rl[k].oldRef}
  /\ current' = [current EXCEPT ![k] = NoBackend]
  /\ state' = [state EXCEPT ![k] = "failed"]
  /\ Finish(k, "failed")
  /\ UNCHANGED <<cache, inflight, lastRef, built, live, dead, forced, holds, ws,
                 reloads>>

RollbackPreloadFail(k, b) ==
  /\ rl[k].pc = "rollback"
  /\ profile' = rl[k].oldRef
  /\ Factory(k, b, rl[k].oldRef)
  /\ cache' = [cache EXCEPT ![k] = b]
  /\ current' = [current EXCEPT ![k] = NoBackend]
  /\ state' = [state EXCEPT ![k] = "failed"]
  /\ Finish(k, "failed")
  /\ UNCHANGED <<inflight, lastRef, live, dead, forced, holds, ws, reloads>>

ReloadStep(k) ==
  \/ \E s \in Sockets : CloseSocket(k, s)
  \/ \E drained \in BOOLEAN : EndDrain(k, drained)
  \/ \E b \in Ids : BuildOk(k, b) \/ PreloadFail(k, b)
  \/ BuildFail(k)
  \/ \E b \in Ids : RollbackOk(k, b) \/ RollbackPreloadFail(k, b)
  \/ RollbackFail(k)

Next ==
  \/ \E k \in Kinds, b \in Ids : StartOk(k, b) \/ StartPreloadFail(k, b)
  \/ \E k \in Kinds : StartFail(k)
  \/ \E r \in Requests, k \in Kinds : Acquire(r, k)
  \/ \E r \in Requests : Release(r)
  \/ \E s \in Sockets : WsAccept(s) \/ WsBind(s) \/ WsEnd(s)
  \/ \E k \in Kinds, ref \in Profiles : BeginReload(k, ref)
  \/ \E k \in Kinds : ReloadStep(k)

Spec == Init /\ [][Next]_vars

\* Fairness: a reload in progress keeps moving.  Closing a socket is one await,
\* the drain is cut off by drain_timeout_s, and the tail is synchronous.
\* Nothing is assumed of requests and clients.
FairSpec == Spec /\ \A k \in Kinds : WF_vars(ReloadStep(k))

-----------------------------------------------------------------------------
(* Properties *)

\* Type invariant.
TypeOK ==
  /\ state \in [Kinds -> States]
  /\ current \in [Kinds -> Ids \cup {NoBackend}]
  /\ cache \in [Kinds -> Ids \cup {NoBackend}]
  /\ inflight \in [Kinds -> Nat]
  /\ lastRef \in [Kinds -> Profiles]
  /\ rl \in [Kinds -> Reload]
  /\ profile \in Profiles
  /\ DOMAIN built \subseteq Ids /\ built \in [DOMAIN built -> Profiles]
  /\ live \subseteq Ids \cup {NoBackend}
  /\ dead \subseteq Ids \cup {NoBackend}
  /\ forced \subseteq Ids \cup {NoBackend}
  /\ holds \in [Requests -> Held]
  /\ ws \in [Sockets -> Session]
  /\ loop \in Kinds \cup {NoKind}
  /\ reloads \in 0 .. MaxReloads

Holders(k) == {r \in Requests : holds[r].kind = k}

\* _inflight_http is exactly the number of requests inside acquire(), through
\* reloads, drain timeouts and rollbacks: the max(0, ...) clamp in
\* acquire() never hides a lost or doubled count.
HoldersCounted == \A k \in Kinds : inflight[k] = Cardinality(Holders(k))

\* A request keeps the backend acquire() gave it until it leaves, unless the
\* reload that unloaded the backend had waited out drain_timeout_s.
UnloadedOnlyAfterDrain ==
  \A r \in Requests : holds[r].be \in dead => holds[r].be \in forced

\* A READY manager serves a preloaded backend that was never unloaded and that
\* is also the one the module global holds, so acquire() and the code that still
\* reads the global (v2v_stream) see the same backend.
ReadyServesLive ==
  \A k \in Kinds : state[k] = "ready" =>
     current[k] \in live \ dead /\ cache[k] = current[k]

\* With a single manager the backend served was built from _last_profile_ref,
\* the reference a later rollback returns to.  (With two, a manager started
\* lazily after the other one's reload keeps the start-up reference.)
ServesRecordedRef ==
  \A k \in Kinds : state[k] = "ready" => built[current[k]] = lastRef[k]

\* A session that registered with the manager is told to close before reload()
\* unloads the backend it is bound to.
RegisteredClosedFirst ==
  \A s \in Sockets, k \in Kinds :
     (k \in ws[s].reg /\ ws[s].be[k] \in dead) => ws[s].st = "closing"

\* No open session is bound to an unloaded backend: what the comment in
\* v2v_stream says registration with the managers is for.
NoLingeringSession ==
  \A s \in Sockets, k \in Kinds :
     ws[s].st = "bound" => ws[s].be[k] \notin dead

\* When reload() answers rolled_back, the applied profile is the one that was
\* applied when it was called (its old_profile).
RollbackRestoresProfile ==
  [][\A k \in Kinds :
       (rl[k].pc = "rollback" /\ state'[k] = "ready") => profile' = rl[k].oldProfile]_vars

\* Every accepted reload ends, whatever the requests in flight do.
ReloadTerminates == \A k \in Kinds : (rl[k].pc # "idle") ~> (rl[k].pc = "idle")

\* The managers implement BackendService: through reloads, failed builds, rollbacks and
\* drain timeouts a request keeps a backend that was preloaded and is unloaded under it
\* only after drain_timeout_s; each backend is served once and by one manager.
Service == INSTANCE BackendService WITH
             Managers <- Kinds, Clients <- Requests, Backends <- Ids,
             None <- NoBackend, NoUse <- Nothing,
             serving <- current, open <- {k \in Kinds : state[k] = "ready"},
             user <- holds, served <- live, retired <- dead \cap live, abandoned <- forced
ServiceSpec == Service!Spec
=============================================================================
