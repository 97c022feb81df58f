------------------------------ MODULE Profiles ------------------------------
(* core/profile_loader.py with profile_selector.py, and what is derived from *)
(* the applied profile when the server starts: the session limit, the        *)
(* coordinator's mode and the executor of /tts/stream                        *)
(* (capability_resolver.py), and the variables that engine_resolver.py       *)
(* exports, past the loader, for the engines of the starting profile.        *)
(* The environment of the process is uEnv.  A value is the sequence of the   *)
(* parts of a path; <<>> is unset.  A profile gives a key a literal, or a    *)
(* literal behind a reference to another key, "${ROOT}/engines".             *)
(* apply_profile() holds _PROFILE_LOCK throughout, and reload() calls it,    *)
(* the factory and the rollback without an await: each is one step.          *)
EXTENDS Naturals, Sequences, FiniteSets, FiniteSetsExt

CONSTANTS
  Catalog,     \* the profiles: env, engines, backends, limits, who selects them
  Shells,      \* environments the operator may start the process with
  Prefixed,    \* the keys that start with one of _OPERATOR_KEY_PREFIXES
  Critical,    \* CRITICAL_KEYS
  Managers,    \* the two BackendManagers
  MaxApplies   \* bound on the reloads

NoKey == "none"
None == "none"
ProfileName == "OVS_PROFILE_NAME"
ModelId == "OVS_TTS_MODEL_ID"
Unset == <<>>
EmptyValue == <<"">>

VARIABLES
  uEnv,       \* os.environ
  uOperator,  \* _OPERATOR_KEYS
  uApplied,   \* _APPLIED_KEYS
  uCurrent,   \* name of _CURRENT_PROFILE, None if {}
  uRef,       \* [Managers -> the profile of _last_profile_ref]
  uBoot,      \* "import", "engines", "up", "refused" (startup() raised), the pc of a reload
  uFirst,     \* history: the profile the server started with
  uExported,  \* history: the variables that the engine resolver exported
  uLimit,     \* SessionLimiter.limit
  uMode,      \* BackendCoordinator.mode
  uWorkers,   \* the TTS executor: [n |-> its threads, 0 before it exists, resolved]
  uTorn,      \* history: an apply_profile() has raised half-way
  uLeft       \* reloads left

uVars == <<uEnv, uOperator, uApplied, uCurrent, uRef, uBoot, uFirst, uExported, uLimit,
           uMode, uWorkers, uTorn, uLeft>>
uEnvVars == <<uEnv, uApplied, uCurrent>>
uServe == <<uLimit, uMode, uFirst, uExported>>

\* What a backend class that is not declared is taken for, and the profile {}.
NoBackend == [declared |-> FALSE, parallel |-> FALSE, max |-> 1]
NoProfile ==
  [name |-> "none", env |-> [k \in {} |-> 0], engines |-> [k \in {} |-> 0], model |-> "none",
   asr |-> NoBackend, tts |-> NoBackend, sessions |-> 0, mode |-> "concurrent", presets |-> {},
   language |-> "none", target |-> "unknown"]

ProfileOf(name) == CHOOSE p \in Catalog \cup {NoProfile} : p.name = name

\* What a key of a profile refers to, if anything.
References(p) == {p.env[k].via : k \in DOMAIN p.env} \ {NoKey}

Keys == (UNION {DOMAIN p.env \cup DOMAIN p.engines \cup References(p) : p \in Catalog})
        \cup (UNION {DOMAIN s.env : s \in Shells}) \cup {ProfileName, ModelId}

\* A profile is known by its name; sizes are not negative.
ASSUME CatalogFacts ==
  /\ \A p \in Catalog : p.name # None /\ p.asr.max \in Nat /\ p.tts.max \in Nat /\ p.sessions \in Nat
  /\ \A p, q \in Catalog : p.name = q.name => p = q
ASSUME ShellFacts ==
  /\ \A s \in Shells : s.sessions \in Nat /\ s.workers \in Nat
  /\ MaxApplies \in Nat

-----------------------------------------------------------------------------
(* profile_selector *)

\* _detect_jetson_tier, _detect_rk_tier, detect_device_tier
JetsonTier(s) ==
  IF s.mark = "agx" \/ s.ram >= 24 THEN "agx"
  ELSE IF s.mark = "nx" \/ s.ram >= 12 THEN "nx"
  ELSE "nano"

DeviceTier(s) ==
  IF s.tier # "none" THEN s.tier
  ELSE CASE s.board = "jetson" -> JetsonTier(s)
         [] s.board = "rk" -> s.mark
         [] OTHER -> "unknown"

\* resolve_profile_name: the row of PRESET_TABLE for the tier, if there is one.
PresetProfile(s) == {p \in Catalog : <<DeviceTier(s), s.preset>> \in p.presets}

\* _select_profile_ref: a reference in the environment, the language mode, the preset.
\* The profiles of the reference, empty when there is none to apply.
SelectRef(s) ==
  IF s.ref # "none" THEN {p \in Catalog : p.name = s.ref}
  ELSE IF s.language # "none" THEN {p \in Catalog : p.language = s.language}
  ELSE PresetProfile(s)

-----------------------------------------------------------------------------
(* apply_profile *)

\* The text of a key inside a profile: a reference in it is not looked into again.
RawText(p, k) ==
  IF p.env[k].via = NoKey THEN <<p.env[k].lit>> ELSE <<"$", p.env[k].via, p.env[k].lit>>

\* _expand_with_profile_env: the profile's own text first, then the environment, and an
\* unknown name stays as it is.
Expand(p, k, env) ==
  LET via == p.env[k].via
  IN IF via = NoKey THEN <<p.env[k].lit>>
     ELSE IF via \in DOMAIN p.env THEN RawText(p, via) \o <<p.env[k].lit>>
     ELSE IF env[via] # Unset THEN env[via] \o <<p.env[k].lit>>
     ELSE <<"$", via, p.env[k].lit>>

\* OVS_PROFILE_NAME, and OVS_TTS_MODEL_ID when _derive_tts_model_id finds one.
Derived(p) ==
  [k \in {ProfileName} \cup (IF p.model = "none" THEN {} ELSE {ModelId}) |->
     IF k = ProfileName THEN <<p.name>> ELSE <<p.model>>]

Merged(p) ==
  [k \in DOMAIN p.env \cup DOMAIN Derived(p) |->
     IF k \in DOMAIN Derived(p) THEN Derived(p)[k] ELSE Expand(p, k, uEnv)]

\* mutant: the keys of the profile before are left
NothingCleared(p) == uEnv

\* Step 1: the keys of the profile before that this one does not have.
StaleCleared(p) ==
  [k \in Keys |->
     IF k \in uApplied \ (DOMAIN Merged(p) \cup uOperator) THEN Unset ELSE uEnv[k]]

\* Step 2, for the keys of ks: an operator's key is never written.
Write(p, ks) ==
  [k \in Keys |-> IF k \in ks \ uOperator THEN Merged(p)[k] ELSE StaleCleared(p)[k]]

Conflicts(p) == {k \in DOMAIN Merged(p) \cap uOperator \cap Critical : uEnv[k] # Merged(p)[k]}

Apply(p) ==
  /\ Conflicts(p) = {}
  /\ uEnv' = Write(p, DOMAIN Merged(p))
  /\ uApplied' = DOMAIN Merged(p) \ uOperator
  /\ uCurrent' = p.name
  /\ UNCHANGED uTorn

\* An operator's critical key raises in the middle of step 2: what was cleared and
\* written stays, the bookkeeping of step 3 is not done.
ApplyRaises(p) ==
  /\ Conflicts(p) # {}
  /\ \E ks \in SUBSET (DOMAIN Merged(p) \ Conflicts(p)) : uEnv' = Write(p, ks)
  /\ uTorn' = TRUE
  /\ UNCHANGED <<uApplied, uCurrent>>

-----------------------------------------------------------------------------
(* capability_resolver; a maximum of 0 is "no fixed cap" *)

Unbounded == 0
ExecutorDefault == 2

\* _TARGET_DEFAULTS of the target that _infer_target reads from names and environment.
TargetDefault(p) == CASE p.target = "desktop" -> 4 [] p.target = "orin-nx" -> 2 [] OTHER -> 1

\* _aggregate_ceiling, or the target's default when no backend is declared.
Ceiling(p) ==
  IF ~p.asr.declared /\ ~p.tts.declared THEN TargetDefault(p)
  ELSE IF p.asr.max = Unbounded THEN p.tts.max
  ELSE IF p.tts.max = Unbounded THEN p.asr.max
  ELSE Min({p.asr.max, p.tts.max})

Clamp(n, cap) == IF cap # Unbounded /\ n > cap THEN cap ELSE n

\* resolve_limit: environment, then profile, then the backends; both overrides clamped.
ResolveLimit(p, s) ==
  IF s.sessions > 0 THEN Clamp(s.sessions, Ceiling(p))
  ELSE IF p.sessions > 0 THEN Clamp(p.sessions, Ceiling(p))
  ELSE IF Ceiling(p) = Unbounded THEN TargetDefault(p)
  ELSE Ceiling(p)

ParallelOk(cap) == cap.parallel /\ cap.max # 1

\* _resolve_mode: "concurrent" is downgraded when a backend cannot run in parallel.
ResolveMode(p) ==
  IF /\ p.mode = "concurrent" /\ (p.asr.declared \/ p.tts.declared)
     /\ ~(ParallelOk(p.asr) /\ ParallelOk(p.tts))
    THEN "serialized" ELSE p.mode

\* _resolve_executor_max_workers
ResolveExecutor(p, s) ==
  LET cap == IF p.tts.declared THEN p.tts.max ELSE Unbounded
  IN IF s.workers > 0 THEN Clamp(s.workers, cap)
     ELSE IF cap # Unbounded THEN cap
     ELSE ExecutorDefault

-----------------------------------------------------------------------------
\* What the operator's environment gives a key.
Given(s, k) == IF k \in DOMAIN s.env THEN s.env[k] ELSE Unset

\* _snapshot_operator_keys(), at module import: a key is the operator's if it is not empty
\* and has one of the prefixes.
OwnKeys(s) == {k \in DOMAIN s.env \cap Prefixed : s.env[k] # EmptyValue}
UInit(shells) ==
  \E s \in shells :
    /\ uEnv = [k \in Keys |-> Given(s, k)]
    /\ uOperator = OwnKeys(s)
    /\ uApplied = {} /\ uCurrent = None /\ uFirst = None /\ uExported = {}
    /\ uRef = [m \in Managers |-> None]
    /\ uBoot = [at |-> "import", shell |-> s, manager |-> None, to |-> None, old |-> None]
    /\ uLimit = 0 /\ uMode = "none" /\ uWorkers = [n |-> 0, resolved |-> FALSE]
    /\ uTorn = FALSE /\ uLeft = MaxApplies

Shell == uBoot.shell

\* A profile is asked for; without one apply_profile() returns at once.
Asked(s) == s.ref # "none" \/ s.language # "none" \/ s.preset # "none"

\* init_limiter and init_coordinator, from the profile just applied.
Serve(p) ==
  /\ uFirst' = p.name
  /\ uLimit' = ResolveLimit(p, Shell)
  /\ uMode' = ResolveMode(p)
  /\ uBoot' = [uBoot EXCEPT !.at = "engines"]
  /\ UNCHANGED uExported

\* startup().  The managers remember a reference of the environment only.
Startup ==
  /\ uBoot.at = "import"
  /\ \E p \in SelectRef(Shell) :
       /\ Apply(p) /\ Serve(p)
       /\ uRef' = [m \in Managers |-> IF Shell.ref = "none" THEN None ELSE p.name]
  /\ UNCHANGED <<uOperator, uWorkers, uLeft>>

StartupBare ==
  /\ uBoot.at = "import" /\ ~Asked(Shell)
  /\ Serve(NoProfile)
  /\ UNCHANGED <<uEnvVars, uOperator, uRef, uTorn, uWorkers, uLeft>>

\* No file of that name, a preset without a row, or a critical conflict: the server
\* does not start.
StartupRaises ==
  /\ uBoot.at = "import"
  /\ \/ SelectRef(Shell) = {} /\ Asked(Shell) /\ UNCHANGED <<uEnvVars, uTorn>>
     \/ \E p \in SelectRef(Shell) : ApplyRaises(p)
  /\ uBoot' = [uBoot EXCEPT !.at = "refused"]
  /\ UNCHANGED <<uOperator, uRef, uServe, uWorkers, uLeft>>

\* resolve_all() for the current profile: each engine's path goes into its variable whoever
\* owns that; an optional engine that fails is skipped, a required one stops the server.
\* (Where several engines name one variable, the last of them counts.)
EnginePath(p, k) == <<p.engines[k].path>>
Required(p) == {k \in DOMAIN p.engines : p.engines[k].required}
ResolveEngines ==
  LET p == ProfileOf(uCurrent) IN
  /\ uBoot.at = "engines"
  /\ uExported' \in SUBSET DOMAIN p.engines
  /\ uEnv' = [k \in Keys |-> IF k \in uExported' THEN EnginePath(p, k) ELSE uEnv[k]]
  /\ \/ Required(p) \subseteq uExported' /\ uBoot' = [uBoot EXCEPT !.at = "up"]
     \/ ~(Required(p) \subseteq uExported') /\ uBoot' = [uBoot EXCEPT !.at = "refused"]
  /\ UNCHANGED <<uOperator, uApplied, uCurrent, uRef, uFirst, uLimit, uMode, uWorkers, uTorn,
                 uLeft>>

\* _get_tts_stream_executor: sized by the first caller, and once more by the first
\* caller that finds the backend ready if the first did not; then for good.
SizeExecutor(ready) ==
  /\ uBoot.at = "up"
  /\ uWorkers.n = 0 \/ (ready /\ ~uWorkers.resolved)
  /\ uWorkers' = [n |-> ResolveExecutor(ProfileOf(uCurrent), Shell), resolved |-> ready]
  /\ UNCHANGED <<uEnvVars, uOperator, uRef, uBoot, uServe, uTorn, uLeft>>

\* reload() of a manager notes what it would go back to, its last reference or else the
\* name of the current profile.  The new profile is applied; or apply_profile() raises,
\* and the rollback follows.
ReloadProfile(m, p) ==
  LET noted(at) == [uBoot EXCEPT !.at = at, !.manager = m, !.to = p.name,
                      !.old = IF uRef[m] # None THEN uRef[m] ELSE uCurrent]
  IN /\ uBoot.at = "up" /\ uLeft > 0
     /\ uLeft' = uLeft - 1
     /\ \/ Apply(p) /\ uBoot' = noted("build")
        \/ ApplyRaises(p) /\ uBoot' = noted("rollback")
     /\ UNCHANGED <<uOperator, uRef, uServe, uWorkers>>

BackUp == [uBoot EXCEPT !.at = "up", !.manager = None, !.to = None, !.old = None]

\* factory() and preloader() succeed, and the reference is remembered; or one raises.
Build ==
  /\ uBoot.at = "build"
  /\ \/ /\ uRef' = [uRef EXCEPT ![uBoot.manager] = uBoot.to]
        /\ uBoot' = BackUp
     \/ UNCHANGED uRef /\ uBoot' = [uBoot EXCEPT !.at = "rollback"]
  /\ UNCHANGED <<uEnvVars, uOperator, uServe, uWorkers, uTorn, uLeft>>

\* With nothing to go back to the failed profile stays applied.
RollsBack ==
  /\ uBoot.at = "rollback"
  /\ IF uBoot.old = None THEN UNCHANGED <<uEnvVars, uTorn>>
     ELSE Apply(ProfileOf(uBoot.old))
  /\ uBoot' = BackUp
  /\ UNCHANGED <<uOperator, uRef, uServe, uWorkers, uLeft>>

UNext ==
  \/ Startup \/ StartupBare \/ StartupRaises \/ ResolveEngines \/ Build \/ RollsBack
  \/ \E ready \in BOOLEAN : SizeExecutor(ready)
  \/ \E m \in Managers, p \in Catalog : ReloadProfile(m, p)

USpec == UInit(Shells) /\ [][UNext]_uVars

-----------------------------------------------------------------------------
\* What a key is worth under a profile when the operator's environment is all there is.
Worth(k, p, s) ==
  IF k \in OwnKeys(s) THEN s.env[k]
  ELSE IF p = NoProfile THEN Unset
  ELSE IF k \in DOMAIN Derived(p) THEN Derived(p)[k]
  ELSE IF k \in DOMAIN p.env THEN Expand(p, k, [j \in Keys |-> Given(s, j)])
  ELSE Unset

\* "Operator-supplied env is preserved across reloads; profile-applied keys are tracked
\* so a subsequent apply_profile() cleans stale keys": after any history of reloads and
\* rollbacks the environment is the operator's and the current profile's, nothing of any
\* other profile.  Two things are left out, of which the second overwrites what is the
\* operator's and outlives the profile (README, Known disagreements): what the operator
\* gave that the loader does not count as his, empty or under another prefix, stays only
\* until a profile has the key; and the path of an engine stays where the resolver put it
\* until a profile sets or clears that key.  Stated for histories in which no
\* apply_profile() has raised half-way.
EnvFollowsProfile ==
  uBoot.at \in {"up", "build"} /\ ~uTorn =>
    LET worth(k) == Worth(k, ProfileOf(uCurrent), Shell) IN
    \A k \in Keys : \/ uEnv[k] = worth(k)
                    \/ uEnv[k] = Given(Shell, k) /\ worth(k) = Unset
                    \/ k \in uExported /\ uEnv[k] = EnginePath(ProfileOf(uFirst), k)

\* "Profile and env overrides MAY ONLY DOWNGRADE": the limit is positive and within what
\* the backends of the starting profile bear, they run in parallel only if both can, and
\* until a reload the executor has no more threads than the TTS backend bears.
LimitsHold ==
  LET first == ProfileOf(uFirst)
  IN uBoot.at = "up" =>
       /\ uLimit > 0
       /\ first.asr.declared /\ first.asr.max # Unbounded => uLimit <= first.asr.max
       /\ first.tts.declared /\ first.tts.max # Unbounded => uLimit <= first.tts.max
       /\ uMode = "concurrent" /\ first.asr.declared /\ first.tts.declared =>
            first.asr.max # 1 /\ first.tts.max # 1
       /\ uLeft = MaxApplies /\ first.tts.declared /\ first.tts.max # Unbounded =>
            uWorkers.n <= first.tts.max

\* What the server runs with after any starts, reloads and rollbacks: the environment that
\* apply_profile() keeps and the limits capability_resolver derives.
SettingsHold == EnvFollowsProfile /\ LimitsHold
=============================================================================
