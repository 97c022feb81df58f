----------------------------- MODULE MCSpeechOut -----------------------------
(* The two ways speech leaves app/main.py, the body of /tts/stream and the    *)
(* TTS half of /v2v/stream, and the profile that sets their limits: one       *)
(* behaviour of one of them.                                                  *)
EXTENDS TtsStream, V2VTts, Profiles

CONSTANT Subjects      \* the parts a run looks at

VARIABLE subject
vars == <<subject, pVars, yVars, uVars>>

\* The keys with a prefix of the operator's; PARAFORMER_PREROLL_MS has none.
mcPrefixed == {"LANGUAGE_MODE", "QWEN3_ROOT", "QWEN3_ENGINE", "VOCOS_ENGINE", "MODEL_DIR",
               "TTS_VOICE", "OVS_PROFILE_NAME", "OVS_TTS_MODEL_ID"}

\* Three profiles: self-reference and parallel backends; a reference to the operator's
\* MODEL_DIR, or to nothing, and a serial ASR; no declared backends.
mcKnown(par, n) == [declared |-> TRUE, parallel |-> par, max |-> n]
mcLit(v) == [via |-> "none", lit |-> v]
mcCatalog ==
  { [name |-> "zh", model |-> "kokoro", asr |-> mcKnown(TRUE, 0), tts |-> mcKnown(TRUE, 2),
     target |-> "unknown", sessions |-> 3, mode |-> "concurrent", language |-> "zh_en",
     presets |-> {<<"nano", "lite">>, <<"agx", "lite">>},
     env |-> [LANGUAGE_MODE |-> mcLit("zh_en"), QWEN3_ROOT |-> mcLit("zh"),
              QWEN3_ENGINE |-> [via |-> "QWEN3_ROOT", lit |-> "enc"],
              PARAFORMER_PREROLL_MS |-> mcLit("zh")],
     engines |-> [QWEN3_ENGINE |-> [path |-> "plan", required |-> TRUE],
                  VOCOS_ENGINE |-> [path |-> "vocos", required |-> FALSE]]],
    [name |-> "multi", model |-> "none", asr |-> mcKnown(FALSE, 1), tts |-> mcKnown(TRUE, 0),
     target |-> "orin-nx", sessions |-> 0, mode |-> "concurrent", language |-> "multilanguage",
     presets |-> {<<"nx", "multi">>, <<"rk3588", "multi">>},
     env |-> [LANGUAGE_MODE |-> mcLit("multilanguage"),
              TTS_VOICE |-> [via |-> "MODEL_DIR", lit |-> "voice"]],
     engines |-> [k \in {} |-> 0]],
    [NoProfile EXCEPT !.name = "bare", !.mode = "exclusive", !.sessions = 6,
                      !.target = "desktop", !.env = [QWEN3_ROOT |-> mcLit("bare")]] }

BareShell ==
  [env |-> [k \in {} |-> Unset], ref |-> "none", language |-> "none", preset |-> "none",
   tier |-> "none", board |-> "none", mark |-> "none", ram |-> 8, sessions |-> 0, workers |-> 0]
mcShells ==
  { BareShell,
    [BareShell EXCEPT !.ref = "zh", !.sessions = 5, !.workers = 4],
    [BareShell EXCEPT !.ref = "bare", !.env = [QWEN3_ROOT |-> <<"own">>]],
    [BareShell EXCEPT !.ref = "gone"],
    [BareShell EXCEPT !.ref = "zh", !.env = [LANGUAGE_MODE |-> <<"multilanguage">>]],
    [BareShell EXCEPT !.language = "zh_en", !.env = [LANGUAGE_MODE |-> <<"zh_en">>]],
    [BareShell EXCEPT !.preset = "multi", !.board = "jetson", !.ram = 16, !.workers = 4,
                      !.env = [MODEL_DIR |-> <<"own">>, TTS_VOICE |-> EmptyValue]],
    [BareShell EXCEPT !.preset = "multi", !.board = "rk", !.mark = "rk3588"],
    [BareShell EXCEPT !.preset = "lite", !.board = "jetson", !.mark = "agx", !.sessions = 1],
    [BareShell EXCEPT !.preset = "lite", !.tier = "nano",
                      !.env = [PARAFORMER_PREROLL_MS |-> <<"own">>, VOCOS_ENGINE |-> <<"own">>]],
    [BareShell EXCEPT !.preset = "multi", !.board = "jetson"],
    [BareShell EXCEPT !.preset = "lite"] }

\* The part that is not the subject has one initial state, in which none of
\* its fair actions is enabled.
Init ==
  /\ subject \in Subjects
  /\ PInit /\ YInit /\ UInit(IF subject = "profiles" THEN Shells ELSE {BareShell})
  /\ subject # "v2v" => ~yMulti /\ yAsr = "done"

Next ==
  \/ subject = "stream" /\ PNext /\ UNCHANGED <<subject, yVars, uVars>>
  \/ subject = "v2v" /\ YNext /\ UNCHANGED <<subject, pVars, uVars>>
  \/ subject = "profiles" /\ UNext /\ UNCHANGED <<subject, pVars, yVars>>

Spec == Init /\ [][Next]_vars /\ PFairness /\ YFairness

\* The type invariant of the parts.
TypeOK == PTypeOK /\ YTypeOK
=============================================================================
