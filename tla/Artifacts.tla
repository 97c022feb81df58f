----------------------------- MODULE Artifacts -----------------------------
(***************************************************************************)
(* What a start of the server does to its model volume: ensure_models() of   *)
(* app/core/model_downloader.py, ensure_rk_artifacts() of rk_artifacts.py,   *)
(* resolve_all() of engine_resolver.py with the downloads of hf_artifacts.py.*)
(* The process may die at every step and is started again; the host's        *)
(* TensorRT may be upgraded in between.  The volume is what survives.        *)
(*                                                                           *)
(* An engine file is the host it was built for, or a file cut short; its     *)
(* sidecar .meta.json is the host and the content that were recorded.  All   *)
(* engines lie in one directory.                                             *)
(***************************************************************************)
EXTENDS Naturals, Sequences, FiniteSets

CONSTANTS
  Engines,     \* required_engines of the profile, in order
  Bundled,     \* engines in the prebuilt bundle of the model
  ModelFiles   \* _REQUIRED_FILES of a model directory, in the order of the tarball

ASSUME BundledEngines == Bundled \subseteq {Engines[i] : i \in 1 .. Len(Engines)}
ASSUME EngineList ==
  /\ Len(Engines) \in Nat \ {0}
  /\ \A i, j \in 1 .. Len(Engines) : Engines[i] = Engines[j] => i = j
ASSUME ModelFileList == Len(ModelFiles) \in Nat

VARIABLES
  bMode,      \* LANGUAGE_MODE: "rk" or another
  bHost,      \* the host's signature: "old" or "new"
  bEngine,    \* each engine file: "none", "partial", "old" or "new"
  bMeta,      \* each sidecar, or NoMeta
  bModel,     \* each model file: "none", "partial" or "whole"
  bRk,        \* a Rockchip artifact with a declared sha256: "none", "bad" or "good"
  bPc,        \* where the start is
  bAt,        \* the engine or file it is at
  bMoved,     \* what of a bundle is in place or has its sidecar
  bExported,  \* the engines named in os.environ
  bBeside     \* history: the engines whose sidecar was written for a file that lay
              \* beside those of a bundle

bVars == <<bMode, bHost, bEngine, bMeta, bModel, bRk, bPc, bAt, bMoved, bExported,
           bBeside>>
bDisk == <<bEngine, bMeta, bModel, bRk>>

EngineIds == {Engines[i] : i \in 1 .. Len(Engines)}
FileIds == {ModelFiles[i] : i \in 1 .. Len(ModelFiles)}
NoMeta == [host |-> "none", content |-> "none"]

BInit(modes) ==
  /\ bMode \in modes
  /\ bHost = "old" /\ bEngine = [e \in EngineIds |-> "none"]
  /\ bMeta = [e \in EngineIds |-> NoMeta]
  /\ bModel = [f \in FileIds |-> "none"] /\ bRk = "none"
  /\ bPc = "down" /\ bAt = 1 /\ bMoved = {} /\ bExported = {}
  /\ bBeside = {}

BGoto(p) == bPc' = p
Current == Engines[bAt]

-----------------------------------------------------------------------------
(* model_downloader.py *)

Boot ==
  /\ bPc = "down" /\ bAt' = 1 /\ bMoved' = {} /\ bExported' = {}
  /\ BGoto(IF bMode = "rk" THEN "rk" ELSE "models")
  /\ UNCHANGED <<bMode, bBeside, bHost, bDisk>>
\* is_ready: every required name is found.
NamesFound == \A f \in FileIds : bModel[f] # "none"
ModelsReady ==
  /\ bPc = "models" /\ NamesFound /\ BGoto("engine") /\ bAt' = 1
  /\ UNCHANGED <<bMode, bBeside, bHost, bDisk, bMoved, bExported>>
\* curl | tar, straight into the directory, a file after the other.
DownloadModel ==
  /\ bPc = "models" /\ ~NamesFound /\ BGoto("extract") /\ bAt' = 1
  /\ UNCHANGED <<bMode, bBeside, bHost, bDisk, bMoved, bExported>>
ExtractFile ==
  /\ bPc = "extract"
  /\ IF bAt > Len(ModelFiles)
       THEN BGoto("engine") /\ bAt' = 1 /\ UNCHANGED bModel
       ELSE LET f == ModelFiles[bAt] IN
            IF bModel[f] # "partial"
              THEN bModel' = [bModel EXCEPT ![f] = "partial"] /\ UNCHANGED <<bPc, bAt>>
              ELSE bModel' = [bModel EXCEPT ![f] = "whole"] /\ bAt' = bAt + 1 /\ UNCHANGED bPc
  /\ UNCHANGED <<bMode, bBeside, bHost, bEngine, bMeta, bRk, bMoved, bExported>>

-----------------------------------------------------------------------------
(* rk_artifacts.py *)

RkOk ==
  /\ bPc = "rk" /\ bRk = "good" /\ BGoto("contract")
  /\ UNCHANGED <<bMode, bBeside, bHost, bDisk, bAt, bMoved, bExported>>
\* _download() into a .tmp sibling, then os.replace().
RkDownload ==
  /\ bPc = "rk" /\ bRk # "good"
  /\ bRk' \in {"good", "bad"} /\ BGoto("rkverify")
  /\ UNCHANGED <<bMode, bBeside, bHost, bEngine, bMeta, bModel, bAt, bMoved, bExported>>
\* Only now is the hash compared.
RkVerify ==
  /\ bPc = "rkverify"
  /\ IF bRk = "good" THEN BGoto("rk") /\ UNCHANGED bRk ELSE BGoto("down") /\ bRk' = "none"
  /\ UNCHANGED <<bMode, bBeside, bHost, bEngine, bMeta, bModel, bAt, bMoved, bExported>>
\* _validate_runtime_contract()
RkContract ==
  /\ bPc = "contract" /\ (BGoto("models") \/ BGoto("down"))
  /\ UNCHANGED <<bMode, bBeside, bHost, bDisk, bAt, bMoved, bExported>>

-----------------------------------------------------------------------------
(* engine_resolver.py *)

\* _meta_matches(): the file is there, for this host, and is what was recorded.
MatchesAnyHost(e) == bEngine[e] # "none" /\ bMeta[e].content = bEngine[e]
MetaMatches(e) ==
  bEngine[e] # "none" /\ bMeta[e].host = bHost /\ bMeta[e].content = bEngine[e]
MetaFor(e) == [host |-> bHost, content |-> bEngine[e]]

\* os.environ[env_var] = engine_path, then the next engine.
Export ==
  /\ bExported' = bExported \cup {Current} /\ bAt' = bAt + 1 /\ bMoved' = {}
  /\ BGoto(IF bAt = Len(Engines) THEN "serving" ELSE "engine")
\* An optional engine is skipped, a required one ends the start.
Give ==
  /\ \/ bAt' = bAt + 1 /\ BGoto(IF bAt = Len(Engines) THEN "serving" ELSE "engine")
     \/ BGoto("down") /\ UNCHANGED bAt
  /\ bMoved' = {} /\ UNCHANGED bExported

CacheHit ==
  /\ bPc = "engine" /\ MetaMatches(Current) /\ Export
  /\ UNCHANGED <<bMode, bBeside, bHost, bDisk>>
\* A stale file goes first, then its sidecar.  OVS_FORCE_REBUILD and a missing extra
\* file come this way as well.
RemoveStale ==
  /\ bPc = "engine" /\ bEngine' = [bEngine EXCEPT ![Current] = "none"] /\ BGoto("unmeta")
  /\ UNCHANGED <<bMode, bBeside, bHost, bMeta, bModel, bRk, bAt, bMoved, bExported>>
RemoveMeta ==
  /\ bPc = "unmeta" /\ bMeta' = [bMeta EXCEPT ![Current] = NoMeta] /\ BGoto("hf")
  /\ bBeside' = bBeside \ {Current}
  /\ UNCHANGED <<bMode, bHost, bEngine, bModel, bRk, bAt, bMoved, bExported>>

\* _try_hf_resolve(): no manifest, no bundle for this host, a failed download or a
\* hash that differs.  A download that fails leaves the directory alone.
NoBundle ==
  /\ bPc = "hf" /\ BGoto("compile")
  /\ UNCHANGED <<bMode, bBeside, bHost, bDisk, bAt, bMoved, bExported>>
HfDownload ==
  /\ bPc = "hf" /\ Bundled # {} /\ BGoto("move") /\ bMoved' = {}
  /\ UNCHANGED <<bMode, bBeside, bHost, bDisk, bAt, bExported>>
\* The extracted files replace those in the directory one by one.
UnlinkTarget(e) ==
  /\ bPc = "move" /\ e \in Bundled \ bMoved /\ bEngine[e] # "none"
  /\ bEngine' = [bEngine EXCEPT ![e] = "none"]
  /\ UNCHANGED <<bMode, bBeside, bHost, bMeta, bModel, bRk, bPc, bAt, bMoved, bExported>>
MoveItem(e) ==
  /\ bPc = "move" /\ e \in Bundled \ bMoved /\ bEngine[e] = "none"
  /\ bEngine' = [bEngine EXCEPT ![e] = bHost] /\ bMoved' = bMoved \cup {e}
  /\ UNCHANGED <<bMode, bBeside, bHost, bMeta, bModel, bRk, bPc, bAt, bExported>>
\* The engine may not be among them, nor every extra file.
MovesDone ==
  /\ bPc = "move" /\ bMoved = Bundled /\ bMoved' = {}
  /\ BGoto("compile") \/ (bEngine[Current] # "none" /\ BGoto("bless"))
  /\ UNCHANGED <<bMode, bBeside, bHost, bDisk, bAt, bExported>>
\* _write_meta() for every engine file in the directory.
BlessFile(e) ==
  /\ bPc = "bless" /\ bEngine[e] # "none" /\ e \notin bMoved
  /\ bMeta' = [bMeta EXCEPT ![e] = MetaFor(e)] /\ bMoved' = bMoved \cup {e}
  /\ bBeside' = IF e \in Bundled THEN bBeside \ {e} ELSE bBeside \cup {e}
  /\ UNCHANGED <<bMode, bHost, bEngine, bModel, bRk, bPc, bAt, bExported>>
HfResolved ==
  /\ bPc = "bless" /\ \A e \in EngineIds : bEngine[e] # "none" => e \in bMoved
  /\ Export
  /\ UNCHANGED <<bMode, bBeside, bHost, bDisk>>

\* _compile_locally(): the build script writes the file in place.
CompileStarts ==
  /\ bPc = "compile" /\ BGoto("building")
  /\ bEngine' = [bEngine EXCEPT ![Current] = "partial"]
  /\ UNCHANGED <<bMode, bBeside, bHost, bMeta, bModel, bRk, bAt, bMoved, bExported>>
CompileDone ==
  /\ bPc = "building" /\ BGoto("writemeta")
  /\ bEngine' = [bEngine EXCEPT ![Current] = bHost]
  /\ UNCHANGED <<bMode, bBeside, bHost, bMeta, bModel, bRk, bAt, bMoved, bExported>>
CompileMeta ==
  /\ bPc = "writemeta" /\ bMeta' = [bMeta EXCEPT ![Current] = MetaFor(Current)]
  /\ bBeside' = bBeside \ {Current}
  /\ Export
  /\ UNCHANGED <<bMode, bHost, bEngine, bModel, bRk>>
\* hf_only, no build script, no ONNX file, or the script fails.
CompileFails ==
  /\ bPc \in {"compile", "building"} /\ Give
  /\ UNCHANGED <<bMode, bBeside, bHost, bDisk>>

-----------------------------------------------------------------------------
(* The process dies, or is stopped; the host is upgraded while it is down. *)

BCrash ==
  /\ bPc # "down" /\ BGoto("down") /\ bMoved' = {}
  /\ UNCHANGED <<bMode, bBeside, bHost, bDisk, bAt, bExported>>
Upgrade ==
  /\ bPc = "down" /\ bHost = "old" /\ bHost' = "new"
  /\ UNCHANGED <<bMode, bBeside, bDisk, bPc, bAt, bMoved, bExported>>

BNext ==
  \/ Boot \/ ModelsReady \/ DownloadModel \/ ExtractFile
  \/ RkOk \/ RkDownload \/ RkVerify \/ RkContract
  \/ CacheHit \/ RemoveStale \/ RemoveMeta \/ NoBundle \/ HfDownload \/ MovesDone \/ HfResolved
  \/ \E e \in EngineIds : UnlinkTarget(e) \/ MoveItem(e) \/ BlessFile(e)
  \/ CompileStarts \/ CompileDone \/ CompileMeta \/ CompileFails
  \/ BCrash \/ Upgrade

LanguageModes == {"rk", "zh_en"}
BSpec == BInit(LanguageModes) /\ [][BNext]_bVars

-----------------------------------------------------------------------------
\* "The resolver guarantees a valid engine file exists at the target path before
\* backends are imported": once the server starts, every engine in its environment is
\* whole and built for this host, every Rockchip artifact with a declared hash is good,
\* and no model file is missing; after any history of crashes, failed downloads and
\* builds, and an upgrade of the host.  The one exception is a file that was there when
\* a bundle without it was moved in, and was given a sidecar with the bundle's.
ArtifactsFit ==
  bPc = "serving" =>
    /\ \A e \in bExported : bEngine[e] = bHost \/ e \in bBeside
    /\ bMode = "rk" => bRk = "good"
    /\ NamesFound

\* The quoted sentence without the exception: it does not hold.
EnginesFit == bPc = "serving" => \A e \in bExported : bEngine[e] = bHost
=============================================================================
