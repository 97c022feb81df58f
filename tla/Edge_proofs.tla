----------------------------- MODULE Edge_proofs -----------------------------
(***************************************************************************)
(* TLAPS proofs about EdgeTts and Artifacts: the worker in use and its     *)
(* multiplexer belong together, and what the resolver exports fits the     *)
(* host, for any requests, engines and model files.                        *)
(***************************************************************************)
EXTENDS EdgeTts, Artifacts, TLAPS

-----------------------------------------------------------------------------
(* EdgeTts *)

LockPcs == {"spawn", "respawn", "take"}
OtherPcs == {"idle", "gate", "look", "queue", "clear", "end", "write", "run", "yield", "restart"}

\* The lock's holder is the one that waits for a process it started, or is about to take
\* the multiplexer; _worker is the last process started, or was cleared by somebody.
LockInv ==
  /\ tPc \in [Reqs -> LockPcs \cup OtherPcs]
  /\ tSpawned \in Nat
  /\ tLock \in {Free, Owner} \cup Reqs
  /\ \A r \in Reqs : tPc[r] \in LockPcs <=> tLock = r
  /\ tWorker \in {None, tSpawned}
\* Nobody is starting a process.
Settled == tLock = Free \/ (tLock \in Reqs /\ tPc[tLock] = "take")
IoInv == Settled /\ Live => tIo = IF tLate THEN None ELSE tWorker
EdgeTtsInv == LockInv /\ IoInv

\* A step of caller r that neither takes the lock nor gives it back.
LEMMA LockKept ==
  ASSUME EdgeTtsInv, NEW r \in Reqs, tPc[r] \in OtherPcs, NEW p \in OtherPcs,
         tPc' = [tPc EXCEPT ![r] = p], tLock' = tLock, tSpawned' = tSpawned,
         tWorker' \in {None, tWorker}
  PROVE  LockInv' /\ (Settled' => Settled)
<1>0. OtherPcs \cap LockPcs = {}
  BY DEF OtherPcs, LockPcs
<1>1. p \in LockPcs \cup OtherPcs /\ p \notin LockPcs /\ tPc[r] \notin LockPcs
  BY <1>0
<1>2. tPc \in [Reqs -> LockPcs \cup OtherPcs]
  BY DEF EdgeTtsInv, LockInv
<1>3. tPc' \in [Reqs -> LockPcs \cup OtherPcs]
  BY <1>1, <1>2
<1>4. \A q \in Reqs : tPc'[q] = IF q = r THEN p ELSE tPc[q]
  BY <1>2
<1>5. \A q \in Reqs : tPc'[q] \in LockPcs <=> tLock' = q
  BY <1>1, <1>4 DEF EdgeTtsInv, LockInv
<1>6. tLock # r
  BY <1>1 DEF EdgeTtsInv, LockInv
<1>7. Settled' => Settled
  BY <1>4, <1>6 DEF Settled
<1>8. tSpawned' \in Nat /\ tLock' \in {Free, Owner} \cup Reqs /\ tWorker' \in {None, tSpawned'}
  BY DEF EdgeTtsInv, LockInv
<1> QED
  BY <1>3, <1>5, <1>7, <1>8 DEF LockInv

\* Caller r gives the lock back, takes it, or keeps it.
LEMMA LockPassed ==
  ASSUME EdgeTtsInv, NEW r \in Reqs, NEW p \in LockPcs \cup OtherPcs,
         tPc' = [tPc EXCEPT ![r] = p], tSpawned' \in Nat, tWorker' \in {None, tSpawned'},
         \/ tLock = r /\ tLock' = Free /\ p \in OtherPcs
         \/ tLock \in {Free, r} /\ tLock' = r /\ p \in LockPcs
  PROVE  LockInv' /\ (Settled' => p = "take" \/ tLock' = Free)
<1>2. tPc \in [Reqs -> LockPcs \cup OtherPcs]
  BY DEF EdgeTtsInv, LockInv
<1>3. tPc' \in [Reqs -> LockPcs \cup OtherPcs]
  BY <1>2
<1>4. \A q \in Reqs : tPc'[q] = IF q = r THEN p ELSE tPc[q]
  BY <1>2
<1>5. Free \notin Reqs /\ OtherPcs \cap LockPcs = {}
  BY TtsReqsHold DEF Free, OtherPcs, LockPcs
<1>6. \A q \in Reqs : tPc'[q] \in LockPcs <=> tLock' = q
  BY <1>4, <1>5 DEF EdgeTtsInv, LockInv
<1>7. tLock' \in {Free, Owner} \cup Reqs
  OBVIOUS
<1>8. Settled' => p = "take" \/ tLock' = Free
  BY <1>4 DEF Settled
<1> QED
  BY <1>3, <1>6, <1>7, <1>8 DEF LockInv

\* Every step of the backend, its callers and the worker process keeps the invariant.
LEMMA EdgeTtsStep ==
  ASSUME EdgeTtsInv, [TNext]_tVars
  PROVE  EdgeTtsInv'
<1>0. Free \notin Reqs /\ Owner \notin Reqs /\ Free # Owner
  BY TtsReqsHold DEF Free, Owner
<1>1. CASE Preload
  <2>1. tPc' = tPc /\ tLock = Free /\ tLate' = tLate
    BY <1>1 DEF Preload, tCall
  <2>2. CASE tWorker' = tWorker /\ tIo' = tIo /\ tLock' = tLock /\ tAlive' = tAlive
             /\ tSpawned' = tSpawned
    <3>1. LockInv' /\ Settled /\ Live' = Live
      BY <2>1, <2>2 DEF EdgeTtsInv, LockInv, Settled, Live
    <3> QED
      BY <2>1, <2>2, <3>1 DEF EdgeTtsInv, IoInv
  <2>3. CASE tSpawned' = tSpawned + 1 /\ tWorker' = tSpawned + 1 /\ tLock' = Owner
    <3>1. ~Settled'
      BY <1>0, <2>3 DEF Settled
    <3>2. LockInv'
      BY <1>0, <2>1, <2>3 DEF EdgeTtsInv, LockInv
    <3> QED
      BY <3>1, <3>2 DEF EdgeTtsInv, IoInv
  <2> QED
    BY <1>1, <2>2, <2>3 DEF Preload, Spawn, tProcs
<1>2. CASE PreloadReady
  <2>1. tPc' = tPc /\ tLock = Owner /\ tLock' = Free /\ tWorker' = tWorker /\ tSpawned' = tSpawned
        /\ tIo' = (IF tWorker = None THEN Lost ELSE tWorker) /\ tLate' = FALSE
    BY <1>2 DEF PreloadReady, Bind, Multiplexer, tProcs
  <2>2. LockInv'
    BY <1>0, <2>1 DEF EdgeTtsInv, LockInv
  <2>3. IoInv'
    BY <2>1 DEF IoInv, Live
  <2> QED
    BY <2>2, <2>3 DEF EdgeTtsInv
<1>3. CASE PreloadFails
  <2>1. tPc' = tPc /\ tLock = Owner /\ tLock' = Free /\ tWorker' = tWorker /\ tSpawned' = tSpawned
        /\ tAlive' = tAlive /\ tWorker \notin tAlive
    BY <1>3 DEF PreloadFails, tProcs
  <2>2. LockInv'
    BY <1>0, <2>1 DEF EdgeTtsInv, LockInv
  <2>3. IoInv'
    BY <2>1 DEF IoInv, Live
  <2> QED
    BY <2>2, <2>3 DEF EdgeTtsInv
<1>4. CASE Unload
  <2>1. tPc' = tPc /\ tLock = Free /\ tLock' = Free /\ tWorker' = None /\ tSpawned' = tSpawned
    BY <1>4 DEF Unload
  <2>2. LockInv'
    BY <2>1 DEF EdgeTtsInv, LockInv
  <2>3. IoInv'
    BY <2>1 DEF IoInv, Live
  <2> QED
    BY <2>2, <2>3 DEF EdgeTtsInv
<1>5. ASSUME NEW r \in Reqs, Call(r) \/ TCaller(r) PROVE EdgeTtsInv'
  <2>1. CASE Call(r) \/ Look(r) \/ Write(r) \/ Chunk(r) \/ Pull(r) \/ Abandon(r) \/ Done(r)
             \/ Failed(r) \/ Admit(r)
    <3>1. /\ tWorker' = tWorker /\ tIo' = tIo /\ tLock' = tLock /\ tAlive' = tAlive
          /\ tSpawned' = tSpawned /\ tLate' = tLate
      BY <2>1 DEF Call, Look, Write, Chunk, Pull, Abandon, Done, Failed, Admit, tProcs
    <3>2. tPc[r] \in OtherPcs
      BY <2>1 DEF Call, Look, Write, Chunk, Pull, Abandon, Done, Failed, Admit, OtherPcs
    <3>3. \E p \in {"gate", "queue", "end", "write", "run", "yield", "restart"} :
             tPc' = [tPc EXCEPT ![r] = p]
      BY <2>1, Zenon
      DEF Call, Look, Write, Chunk, Pull, Abandon, Done, Failed, Admit, TGoto, Leave
    <3>4. {"gate", "queue", "end", "write", "run", "yield", "restart"} \subseteq OtherPcs
      BY DEF OtherPcs
    <3>5. LockInv' /\ (Settled' => Settled)
      BY <3>1, <3>2, <3>3, <3>4, LockKept
    <3> QED
      BY <3>1, <3>5 DEF EdgeTtsInv, IoInv, Live
  <2>2. CASE Gate(r)
    <3>1. tPc[r] = "gate" /\ tLock = Free /\ tIo' = tIo /\ tLate' = tLate
      BY <2>2 DEF Gate
    <3>2. CASE /\ tPc' = [tPc EXCEPT ![r] = "take"] /\ tWorker' = tWorker /\ tLock' = r
               /\ tAlive' = tAlive /\ tSpawned' = tSpawned
      <4>1. tSpawned' \in Nat /\ tWorker' \in {None, tSpawned'}
        BY <3>2 DEF EdgeTtsInv, LockInv
      <4>2. LockInv'
        BY <3>1, <3>2, <4>1, LockPassed DEF LockPcs
      <4>3. Settled
        BY <3>1 DEF Settled
      <4> QED
        BY <3>1, <3>2, <4>2, <4>3 DEF EdgeTtsInv, IoInv, Live
    <3>3. CASE /\ tPc' = [tPc EXCEPT ![r] = "spawn"] /\ tSpawned' = tSpawned + 1
               /\ tWorker' = tSpawned + 1 /\ tLock' = r
      <4>1. tSpawned' \in Nat /\ tWorker' \in {None, tSpawned'}
        BY <3>3 DEF EdgeTtsInv, LockInv
      <4>2. LockInv' /\ (Settled' => "spawn" = "take" \/ tLock' = Free)
        BY <3>1, <3>3, <4>1, LockPassed DEF LockPcs
      <4> QED
        BY <1>0, <3>3, <4>2 DEF EdgeTtsInv, IoInv
    <3> QED
      BY <2>2, <3>2, <3>3 DEF Gate, TGoto, Spawn, tProcs
  <2>3. CASE Started(r)
    <3>1. /\ tPc[r] \in {"spawn", "respawn"}
          /\ tIo' = (IF tWorker = None THEN Lost ELSE tWorker) /\ tLate' = FALSE
          /\ tWorker' = tWorker /\ tSpawned' = tSpawned
      BY <2>3 DEF Started, Bind, Multiplexer, tProcs
    <3>2. tLock = r
      BY <3>1 DEF EdgeTtsInv, LockInv, LockPcs
    <3>3. \/ tPc' = [tPc EXCEPT ![r] = "take"] /\ tLock' = tLock
          \/ tPc' = [tPc EXCEPT ![r] = "gate"] /\ tLock' = Free
      BY <2>3 DEF Started, TGoto
    <3>4. tSpawned' \in Nat /\ tWorker' \in {None, tSpawned'}
      BY <3>1 DEF EdgeTtsInv, LockInv
    <3>5. LockInv'
      BY <3>2, <3>3, <3>4, LockPassed DEF LockPcs, OtherPcs
    <3>6. IoInv'
      BY <3>1 DEF IoInv, Live
    <3> QED
      BY <3>5, <3>6 DEF EdgeTtsInv
  <2>4. CASE StartFails(r)
    <3>1. /\ tPc[r] \in {"spawn", "respawn"} /\ tLock' = Free /\ tSpawned \notin tAlive
          /\ tPc' = [tPc EXCEPT ![r] = "end"]
          /\ tWorker' = tWorker /\ tSpawned' = tSpawned /\ tAlive' = tAlive
      BY <2>4 DEF StartFails, Leave, TGoto, tProcs
    <3>2. tLock = r /\ tWorker \in {None, tSpawned} /\ tSpawned \in Nat
      BY <3>1 DEF EdgeTtsInv, LockInv, LockPcs
    <3>3. LockInv'
      BY <3>1, <3>2, LockPassed DEF OtherPcs
    <3>4. IoInv'
      BY <3>1, <3>2 DEF IoInv, Live
    <3> QED
      BY <3>3, <3>4 DEF EdgeTtsInv
  <2>5. CASE Restart(r)
    <3>1. /\ tLock = Free /\ tPc' = [tPc EXCEPT ![r] = "respawn"] /\ tSpawned' = tSpawned + 1
          /\ tWorker' = tSpawned + 1 /\ tLock' = r
      BY <2>5 DEF Restart, Spawn, TGoto
    <3>2. tSpawned' \in Nat /\ tWorker' \in {None, tSpawned'}
      BY <3>1 DEF EdgeTtsInv, LockInv
    <3>3. LockInv' /\ (Settled' => "respawn" = "take" \/ tLock' = Free)
      <4>1. "respawn" \in LockPcs /\ "respawn" \in LockPcs \cup OtherPcs
        BY DEF LockPcs
      <4>2. tLock \in {Free, r}
        BY <3>1
      <4> QED
        BY <3>1, <3>2, <4>1, <4>2, LockPassed
    <3> QED
      BY <1>0, <3>1, <3>3 DEF EdgeTtsInv, IoInv
  <2>6. CASE Take(r)
    <3>1. /\ tPc[r] = "take" /\ tLock' = Free /\ tWorker' = tWorker /\ tIo' = tIo
          /\ tAlive' = tAlive /\ tSpawned' = tSpawned /\ tLate' = tLate
      BY <2>6 DEF Take, tProcs
    <3>2. tLock = r /\ Settled
      BY <3>1 DEF EdgeTtsInv, LockInv, LockPcs, Settled
    <3>3. \E p \in {"end", "look", "queue"} : tPc' = [tPc EXCEPT ![r] = p]
      BY <2>6, Zenon DEF Take, Leave, TGoto
    <3>4. tSpawned' \in Nat /\ tWorker' \in {None, tSpawned'}
      BY <3>1 DEF EdgeTtsInv, LockInv
    <3>5. LockInv'
      <4>1. {"end", "look", "queue"} \subseteq OtherPcs
        BY DEF OtherPcs
      <4> QED
        BY <3>1, <3>2, <3>3, <3>4, <4>1, LockPassed
    <3> QED
      BY <3>1, <3>2, <3>5 DEF EdgeTtsInv, IoInv, Live
  <2>7. CASE SeesExit(r)
    <3>1. /\ tPc[r] = "run" /\ tPc' = [tPc EXCEPT ![r] = "clear"] /\ tLock' = tLock
          /\ tSpawned' = tSpawned /\ tWorker' = None
      BY <2>7 DEF SeesExit, TGoto, tProcs
    <3>2. LockInv'
      BY <3>1, LockKept DEF OtherPcs
    <3>3. IoInv'
      BY <3>1 DEF IoInv, Live
    <3> QED
      BY <3>2, <3>3 DEF EdgeTtsInv
  <2>8. CASE ClearIo(r)
    <3>1. /\ tPc[r] = "clear" /\ tPc' = [tPc EXCEPT ![r] = "end"] /\ tLock' = tLock
          /\ tSpawned' = tSpawned /\ tWorker' = tWorker /\ tIo' = None
          /\ tLate' = (tLate \/ tWorker # None)
      BY <2>8 DEF ClearIo, Leave, TGoto, tProcs
    <3>2. LockInv'
      BY <3>1, LockKept DEF OtherPcs
    <3>3. IoInv'
      BY <3>1 DEF IoInv, Live
    <3> QED
      BY <3>2, <3>3 DEF EdgeTtsInv
  <2> QED
    BY <1>5, <2>1, <2>2, <2>3, <2>4, <2>5, <2>6, <2>7, <2>8 DEF TCaller, TThread
<1>6. ASSUME NEW p \in Procs, Die(p) PROVE EdgeTtsInv'
  <2>1. /\ tPc' = tPc /\ tLock' = tLock /\ tWorker' = tWorker /\ tIo' = tIo
        /\ tSpawned' = tSpawned /\ tAlive' \subseteq tAlive /\ tLate' = tLate
    BY <1>6 DEF Die
  <2>2. LockInv' /\ Settled' = Settled /\ (Live' => Live)
    BY <2>1 DEF EdgeTtsInv, LockInv, Settled, Live
  <2> QED
    BY <2>1, <2>2 DEF EdgeTtsInv, IoInv
<1>7. CASE UNCHANGED tVars
  <2>1. /\ tPc' = tPc /\ tLock' = tLock /\ tWorker' = tWorker /\ tIo' = tIo
        /\ tSpawned' = tSpawned /\ tAlive' = tAlive /\ tLate' = tLate
    BY <1>7 DEF tVars
  <2>2. LockInv' /\ Settled' = Settled /\ Live' = Live
    BY <2>1 DEF EdgeTtsInv, LockInv, Settled, Live
  <2> QED
    BY <2>1, <2>2 DEF EdgeTtsInv, IoInv
<1> QED
  BY <1>1, <1>2, <1>3, <1>4, <1>5, <1>6, <1>7 DEF TNext, TOwner

\* Whoever gets the lock finds the multiplexer of the worker in use and never that of
\* another; none only if a caller that learnt late of an older worker's exit took it
\* away: trt_edge_llm_tts.py, _ensure_worker() and every path that drops or replaces a
\* worker, the two unlocked stores included.
THEOREM IoCorrect == TSpec => []IoMatchesWorker
<1>1. TInit => EdgeTtsInv
  <2> SUFFICES ASSUME TInit PROVE EdgeTtsInv
    OBVIOUS
  <2>1. Free \notin Reqs
    BY TtsReqsHold DEF Free
  <2>2. LockInv
    BY <2>1 DEF TInit, LockInv, LockPcs, OtherPcs
  <2> QED
    BY <2>2 DEF TInit, EdgeTtsInv, IoInv, Live
<1>2. EdgeTtsInv /\ [TNext]_tVars => EdgeTtsInv'
  BY EdgeTtsStep
<1>3. EdgeTtsInv => IoMatchesWorker
  BY DEF EdgeTtsInv, IoInv, Settled, IoMatchesWorker
<1> QED
  BY <1>1, <1>2, <1>3, PTL DEF TSpec

-----------------------------------------------------------------------------
(* Artifacts *)

Resolving == {"engine", "unmeta", "hf", "move", "bless", "compile", "building", "writemeta"}
EngineStates == {"none", "partial", "old", "new"}

ArtifactTypes ==
  /\ bHost \in {"old", "new"} /\ bEngine \in [EngineIds -> EngineStates]
  /\ bMeta \in [EngineIds -> [host : EngineStates, content : EngineStates]]
  /\ bModel \in [FileIds -> {"none", "partial", "whole"}]
  /\ bAt \in Nat \ {0} /\ bExported \subseteq EngineIds /\ bBeside \subseteq EngineIds
  /\ bPc \in Resolving \cup {"down", "models", "extract", "rk", "rkverify", "contract", "serving"}
\* A sidecar was written for a file that fitted the host of the time, the files that
\* lay beside a bundle's apart.
SidecarInv == \A e \in EngineIds : bMeta[e].content = bMeta[e].host \/ e \in bBeside
Fits(e) == bEngine[e] = bHost \/ e \in bBeside
RkInv == bMode = "rk" /\ bPc \notin {"down", "rk", "rkverify"} => bRk = "good"
FilesInv ==
  /\ bPc = "extract" => \A i \in 1 .. Len(ModelFiles) : i < bAt => bModel[ModelFiles[i]] # "none"
  /\ bPc \in Resolving \cup {"serving"} => NamesFound
\* What is exported was resolved before, and only a bundle that is moved in touches it again.
ExportInv ==
  /\ bPc \in {"rk", "rkverify", "contract", "models", "extract"} => bExported = {}
  /\ bPc \in Resolving => bAt <= Len(Engines)
  /\ bPc \in Resolving \cup {"serving"} =>
       \A e \in bExported : \E i \in 1 .. Len(Engines) : i < bAt /\ e = Engines[i]
  /\ bPc \in (Resolving \ {"move"}) \cup {"serving"} => \A e \in bExported : Fits(e)
  /\ bPc = "move" =>
       /\ \A e \in bMoved : e \in Bundled /\ bEngine[e] = bHost
       /\ \A e \in bExported : Fits(e) \/ e \in Bundled
  /\ bPc = "bless" =>
       /\ \A e \in Bundled : bEngine[e] = bHost
       /\ bMoved \subseteq Bundled \cup bBeside
       /\ bEngine[Current] # "none"
  /\ bPc = "writemeta" => bEngine[Current] = bHost
ArtifactsInv == ArtifactTypes /\ SidecarInv /\ RkInv /\ FilesInv /\ ExportInv

\* A process starts with an empty export and with sidecars that describe themselves.
LEMMA ArtifactsStart == ASSUME BInit(LanguageModes) PROVE ArtifactsInv
<1>1. ArtifactTypes
  BY DEF BInit, ArtifactTypes, EngineStates, NoMeta
<1>2. SidecarInv
  BY DEF BInit, SidecarInv, NoMeta
<1>3. bPc = "down"
  BY DEF BInit
<1> QED
  BY <1>1, <1>2, <1>3 DEF ArtifactsInv, RkInv, FilesInv, ExportInv, Resolving

\* The engine in turn is one, and none that was exported.
LEMMA InTurn ==
  ASSUME ArtifactsInv, bPc \in Resolving
  PROVE  Current \in EngineIds /\ Current \notin bExported /\ bAt \in 1 .. Len(Engines)
<1>1. bAt \in 1 .. Len(Engines)
  BY EngineList DEF ArtifactsInv, ArtifactTypes, ExportInv
<1>2. Current \in EngineIds
  BY <1>1 DEF Current, EngineIds
<1>3. ASSUME Current \in bExported PROVE FALSE
  <2>1. PICK i \in 1 .. Len(Engines) : i < bAt /\ Engines[bAt] = Engines[i]
    BY <1>3 DEF ArtifactsInv, ExportInv, Current
  <2>2. i = bAt
    BY <1>1, <2>1, EngineList
  <2> QED
    BY <1>1, <2>1, <2>2
<1> QED
  BY <1>1, <1>2, <1>3

\* The step between engines: the engine in turn is exported or skipped.
LEMMA NextEngine ==
  ASSUME ArtifactsInv, bPc \in Resolving \ {"move"}, bAt' = bAt + 1,
         bPc' = IF bAt = Len(Engines) THEN "serving" ELSE "engine",
         bExported' \subseteq bExported \cup {Current},
         Current \in bExported' => bEngine'[Current] = bHost' \/ Current \in bBeside',
         \A e \in bExported : Fits(e) => Fits(e)'
  PROVE  ExportInv' /\ bExported' \subseteq EngineIds /\ bAt' \in Nat \ {0}
         /\ bPc' \in {"engine", "serving"}
<1>1. Current \in EngineIds /\ bAt \in 1 .. Len(Engines) /\ Current = Engines[bAt]
  BY InTurn DEF Current
<1>2. bPc' \in {"engine", "serving"}
  OBVIOUS
<1>3. bPc' = "engine" => bAt' <= Len(Engines)
  BY <1>1, EngineList
<1>4. \A e \in bExported' : \E i \in 1 .. Len(Engines) : i < bAt' /\ e = Engines[i]
  <2> SUFFICES ASSUME NEW e \in bExported' PROVE \E i \in 1 .. Len(Engines) : i < bAt'
                      /\ e = Engines[i]
    OBVIOUS
  <2>1. CASE e = Current
    BY <1>1, <2>1
  <2>2. CASE e \in bExported
    <3>1. PICK i \in 1 .. Len(Engines) : i < bAt /\ e = Engines[i]
      BY <2>2 DEF ArtifactsInv, ExportInv
    <3> QED
      BY <1>1, <3>1
  <2> QED
    BY <2>1, <2>2
<1>5. \A e \in bExported' : Fits(e)'
  <2>1. \A e \in bExported : Fits(e)'
    BY DEF ArtifactsInv, ExportInv
  <2> QED
    BY <2>1 DEF Fits
<1>6. ExportInv'
  BY <1>2, <1>3, <1>4, <1>5 DEF ExportInv, Resolving
<1> QED
  BY <1>1, <1>2, <1>6 DEF ArtifactsInv, ArtifactTypes

\* The steps that touch no engine file and stay with the engine in turn.
LEMMA StayWith ==
  ASSUME ArtifactsInv, bPc \in Resolving \ {"move", "bless", "writemeta"}, bPc' \in {"hf",
         "compile", "unmeta"},
         bAt' = bAt, bExported' = bExported,
         \A e \in bExported : Fits(e) => Fits(e)'
  PROVE  ExportInv'
<1>1. \A e \in bExported' : Fits(e)'
  BY DEF ArtifactsInv, ExportInv, Resolving
<1>2. bAt' <= Len(Engines)
        /\ \A e \in bExported' : \E i \in 1 .. Len(Engines) : i < bAt' /\ e = Engines[i]
  BY DEF ArtifactsInv, ExportInv, Resolving
<1> QED
  BY <1>1, <1>2 DEF ExportInv, Resolving

\* Every step of the start-up keeps the invariant.
LEMMA ArtifactsStep ==
  ASSUME ArtifactsInv, [BNext]_bVars
  PROVE  ArtifactsInv'
<1> DEFINE Disk == /\ bEngine' = bEngine /\ bMeta' = bMeta /\ bModel' = bModel /\ bRk' = bRk
                   /\ bBeside' = bBeside
<1> USE DEF bDisk, BGoto
\* the steps before the engines
<1>1. CASE Boot
  <2>1. Disk /\ bMode' = bMode /\ bHost' = bHost /\ bAt' = 1 /\ bExported' = {}
        /\ bPc' = (IF bMode = "rk" THEN "rk" ELSE "models")
    BY <1>1 DEF Boot
  <2>2. ArtifactTypes' /\ SidecarInv' /\ RkInv'
    BY <2>1 DEF ArtifactsInv, ArtifactTypes, SidecarInv, RkInv
  <2> QED
    BY <2>1, <2>2 DEF ArtifactsInv, FilesInv, ExportInv, Resolving
<1>2. CASE ModelsReady \/ DownloadModel
  <2>1. Disk /\ bMode' = bMode /\ bHost' = bHost /\ bAt' = 1 /\ bExported' = bExported
        /\ bPc = "models"
    BY <1>2 DEF ModelsReady, DownloadModel
  <2>2. (bPc' = "engine" /\ NamesFound) \/ bPc' = "extract"
    BY <1>2 DEF ModelsReady, DownloadModel
  <2>3. ArtifactTypes' /\ SidecarInv' /\ RkInv'
    BY <2>1, <2>2 DEF ArtifactsInv, ArtifactTypes, SidecarInv, RkInv, Resolving
  <2>4. FilesInv'
    BY <2>1, <2>2 DEF FilesInv, NamesFound, Resolving
  <2>5. ExportInv'
    BY <2>1, <2>2, EngineList DEF ArtifactsInv, ExportInv, Resolving
  <2> QED
    BY <2>3, <2>4, <2>5 DEF ArtifactsInv
<1>3. CASE ExtractFile
  <2>1. /\ bPc = "extract" /\ bEngine' = bEngine /\ bMeta' = bMeta /\ bRk' = bRk
        /\ bBeside' = bBeside /\ bMode' = bMode /\ bHost' = bHost /\ bExported' = bExported
    BY <1>3 DEF ExtractFile
  <2>2. bExported = {}
    BY <2>1 DEF ArtifactsInv, ExportInv
  <2>3. CASE bAt > Len(ModelFiles)
    <3>1. bPc' = "engine" /\ bAt' = 1 /\ bModel' = bModel
      BY <1>3, <2>3 DEF ExtractFile
    <3>2. NamesFound
      <4>1. \A i \in 1 .. Len(ModelFiles) : i < bAt
        BY <2>3, ModelFileList DEF ArtifactsInv, ArtifactTypes
      <4> QED
        BY <2>1, <4>1 DEF ArtifactsInv, FilesInv, NamesFound, FileIds
    <3>3. ArtifactTypes' /\ SidecarInv' /\ RkInv' /\ FilesInv'
      BY <2>1, <3>1, <3>2
      DEF ArtifactsInv, ArtifactTypes, SidecarInv, RkInv, FilesInv, NamesFound,
          Resolving
    <3>4. ExportInv'
      BY <2>1, <2>2, <3>1, EngineList DEF ExportInv, Resolving
    <3> QED
      BY <3>3, <3>4 DEF ArtifactsInv
  <2>4. CASE ~(bAt > Len(ModelFiles))
    <3>1. bAt \in 1 .. Len(ModelFiles) /\ ModelFiles[bAt] \in FileIds
      BY <2>4, ModelFileList DEF ArtifactsInv, ArtifactTypes, FileIds
    <3>2. bPc' = bPc
      BY <1>3, <2>4 DEF ExtractFile
    <3>3. bModel \in [FileIds -> {"none", "partial", "whole"}] /\ bAt \in Nat \ {0}
      BY DEF ArtifactsInv, ArtifactTypes
    <3>4. \/ bModel' = [bModel EXCEPT ![ModelFiles[bAt]] = "partial"] /\ bAt' = bAt
          \/ bModel' = [bModel EXCEPT ![ModelFiles[bAt]] = "whole"] /\ bAt' = bAt + 1
      BY <1>3, <2>4 DEF ExtractFile
    <3>5. bModel' \in [FileIds -> {"none", "partial", "whole"}] /\ bAt' \in Nat \ {0}
      BY <3>1, <3>3, <3>4
    <3>6. ASSUME NEW i \in 1 .. Len(ModelFiles), i < bAt' PROVE bModel'[ModelFiles[i]] # "none"
      <4>1. ModelFiles[i] \in FileIds
        BY DEF FileIds
      <4>2. i = bAt \/ i < bAt
        BY <3>3, <3>4, <3>6
      <4>3. i < bAt => bModel[ModelFiles[i]] # "none"
        BY <2>1 DEF ArtifactsInv, FilesInv
      <4>4. i = bAt => bModel'[ModelFiles[i]] # "none"
        BY <3>1, <3>3, <3>4
      <4> QED
        BY <3>3, <3>4, <4>1, <4>2, <4>3, <4>4
    <3>7. ArtifactTypes' /\ SidecarInv' /\ RkInv'
      BY <2>1, <3>2, <3>5 DEF ArtifactsInv, ArtifactTypes, SidecarInv, RkInv
    <3>8. FilesInv'
      BY <2>1, <3>2, <3>6 DEF FilesInv, Resolving
    <3>9. ExportInv'
      BY <2>1, <2>2, <3>2 DEF ExportInv, Resolving
    <3> QED
      BY <3>7, <3>8, <3>9 DEF ArtifactsInv
  <2> QED
    BY <2>3, <2>4
<1>4. CASE RkOk \/ RkDownload \/ RkVerify \/ RkContract
  <2>1. /\ bEngine' = bEngine /\ bMeta' = bMeta /\ bModel' = bModel
        /\ bBeside' = bBeside /\ bMode' = bMode /\ bHost' = bHost /\ bAt' = bAt
        /\ bExported' = bExported
        /\ bPc \in {"rk", "rkverify", "contract"}
        /\ bPc' \in {"rk", "rkverify", "contract", "models", "down"}
    BY <1>4 DEF RkOk, RkDownload, RkVerify, RkContract
  <2>2. \/ bRk' = bRk /\ (bPc' = "contract" => bRk = "good") /\ (bPc' = "models"
           => bPc = "contract")
        \/ bPc' \in {"down", "rk", "rkverify"}
    BY <1>4 DEF RkOk, RkDownload, RkVerify, RkContract
  <2>3. ArtifactTypes' /\ SidecarInv'
    BY <2>1 DEF ArtifactsInv, ArtifactTypes, SidecarInv
  <2>4. RkInv'
    BY <2>1, <2>2 DEF ArtifactsInv, RkInv
  <2>5. FilesInv' /\ ExportInv'
    BY <2>1 DEF ArtifactsInv, FilesInv, ExportInv, Resolving
  <2> QED
    BY <2>3, <2>4, <2>5 DEF ArtifactsInv
\* the engines: what no step of theirs touches
<1>5. ASSUME bPc \in Resolving, bPc' \in Resolving \cup {"serving", "down"},
             bModel' = bModel, bRk' = bRk, bMode' = bMode
      PROVE  RkInv' /\ FilesInv'
  <2>1. RkInv'
    BY <1>5 DEF ArtifactsInv, RkInv, Resolving
  <2>2. FilesInv'
    BY <1>5 DEF ArtifactsInv, FilesInv, NamesFound, Resolving
  <2> QED
    BY <2>1, <2>2
<1>6. CASE CacheHit
  <2>1. Disk /\ bMode' = bMode /\ bHost' = bHost /\ bPc = "engine" /\ bAt' = bAt + 1
        /\ bExported' = bExported \cup {Current}
        /\ bPc' = (IF bAt = Len(Engines) THEN "serving" ELSE "engine")
    BY <1>6 DEF CacheHit, Export
  <2>2. bPc \in Resolving \ {"move"}
    BY <2>1 DEF Resolving
  <2>3. bEngine'[Current] = bHost' \/ Current \in bBeside'
    <3>1. Current \in EngineIds
      BY <2>2, InTurn
    <3>2. bMeta[Current].content = bMeta[Current].host \/ Current \in bBeside
      BY <3>1 DEF ArtifactsInv, SidecarInv
    <3> QED
      BY <1>6, <2>1, <3>2 DEF CacheHit, MetaMatches
  <2>4. ExportInv' /\ bExported' \subseteq EngineIds /\ bAt' \in Nat \ {0}
        /\ bPc' \in {"engine", "serving"}
    <3>1. \A e \in bExported : Fits(e) => Fits(e)'
      BY <2>1 DEF Fits
    <3> QED
      BY <2>1, <2>2, <2>3, <3>1, NextEngine
  <2>5. ArtifactTypes' /\ SidecarInv'
    BY <2>1, <2>4 DEF ArtifactsInv, ArtifactTypes, SidecarInv, Resolving
  <2>6. RkInv' /\ FilesInv'
    BY <1>5, <2>1, <2>2, <2>4 DEF Resolving
  <2> QED
    BY <2>4, <2>5, <2>6 DEF ArtifactsInv
<1>7. CASE RemoveStale
  <2>1. /\ bPc = "engine" /\ bPc' = "unmeta" /\ bEngine' = [bEngine EXCEPT ![Current] = "none"]
        /\ bMeta' = bMeta /\ bModel' = bModel /\ bRk' = bRk /\ bMode' = bMode /\ bHost' = bHost
        /\ bAt' = bAt /\ bExported' = bExported /\ bBeside' = bBeside
    BY <1>7 DEF RemoveStale
  <2>2. bPc \in Resolving \ {"move", "bless", "writemeta"} /\ bPc' \in Resolving
    BY <2>1 DEF Resolving
  <2>3. Current \in EngineIds /\ Current \notin bExported
    BY <2>2, InTurn
  <2>4. bEngine' \in [EngineIds -> EngineStates]
    BY <2>1 DEF ArtifactsInv, ArtifactTypes, EngineStates
  <2>5. \A e \in bExported : Fits(e) => Fits(e)'
    BY <2>1, <2>3 DEF ArtifactsInv, ArtifactTypes, Fits
  <2>6. ExportInv'
    BY <2>1, <2>2, <2>5, StayWith
  <2>7. ArtifactTypes' /\ SidecarInv'
    BY <2>1, <2>2, <2>4 DEF ArtifactsInv, ArtifactTypes, SidecarInv
  <2> QED
    BY <1>5, <2>1, <2>2, <2>6, <2>7 DEF ArtifactsInv
<1>8. CASE RemoveMeta
  <2>1. /\ bPc = "unmeta" /\ bPc' = "hf" /\ bMeta' = [bMeta EXCEPT ![Current] = NoMeta]
        /\ bEngine' = bEngine /\ bModel' = bModel /\ bRk' = bRk /\ bMode' = bMode /\ bHost' = bHost
        /\ bAt' = bAt /\ bExported' = bExported /\ bBeside' = bBeside \ {Current}
    BY <1>8 DEF RemoveMeta
  <2>2. bPc \in Resolving \ {"move", "bless", "writemeta"} /\ bPc' \in Resolving
    BY <2>1 DEF Resolving
  <2>3. NoMeta \in [host : EngineStates, content : EngineStates] /\ NoMeta.content = NoMeta.host
    BY DEF NoMeta, EngineStates
  <2>4. bMeta \in [EngineIds -> [host : EngineStates, content : EngineStates]]
    BY DEF ArtifactsInv, ArtifactTypes
  <2>5. bMeta' \in [EngineIds -> [host : EngineStates, content : EngineStates]]
    BY <2>1, <2>3, <2>4
  <2>6. \A e \in EngineIds : bMeta'[e] = IF e = Current THEN NoMeta ELSE bMeta[e]
    BY <2>1, <2>4
  <2>7. SidecarInv'
    BY <2>1, <2>3, <2>6 DEF ArtifactsInv, SidecarInv
  <2>8. ExportInv'
    <3>1. Current \notin bExported
      BY <2>2, InTurn
    <3>2. \A e \in bExported : Fits(e) => Fits(e)'
      BY <2>1, <3>1 DEF Fits
    <3> QED
      BY <2>1, <2>2, <3>2, StayWith
  <2>9. ArtifactTypes'
    BY <2>1, <2>2, <2>5 DEF ArtifactsInv, ArtifactTypes
  <2> QED
    BY <1>5, <2>1, <2>2, <2>7, <2>8, <2>9 DEF ArtifactsInv
<1>9. CASE NoBundle
  <2>1. /\ bPc = "hf" /\ bPc' = "compile" /\ Disk /\ bMode' = bMode /\ bHost' = bHost
        /\ bAt' = bAt /\ bExported' = bExported
    BY <1>9 DEF NoBundle
  <2>2. bPc \in Resolving \ {"move", "bless", "writemeta"} /\ bPc' \in Resolving
    BY <2>1 DEF Resolving
  <2>3. ExportInv'
    <3>1. \A e \in bExported : Fits(e) => Fits(e)'
      BY <2>1 DEF Fits
    <3> QED
      BY <2>1, <2>2, <3>1, StayWith
  <2>4. ArtifactTypes' /\ SidecarInv'
    BY <2>1, <2>2 DEF ArtifactsInv, ArtifactTypes, SidecarInv
  <2> QED
    BY <1>5, <2>1, <2>2, <2>3, <2>4 DEF ArtifactsInv
<1>10. CASE HfDownload
  <2>1. /\ bPc = "hf" /\ bPc' = "move" /\ Disk /\ bMode' = bMode /\ bHost' = bHost
        /\ bAt' = bAt /\ bExported' = bExported /\ bMoved' = {}
    BY <1>10 DEF HfDownload
  <2>2. bPc \in Resolving /\ bPc' \in Resolving
    BY <2>1 DEF Resolving
  <2>3. \A e \in bExported' : Fits(e)'
    BY <2>1 DEF ArtifactsInv, ExportInv, Resolving, Fits
  <2>4. ExportInv'
    BY <2>1, <2>2, <2>3 DEF ArtifactsInv, ExportInv, Resolving
  <2>5. ArtifactTypes' /\ SidecarInv'
    BY <2>1, <2>2 DEF ArtifactsInv, ArtifactTypes, SidecarInv
  <2> QED
    BY <1>5, <2>1, <2>2, <2>4, <2>5 DEF ArtifactsInv
<1>11. ASSUME NEW e \in EngineIds, UnlinkTarget(e) \/ MoveItem(e) PROVE ArtifactsInv'
  <2>1. /\ bPc = "move" /\ bPc' = "move" /\ bMeta' = bMeta /\ bModel' = bModel /\ bRk' = bRk
        /\ bMode' = bMode /\ bHost' = bHost /\ bAt' = bAt /\ bExported' = bExported
        /\ bBeside' = bBeside /\ e \notin bMoved /\ e \in Bundled
    BY <1>11 DEF UnlinkTarget, MoveItem
  <2>2. \/ bEngine' = [bEngine EXCEPT ![e] = "none"] /\ bMoved' = bMoved
        \/ bEngine' = [bEngine EXCEPT ![e] = bHost] /\ bMoved' = bMoved \cup {e}
    BY <1>11 DEF UnlinkTarget, MoveItem
  <2>3. bEngine \in [EngineIds -> EngineStates] /\ bHost \in {"old", "new"}
    BY DEF ArtifactsInv, ArtifactTypes
  <2>4. bEngine' \in [EngineIds -> EngineStates]
    BY <2>2, <2>3 DEF EngineStates
  <2>5. \A d \in bMoved : d \in Bundled /\ bEngine[d] = bHost
    BY <2>1 DEF ArtifactsInv, ExportInv
  <2>6. \A d \in bMoved' : d \in Bundled /\ bEngine'[d] = bHost'
    <3>1. \A d \in bMoved : d \in EngineIds /\ d # e
      BY <2>1, <2>5, BundledEngines DEF EngineIds
    <3>2. \A d \in bMoved : bEngine'[d] = bEngine[d]
      BY <2>2, <2>3, <3>1
    <3>3. e \in bMoved' => bEngine'[e] = bHost
      BY <2>1, <2>2, <2>3
    <3> QED
      BY <2>1, <2>2, <2>5, <3>2, <3>3
  <2>7. bPc \in Resolving /\ bPc' \in Resolving
    BY <2>1 DEF Resolving
  <2>8. \A d \in bExported : Fits(d)' \/ d \in Bundled
    <3>1. ASSUME NEW d \in bExported, d \notin Bundled PROVE Fits(d)'
      <4>1. Fits(d) /\ d \in EngineIds /\ d # e
        BY <2>1, <3>1 DEF ArtifactsInv, ArtifactTypes, ExportInv
      <4>2. bEngine'[d] = bEngine[d]
        BY <2>2, <2>3, <4>1
      <4> QED
        BY <2>1, <4>1, <4>2 DEF Fits
    <3> QED
      BY <3>1
  <2>9. ExportInv'
    <3>1. bAt' <= Len(Engines)
          /\ \A d \in bExported' : \E i \in 1 .. Len(Engines) : i < bAt' /\ d = Engines[i]
      BY <2>1, <2>7 DEF ArtifactsInv, ExportInv
    <3> QED
      BY <2>1, <2>6, <2>8, <3>1 DEF ExportInv
  <2>10. ArtifactTypes' /\ SidecarInv'
    BY <2>1, <2>4, <2>7 DEF ArtifactsInv, ArtifactTypes, SidecarInv
  <2> QED
    BY <1>5, <2>1, <2>7, <2>9, <2>10 DEF ArtifactsInv
<1>12. CASE MovesDone
  <2>1. /\ bPc = "move" /\ Disk /\ bMode' = bMode /\ bHost' = bHost /\ bAt' = bAt
        /\ bExported' = bExported /\ bMoved = Bundled /\ bMoved' = {}
    BY <1>12 DEF MovesDone
  <2>2. bPc' = "compile" \/ (bPc' = "bless" /\ bEngine[Current] # "none")
    BY <1>12 DEF MovesDone
  <2>3. \A e \in Bundled : bEngine'[e] = bHost'
    BY <2>1 DEF ArtifactsInv, ExportInv
  <2>4. \A e \in bExported' : Fits(e)'
    BY <2>1, <2>3 DEF ArtifactsInv, ExportInv, Fits
  <2>5. bPc \in Resolving /\ bPc' \in Resolving \ {"move", "writemeta"} /\ Current' = Current
    BY <2>1, <2>2 DEF Resolving, Current
  <2>6. bAt' <= Len(Engines)
        /\ \A d \in bExported' : \E i \in 1 .. Len(Engines) : i < bAt' /\ d = Engines[i]
    BY <2>1, <2>5 DEF ArtifactsInv, ExportInv
  <2>7. bPc' = "bless" => bMoved' \subseteq Bundled \cup bBeside' /\ bEngine'[Current'] # "none"
    BY <2>1, <2>2, <2>5
  <2>8. ExportInv'
    BY <2>2, <2>3, <2>4, <2>5, <2>6, <2>7 DEF ExportInv
  <2>9. ArtifactTypes' /\ SidecarInv'
    BY <2>1, <2>5 DEF ArtifactsInv, ArtifactTypes, SidecarInv
  <2> QED
    BY <1>5, <2>1, <2>5, <2>8, <2>9 DEF ArtifactsInv
<1>13. ASSUME NEW e \in EngineIds, BlessFile(e) PROVE ArtifactsInv'
  <2>1. /\ bPc = "bless" /\ bPc' = "bless" /\ bEngine' = bEngine /\ bModel' = bModel /\ bRk' = bRk
        /\ bMode' = bMode /\ bHost' = bHost /\ bAt' = bAt /\ bExported' = bExported
        /\ bMeta' = [bMeta EXCEPT ![e] = MetaFor(e)] /\ bMoved' = bMoved \cup {e}
        /\ bBeside' = IF e \in Bundled THEN bBeside \ {e} ELSE bBeside \cup {e}
    BY <1>13 DEF BlessFile
  <2>2. /\ \A d \in Bundled : bEngine[d] = bHost
        /\ bMoved \subseteq Bundled \cup bBeside /\ bEngine[Current] # "none"
        /\ \A d \in bExported : Fits(d)
    BY <2>1 DEF ArtifactsInv, ExportInv, Resolving
  <2>3. MetaFor(e) \in [host : EngineStates, content : EngineStates]
        /\ (e \in Bundled => MetaFor(e).content = MetaFor(e).host)
    BY <2>2 DEF MetaFor, ArtifactsInv, ArtifactTypes, EngineStates
  <2>4. bMeta \in [EngineIds -> [host : EngineStates, content : EngineStates]]
        /\ bBeside \subseteq EngineIds
    BY DEF ArtifactsInv, ArtifactTypes
  <2>5. bMeta' \in [EngineIds -> [host : EngineStates, content : EngineStates]]
        /\ bBeside' \subseteq EngineIds
    BY <2>1, <2>3, <2>4
  <2>6. \A d \in EngineIds : bMeta'[d] = IF d = e THEN MetaFor(e) ELSE bMeta[d]
    BY <2>1, <2>4
  <2>7. SidecarInv'
    BY <2>1, <2>3, <2>6 DEF ArtifactsInv, SidecarInv
  <2>8. bPc \in Resolving /\ bPc' \in Resolving \ {"move", "writemeta"} /\ Current' = Current
    BY <2>1 DEF Resolving, Current
  <2>9. \A d \in bExported' : Fits(d)'
    BY <2>1, <2>2 DEF Fits
  <2>10. bMoved' \subseteq Bundled \cup bBeside'
    BY <2>1, <2>2
  <2>11. bAt' <= Len(Engines)
         /\ \A d \in bExported' : \E i \in 1 .. Len(Engines) : i < bAt' /\ d = Engines[i]
    BY <2>1, <2>8 DEF ArtifactsInv, ExportInv
  <2>12. ExportInv'
    BY <2>1, <2>2, <2>8, <2>9, <2>10, <2>11 DEF ExportInv
  <2>13. ArtifactTypes'
    BY <2>1, <2>5 DEF ArtifactsInv, ArtifactTypes
  <2> QED
    BY <1>5, <2>1, <2>7, <2>8, <2>12, <2>13 DEF ArtifactsInv
<1>14. CASE HfResolved
  <2>1. Disk /\ bMode' = bMode /\ bHost' = bHost /\ bPc = "bless" /\ bAt' = bAt + 1
        /\ bExported' = bExported \cup {Current}
        /\ bPc' = (IF bAt = Len(Engines) THEN "serving" ELSE "engine")
    BY <1>14 DEF HfResolved, Export
  <2>2. bPc \in Resolving \ {"move"}
    BY <2>1 DEF Resolving
  <2>3. bEngine'[Current] = bHost' \/ Current \in bBeside'
    <3>1. Current \in EngineIds
      BY <2>2, InTurn
    <3>2. Current \in bMoved
      BY <1>14, <2>1, <3>1 DEF HfResolved, ArtifactsInv, ExportInv
    <3> QED
      BY <2>1, <3>2 DEF ArtifactsInv, ExportInv
  <2>4. ExportInv' /\ bExported' \subseteq EngineIds /\ bAt' \in Nat \ {0}
        /\ bPc' \in {"engine", "serving"}
    <3>1. \A e \in bExported : Fits(e) => Fits(e)'
      BY <2>1 DEF Fits
    <3> QED
      BY <2>1, <2>2, <2>3, <3>1, NextEngine
  <2>5. ArtifactTypes' /\ SidecarInv'
    BY <2>1, <2>4 DEF ArtifactsInv, ArtifactTypes, SidecarInv, Resolving
  <2>6. RkInv' /\ FilesInv'
    BY <1>5, <2>1, <2>2, <2>4 DEF Resolving
  <2> QED
    BY <2>4, <2>5, <2>6 DEF ArtifactsInv
<1>15. CASE CompileStarts \/ CompileDone
  <2>1. /\ bMeta' = bMeta /\ bModel' = bModel /\ bRk' = bRk /\ bMode' = bMode /\ bHost' = bHost
        /\ bAt' = bAt /\ bExported' = bExported /\ bPc \in {"compile", "building"}
        /\ bBeside' = bBeside
    BY <1>15 DEF CompileStarts, CompileDone
  <2>2. \/ bEngine' = [bEngine EXCEPT ![Current] = "partial"] /\ bPc' = "building"
        \/ bEngine' = [bEngine EXCEPT ![Current] = bHost] /\ bPc' = "writemeta"
    BY <1>15 DEF CompileStarts, CompileDone
  <2>3. bPc \in Resolving /\ bPc' \in Resolving
    BY <2>1, <2>2 DEF Resolving
  <2>4. Current \in EngineIds /\ Current \notin bExported /\ Current' = Current
    BY <2>1, <2>3, InTurn DEF Current
  <2>5. bEngine \in [EngineIds -> EngineStates] /\ bHost \in {"old", "new"}
        /\ bExported \subseteq EngineIds
    BY DEF ArtifactsInv, ArtifactTypes
  <2>6. bEngine' \in [EngineIds -> EngineStates]
    BY <2>2, <2>5 DEF EngineStates
  <2>7. \A e \in bExported : Fits(e) => Fits(e)'
    BY <2>1, <2>2, <2>4, <2>5 DEF Fits
  <2>8. bPc' = "writemeta" => bEngine'[Current'] = bHost'
    BY <2>1, <2>2, <2>4, <2>5
  <2>9. bPc' \in {"building", "writemeta"} /\ \A e \in bExported : Fits(e)
    BY <2>1, <2>2, <2>3 DEF ArtifactsInv, ExportInv
  <2>10. ExportInv'
    <3>1. bAt' <= Len(Engines)
      BY <2>1, <2>3 DEF ArtifactsInv, ExportInv
    <3>2. \A e \in bExported' : \E i \in 1 .. Len(Engines) : i < bAt' /\ e = Engines[i]
      BY <2>1, <2>3 DEF ArtifactsInv, ExportInv
    <3>3. \A e \in bExported' : Fits(e)'
      BY <2>1, <2>7, <2>9
    <3> QED
      BY <2>8, <2>9, <3>1, <3>2, <3>3 DEF ExportInv
  <2>11. ArtifactTypes' /\ SidecarInv'
    BY <2>1, <2>3, <2>6 DEF ArtifactsInv, ArtifactTypes, SidecarInv
  <2> QED
    BY <1>5, <2>1, <2>3, <2>10, <2>11 DEF ArtifactsInv
<1>16. CASE CompileMeta
  <2>1. /\ bEngine' = bEngine /\ bModel' = bModel /\ bRk' = bRk
        /\ bMode' = bMode /\ bHost' = bHost /\ bPc = "writemeta" /\ bAt' = bAt + 1
        /\ bExported' = bExported \cup {Current}
        /\ bMeta' = [bMeta EXCEPT ![Current] = MetaFor(Current)]
        /\ bBeside' = bBeside \ {Current}
        /\ bPc' = (IF bAt = Len(Engines) THEN "serving" ELSE "engine")
    BY <1>16 DEF CompileMeta, Export
  <2>2. bPc \in Resolving \ {"move"}
    BY <2>1 DEF Resolving
  <2>3. bEngine[Current] = bHost
    BY <2>1 DEF ArtifactsInv, ExportInv
  <2>4. ExportInv' /\ bExported' \subseteq EngineIds /\ bAt' \in Nat \ {0}
        /\ bPc' \in {"engine", "serving"}
    <3>1. Current \notin bExported /\ bEngine'[Current] = bHost'
      BY <2>1, <2>2, <2>3, InTurn
    <3>2. \A e \in bExported : Fits(e) => Fits(e)'
      BY <2>1, <3>1 DEF Fits
    <3> QED
      BY <2>1, <2>2, <3>1, <3>2, NextEngine
  <2>5. MetaFor(Current) \in [host : EngineStates, content : EngineStates]
        /\ MetaFor(Current).content = MetaFor(Current).host
    BY <2>3 DEF MetaFor, ArtifactsInv, ArtifactTypes, EngineStates
  <2>6. bMeta \in [EngineIds -> [host : EngineStates, content : EngineStates]]
    BY DEF ArtifactsInv, ArtifactTypes
  <2>7. bMeta' \in [EngineIds -> [host : EngineStates, content : EngineStates]]
    BY <2>1, <2>5, <2>6
  <2>8. \A d \in EngineIds : bMeta'[d] = IF d = Current THEN MetaFor(Current) ELSE bMeta[d]
    BY <2>1, <2>6
  <2>9. SidecarInv'
    BY <2>1, <2>5, <2>8 DEF ArtifactsInv, SidecarInv
  <2>10. ArtifactTypes'
    BY <2>1, <2>4, <2>7 DEF ArtifactsInv, ArtifactTypes, Resolving
  <2>11. RkInv' /\ FilesInv'
    BY <1>5, <2>1, <2>2, <2>4 DEF Resolving
  <2> QED
    BY <2>4, <2>9, <2>10, <2>11 DEF ArtifactsInv
<1>17. CASE CompileFails
  <2>1. Disk /\ bMode' = bMode /\ bHost' = bHost /\ bPc \in {"compile", "building"}
        /\ bExported' = bExported
    BY <1>17 DEF CompileFails, Give
  <2>2. bPc \in Resolving \ {"move"}
    BY <2>1 DEF Resolving
  <2>3. CASE bAt' = bAt + 1 /\ bPc' = (IF bAt = Len(Engines) THEN "serving" ELSE "engine")
    <3>1. Current \notin bExported' /\ \A e \in bExported : Fits(e) => Fits(e)'
      BY <2>1, <2>2, InTurn DEF Fits
    <3>2. ExportInv' /\ bExported' \subseteq EngineIds /\ bAt' \in Nat \ {0}
          /\ bPc' \in {"engine", "serving"}
      BY <2>1, <2>2, <2>3, <3>1, NextEngine
    <3>3. ArtifactTypes' /\ SidecarInv'
      BY <2>1, <3>2 DEF ArtifactsInv, ArtifactTypes, SidecarInv, Resolving
    <3>4. RkInv' /\ FilesInv'
      BY <1>5, <2>1, <2>2, <3>2 DEF Resolving
    <3> QED
      BY <3>2, <3>3, <3>4 DEF ArtifactsInv
  <2>4. CASE bPc' = "down" /\ bAt' = bAt
    <3>1. ArtifactTypes' /\ SidecarInv'
      BY <2>1, <2>4 DEF ArtifactsInv, ArtifactTypes, SidecarInv
    <3> QED
      BY <2>4, <3>1 DEF ArtifactsInv, RkInv, FilesInv, ExportInv, Resolving
  <2> QED
    BY <1>17, <2>3, <2>4 DEF CompileFails, Give
<1>18. CASE BCrash \/ Upgrade
  <2>1. Disk /\ bAt' = bAt /\ bExported' = bExported /\ bPc' = "down" /\ bHost' \in {"new", bHost}
    BY <1>18 DEF BCrash, Upgrade
  <2>2. ArtifactTypes' /\ SidecarInv'
    BY <2>1 DEF ArtifactsInv, ArtifactTypes, SidecarInv
  <2> QED
    BY <2>1, <2>2 DEF ArtifactsInv, RkInv, FilesInv, ExportInv, Resolving
<1>19. CASE UNCHANGED bVars
  <2>1. Disk /\ bMode' = bMode /\ bHost' = bHost /\ bAt' = bAt /\ bExported' = bExported
        /\ bMoved' = bMoved /\ bPc' = bPc
    BY <1>19 DEF bVars
  <2>2. ArtifactTypes' /\ SidecarInv' /\ RkInv'
    BY <2>1 DEF ArtifactsInv, ArtifactTypes, SidecarInv, RkInv
  <2>3. FilesInv' /\ ExportInv'
    BY <2>1 DEF ArtifactsInv, FilesInv, ExportInv, NamesFound, Current, Fits
  <2> QED
    BY <2>2, <2>3 DEF ArtifactsInv
<1> QED
  BY <1>1, <1>2, <1>3, <1>4, <1>6, <1>7, <1>8, <1>9, <1>10, <1>11, <1>12, <1>13, <1>14,
     <1>15, <1>16, <1>17, <1>18, <1>19 DEF BNext

\* What the resolver exports fits the host, or lay beside a bundle that was moved in
\* without it, whatever was on the disk: engine_resolver.py resolve() and the model
\* downloads of the two platforms.
THEOREM ArtifactsCorrect == BSpec => []ArtifactsFit
<1>1. BInit(LanguageModes) => ArtifactsInv
  BY ArtifactsStart
<1>2. ArtifactsInv /\ [BNext]_bVars => ArtifactsInv'
  BY ArtifactsStep
<1>3. ArtifactsInv => ArtifactsFit
  BY DEF ArtifactsInv, RkInv, FilesInv, ExportInv, ArtifactsFit, Resolving, Fits
<1> QED
  BY <1>1, <1>2, <1>3, PTL DEF BSpec

=============================================================================
