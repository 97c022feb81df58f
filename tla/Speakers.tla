------------------------------ MODULE Speakers ------------------------------
(***************************************************************************)
(* app/core/tts_speakers.py for one model: presets, the speakers.json file   *)
(* and the environment are laid over one another in a cached table.  The     *)
(* handlers of main.py that list, register, delete and reload run on the     *)
(* event loop, one at a time; synthesis looks speakers up from threads of    *)
(* the executor, so the steps of a lookup fall between those of a handler.   *)
(***************************************************************************)
EXTENDS Naturals, FiniteSets, FiniteSetsExt

CONSTANTS
  Lookups,     \* threads that look a speaker up
  PresetIds,   \* ids in _PRESETS[model_id]
  EnvIds,      \* ids in OVS_TTS_SPEAKERS_JSON, embeddings here; a preset's may be among them
  FirstAuto,   \* the lowest id given automatically, 10000
  MaxId,       \* bound: the highest id
  MaxRegs      \* bound: registrations

ASSUME SpeakerIds ==
  /\ FirstAuto \in Nat /\ MaxId \in Nat /\ MaxRegs \in Nat
  /\ PresetIds \cup EnvIds \subseteq 0 .. MaxId

VARIABLES
  sFile,    \* speakers.json, [id -> number of the registration it holds]
  sCache,   \* _cache[model_id], or NoTable
  sLoad,    \* _load_speaker_map() in progress, by thread and by the loop
  sLoop,    \* the handler on the loop: [op, step, id, reg, read], read that it got the file
  sAsk,     \* the lookup of a thread: [id, due], due the registration acknowledged when it began
  sRegs,    \* registrations so far
  sAcked,   \* <<id, registration>> of every acknowledged registration still wanted
  sMisread, \* what failed reads did: <<id, registration>> erased, or left though deleted
  sWrong    \* a lookup did not give the speaker that was due

sVars == <<sFile, sCache, sLoad, sLoop, sAsk, sRegs, sAcked, sMisread, sWrong>>

Ids == 0 .. MaxId
NoId == MaxId + 1
Preset(i) == <<"preset", i>>
Embedding(n) == <<"embedding", n>>
NoTable == [i \in {NoId} |-> Preset(i)]
Idle == [op |-> "idle", step |-> "idle", id |-> NoId, reg |-> 0, read |-> TRUE]
NoLoad == [at |-> "idle", table |-> NoTable]
Loaders == Lookups \cup {"loop"}

SInit ==
  /\ sFile = <<>> /\ sCache = NoTable /\ sLoad = [l \in Loaders |-> NoLoad]
  /\ sLoop = Idle /\ sAsk = [t \in Lookups |-> [id |-> NoId, due |-> 0]]
  /\ sRegs = 0 /\ sAcked = {} /\ sMisread = {} /\ sWrong = FALSE

-----------------------------------------------------------------------------
\* The three layers; on an id collision the later one wins.
Env == [i \in EnvIds |-> Embedding(0)]
FileData(read) == IF read THEN sFile ELSE <<>>
FileSpeakers(read) == [i \in DOMAIN FileData(read) |-> Embedding(sFile[i])]
Layers(read) ==
  [i \in EnvIds \cup DOMAIN FileSpeakers(read) \cup PresetIds |->
     CASE i \in EnvIds -> Env[i]
       [] i \in DOMAIN FileSpeakers(read) \ EnvIds -> FileSpeakers(read)[i]
       [] OTHER -> Preset(i)]

\* _load_speaker_map(): the cache under its lock, else the file without one, then the
\* cache again.
LoadCheck(l) ==
  /\ sLoad[l].at = "check"
  /\ sLoad' = [sLoad EXCEPT ![l] = IF sCache # NoTable THEN [at |-> "loaded", table |-> sCache]
                                                       ELSE [@ EXCEPT !.at = "read"]]
  /\ UNCHANGED <<sFile, sCache, sLoop, sAsk, sRegs, sAcked, sWrong, sMisread>>
LoadRead(l, read) ==
  /\ sLoad[l].at = "read"
  /\ sLoad' = [sLoad EXCEPT ![l] = [at |-> "store", table |-> Layers(read)]]
  /\ UNCHANGED <<sFile, sCache, sLoop, sAsk, sRegs, sAcked, sWrong, sMisread>>
LoadStore(l) ==
  /\ sLoad[l].at = "store"
  /\ sLoad' = [sLoad EXCEPT ![l].at = "loaded"] /\ sCache' = sLoad[l].table
  /\ UNCHANGED <<sFile, sLoop, sAsk, sRegs, sAcked, sWrong, sMisread>>

\* speaker_spec_for_id(): an unmapped id is passed on as a preset of that name.
SpecForId(table, i) == IF i \in DOMAIN table THEN table[i] ELSE Preset(i)

\* resolve_speaker_kwargs() on a synthesis thread.
Ask(t, i) ==
  /\ sAsk[t].id = NoId /\ sLoad[t] = NoLoad
  /\ sAsk' = [sAsk EXCEPT ![t] =
       [id |-> i, due |-> Max({0} \cup {n \in 1 .. MaxRegs : <<i, n>> \in sAcked})]]
  /\ sLoad' = [sLoad EXCEPT ![t].at = "check"]
  /\ UNCHANGED <<sFile, sCache, sLoop, sRegs, sAcked, sWrong, sMisread>>
Resolve(t) ==
  LET q == sAsk[t] IN
  /\ sLoad[t].at = "loaded"
  /\ sWrong' = (sWrong \/ ( /\ <<q.id, q.due>> \in sAcked
                            /\ SpecForId(sLoad[t].table, q.id) # Embedding(q.due)))
  /\ sLoad' = [sLoad EXCEPT ![t] = NoLoad]
  /\ sAsk' = [sAsk EXCEPT ![t] = [id |-> NoId, due |-> 0]]
  /\ UNCHANGED <<sFile, sCache, sLoop, sRegs, sAcked, sMisread>>

-----------------------------------------------------------------------------
\* register_speaker(), under _file_lock: the ids are those of the presets and the file.
ExistingInCache(read) ==
  IF sCache = NoTable THEN PresetIds \cup DOMAIN FileData(read) ELSE DOMAIN sCache
ExistingIds(read) == PresetIds \cup DOMAIN FileData(read)
AutoId(read) == Max({FirstAuto} \cup {i + 1 : i \in ExistingIds(read)})

\* An explicit id that exists is looked up, to refuse a preset's.
RegisterSpeaker(sid, read) ==
  LET step == IF sid \in ExistingIds(read) THEN "load" ELSE "write" IN
  /\ sLoop = Idle /\ sRegs < MaxRegs /\ sRegs' = sRegs + 1
  /\ sid = NoId => AutoId(read) <= MaxId
  /\ sLoop' = [op |-> IF sid = NoId THEN "register" ELSE "overwrite", step |-> step,
               id |-> IF sid = NoId THEN AutoId(read) ELSE sid, reg |-> sRegs + 1, read |-> read]
  /\ sLoad' = IF step = "load" THEN [sLoad EXCEPT !["loop"].at = "check"] ELSE sLoad
  /\ UNCHANGED <<sFile, sCache, sAsk, sAcked, sMisread, sWrong>>
RefusePreset ==
  LET spec == SpecForId(sLoad["loop"].table, sLoop.id) IN
  /\ sLoop.op = "overwrite" /\ sLoop.step = "load" /\ sLoad["loop"].at = "loaded"
  /\ sLoop' = IF spec[1] = "preset" THEN Idle ELSE [sLoop EXCEPT !.step = "write"]
  /\ sLoad' = [sLoad EXCEPT !["loop"] = NoLoad]
  /\ UNCHANGED <<sFile, sCache, sAsk, sRegs, sAcked, sWrong, sMisread>>

\* unregister_speaker(): a preset or an unknown id is refused.
UnregisterSpeaker(i) ==
  /\ sLoop = Idle
  /\ sLoop' = [Idle EXCEPT !.op = "unregister", !.step = "load", !.id = i]
  /\ sLoad' = [sLoad EXCEPT !["loop"].at = "check"]
  /\ UNCHANGED <<sFile, sCache, sAsk, sRegs, sAcked, sWrong, sMisread>>
Delete(read) ==
  LET table == sLoad["loop"].table
      held  == sLoop.id \in DOMAIN FileData(read)
      known == sLoop.id \in DOMAIN table /\ table[sLoop.id][1] = "embedding"
  IN
  /\ sLoop.op = "unregister" /\ sLoop.step = "load" /\ sLoad["loop"].at = "loaded"
  /\ sLoop' = IF known THEN [sLoop EXCEPT !.step = IF held THEN "write" ELSE "drop"] ELSE Idle
  /\ sMisread' = IF known /\ ~held /\ sLoop.id \in DOMAIN sFile
                   THEN sMisread \cup {<<sLoop.id, sFile[sLoop.id]>>} ELSE sMisread
  /\ sLoad' = [sLoad EXCEPT !["loop"] = NoLoad]
  /\ UNCHANGED <<sFile, sCache, sAsk, sRegs, sAcked, sWrong>>

\* _atomic_write_json(): the file changes in one step, when the temporary one is renamed.
\* What is written is what was read, which under the lock is the file or nothing.
FileEntries == {<<i, sFile[i]>> : i \in DOMAIN sFile}
FileAfter ==
  LET data == FileData(sLoop.read) IN
  IF sLoop.op = "unregister" THEN [i \in DOMAIN data \ {sLoop.id} |-> data[i]]
    ELSE [i \in DOMAIN data \cup {sLoop.id} |-> IF i = sLoop.id THEN sLoop.reg ELSE data[i]]
AtomicWrite ==
  /\ sLoop.step = "write" /\ sLoop' = [sLoop EXCEPT !.step = "drop"]
  /\ sFile' = FileAfter
  /\ sMisread' = IF sLoop.read THEN sMisread ELSE sMisread \cup FileEntries
  /\ UNCHANGED <<sCache, sLoad, sAsk, sAcked, sRegs, sWrong>>
\* An error while writing the temporary file goes to the caller.
WriteFails ==
  /\ sLoop.step = "write" /\ sLoop' = Idle
  /\ UNCHANGED <<sFile, sCache, sLoad, sAsk, sRegs, sAcked, sWrong, sMisread>>

\* The end of both: registering drops the table, deleting takes the entry out of it.
Wanted ==
  CASE sLoop.op = "register" -> sAcked \cup {<<sLoop.id, sLoop.reg>>}
    [] sLoop.op = "overwrite" -> {a \in sAcked : a[1] # sLoop.id} \cup {<<sLoop.id, sLoop.reg>>}
    [] OTHER -> {a \in sAcked : a[1] # sLoop.id}
Acknowledge ==
  /\ sLoop.step = "drop" /\ sLoop' = Idle /\ sAcked' = Wanted
  /\ sCache' = IF sLoop.op # "unregister" \/ sCache = NoTable THEN NoTable
                 ELSE [i \in DOMAIN sCache \ {sLoop.id} |-> sCache[i]]
  /\ UNCHANGED <<sFile, sLoad, sAsk, sRegs, sWrong, sMisread>>

\* GET /tts/speakers, and /admin/tts/speakers/reload, which empties the cache first.
List(reload) ==
  /\ sLoop = Idle /\ sLoop' = [Idle EXCEPT !.op = "list", !.step = "load"]
  /\ sLoad' = [sLoad EXCEPT !["loop"].at = "check"]
  /\ sCache' = IF reload THEN NoTable ELSE sCache
  /\ UNCHANGED <<sFile, sAsk, sRegs, sAcked, sWrong, sMisread>>
Listed ==
  /\ sLoop.op = "list" /\ sLoad["loop"].at = "loaded"
  /\ sLoop' = Idle /\ sLoad' = [sLoad EXCEPT !["loop"] = NoLoad]
  /\ UNCHANGED <<sFile, sCache, sAsk, sRegs, sAcked, sWrong, sMisread>>

\* The process restarts: only the file is left.  A change that had reached it counts.
SCrash ==
  /\ sLoop # Idle
  /\ sAcked' = IF sLoop.step = "drop" THEN Wanted ELSE sAcked
  /\ sCache' = NoTable /\ sLoad' = [l \in Loaders |-> NoLoad] /\ sLoop' = Idle
  /\ sAsk' = [t \in Lookups |-> [id |-> NoId, due |-> 0]]
  /\ UNCHANGED <<sFile, sRegs, sWrong, sMisread>>

SNext ==
  \/ \E l \in Loaders : LoadCheck(l) \/ LoadStore(l) \/ \E read \in BOOLEAN : LoadRead(l, read)
  \/ \E t \in Lookups : Resolve(t) \/ \E i \in Ids : Ask(t, i)
  \/ \E sid \in Ids \cup {NoId}, read \in BOOLEAN : RegisterSpeaker(sid, read)
  \/ \E i \in Ids : UnregisterSpeaker(i)
  \/ \E reload \in BOOLEAN : List(reload)
  \/ \E read \in BOOLEAN : Delete(read)
  \/ RefusePreset \/ AtomicWrite \/ WriteFails \/ Acknowledge \/ Listed \/ SCrash
SSpec == SInit /\ [][SNext]_sVars

-----------------------------------------------------------------------------
\* What register_speaker() acknowledged is in speakers.json until it is deleted or
\* overwritten under its id, and nothing else is, but for what a handler did that could
\* not read the file: it erases the entries of the others, or leaves the one it deletes
\* (README, Known disagreements).  So an id given automatically never takes the place of
\* another voice, whatever stale table the cache holds, and no crash loses an entry; and
\* an entry is under a preset's id only where the environment had replaced that preset.
SpeakersKept ==
  /\ sLoop.step # "drop" =>
       (sAcked \ FileEntries) \cup (FileEntries \ sAcked) \subseteq sMisread
  /\ DOMAIN sFile \cap PresetIds \subseteq EnvIds

\* "assigns it a permanent speaker_id for subsequent /tts calls" (main.py,
\* /tts/speakers/register): a lookup that begins after the registration was
\* acknowledged gives the registered voice.  (It does not, README, Known disagreements.)
RegisteredIsUsable == ~sWrong
=============================================================================
