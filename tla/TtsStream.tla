------------------------------ MODULE TtsStream ------------------------------
(***************************************************************************)
(* The body of /tts/stream (app/main.py): stream(), which submits a sliding  *)
(* window of sentences to the stream executor and drains their queues in     *)
(* order, and stream_legacy(), which submits one sentence after the other.   *)
(* The sentence threads, the disconnect watcher and the generator run        *)
(* concurrently; several streams share the executor.                         *)
(***************************************************************************)
EXTENDS Naturals, Sequences, FiniteSets

CONSTANTS
  Players,         \* the streams
  LegacyPlayers,   \* the ones on the legacy path
  Sentences,       \* bound: sentences of a text
  LegacySentences, \* bound: ... on the legacy path
  MaxChunks,       \* bound: chunks of a sentence
  DefaultWorkers,  \* resolve_executor_for_tts() while no backend is known
  BackendWorkers   \* ... and once the backend's capability is

ASSUME PlayersFinite == IsFiniteSet(Players) /\ LegacyPlayers \subseteq Players
ASSUME PlaySizes == Sentences \in Nat /\ LegacySentences \in 0 .. Sentences /\ MaxChunks \in Nat
ASSUME PlayWorkers == DefaultWorkers \in Nat \ {0} /\ BackendWorkers \in Nat \ {0}

Idx == 0 .. Sentences - 1

VARIABLES
  pKnown,     \* the TTS backend is ready and has a name
  pWorkers,   \* max_workers of _tts_stream_executor, 0 before the first use
  pResolved,  \* _tts_stream_executor_resolved_backend
  pPc,        \* the generator: "off", "wait" at q.get(), "yield", "end", "cut"
  pLen,       \* len(sentences)
  pCur,       \* current_idx
  pNext,      \* next_to_submit
  pWindow,    \* prefetch_max
  pFirst,     \* first_chunk_seen
  pJob,       \* each sentence's thread: "none", "queued", "run", "over"
  pQueue,     \* each sentence's queue; 0 is the None at its end
  pMade,      \* chunks a thread has made
  pSent,      \* what went to the client: <<sentence, chunk>>
  pCancel     \* cancel_flag

pVars == <<pKnown, pWorkers, pResolved, pPc, pLen, pCur, pNext, pWindow, pFirst,
           pJob, pQueue, pMade, pSent, pCancel>>
pExec == <<pKnown, pWorkers, pResolved>>

PInit ==
  /\ pKnown = FALSE /\ pWorkers = 0 /\ pResolved = FALSE
  /\ pPc = [p \in Players |-> "off"]
  /\ pLen = [p \in Players |-> 0]
  /\ pCur = [p \in Players |-> 0] /\ pNext = [p \in Players |-> 0]
  /\ pWindow = [p \in Players |-> 0]
  /\ pFirst = [p \in Players |-> FALSE]
  /\ pJob = [p \in Players |-> [i \in Idx |-> "none"]]
  /\ pQueue = [p \in Players |-> [i \in Idx |-> <<>>]]
  /\ pMade = [p \in Players |-> [i \in Idx |-> 0]]
  /\ pSent = [p \in Players |-> <<>>]
  /\ pCancel = [p \in Players |-> FALSE]

PGoto(p, l) == pPc' = [pPc EXCEPT ![p] = l]

-----------------------------------------------------------------------------
(* The executor *)

\* _resolve_tts_stream_max_workers()
ResolveWorkers == IF pKnown THEN BackendWorkers ELSE DefaultWorkers

\* _get_tts_stream_executor(): built at the first use, replaced once when it
\* was built before the backend was known; old jobs finish where they are.
GetExecutor ==
  /\ pWorkers' = IF pWorkers = 0 \/ (~pResolved /\ pKnown) THEN ResolveWorkers ELSE pWorkers
  /\ pResolved' = (pResolved \/ pKnown)
  /\ UNCHANGED pKnown

BecomesKnown ==
  /\ ~pKnown
  /\ pKnown' = TRUE
  /\ UNCHANGED <<pWorkers, pResolved, pPc, pLen, pCur, pNext, pWindow, pFirst, pJob, pQueue,
                 pMade, pSent, pCancel>>

-----------------------------------------------------------------------------
(* The generator *)

\* prefetch_max; the legacy generator has no window.
Window(p, workers, n) ==
  IF p \in LegacyPlayers THEN 0 ELSE IF workers < n THEN workers ELSE n

\* The header is out: the first sentence is submitted, or there is none.
Open(p) ==
  /\ pPc[p] = "off"
  /\ \/ PGoto(p, "end") /\ UNCHANGED <<pExec, pLen, pNext, pWindow, pJob>>
     \/ \E n \in 1 .. (IF p \in LegacyPlayers THEN LegacySentences ELSE Sentences) :
          /\ GetExecutor
          /\ pLen' = [pLen EXCEPT ![p] = n]
          /\ pWindow' = [pWindow EXCEPT ![p] = Window(p, pWorkers', n)]
          /\ pJob' = [pJob EXCEPT ![p][0] = "queued"]
          /\ pNext' = [pNext EXCEPT ![p] = 1]
          /\ PGoto(p, "wait")
  /\ UNCHANGED <<pCur, pFirst, pQueue, pMade, pSent, pCancel>>

\* mutant: one sentence too many is submitted
WideWindow(p) == pNext[p] - pCur[p] <= pWindow[p]

InWindow(p) == pNext[p] - pCur[p] < pWindow[p]

\* _maybe_prefetch(), asked at the first chunk of a sentence and at its end.
MaybePrefetch(p) ==
  IF pNext[p] < pLen[p] /\ ~pCancel[p] /\ InWindow(p)
  THEN /\ pJob' = [pJob EXCEPT ![p][pNext[p]] = "queued"]
       /\ pNext' = [pNext EXCEPT ![p] = @ + 1]
  ELSE UNCHANGED <<pJob, pNext>>

\* The legacy generator submits at the head of its loop.
SubmitNext(p) ==
  /\ pJob' = [pJob EXCEPT ![p][pNext[p]] = "queued"]
  /\ pNext' = [pNext EXCEPT ![p] = @ + 1]

\* A chunk from the queue of the current sentence.
TakeChunk(p) ==
  LET q == pQueue[p][pCur[p]] IN
  /\ pPc[p] = "wait" /\ q # <<>> /\ Head(q) # 0
  /\ pQueue' = [pQueue EXCEPT ![p][pCur[p]] = Tail(q)]
  /\ pSent' = [pSent EXCEPT ![p] = Append(@, <<pCur[p], Head(q)>>)]
  /\ IF pFirst[p] THEN UNCHANGED <<pJob, pNext>> ELSE MaybePrefetch(p)
  /\ pFirst' = [pFirst EXCEPT ![p] = TRUE]
  /\ PGoto(p, "yield")
  /\ UNCHANGED <<pExec, pLen, pCur, pWindow, pMade, pCancel>>

\* for current_idx in range(len(sentences))
NextIdx(p) == pCur[p] + 1

\* The None at the end of a queue: on to the next sentence, or out.
TakeEnd(p) ==
  LET last == NextIdx(p) >= pLen[p] \/ pCancel[p] IN
  /\ pPc[p] = "wait" /\ pQueue[p][pCur[p]] = <<0>>
  /\ IF p \notin LegacyPlayers THEN MaybePrefetch(p)
     ELSE IF last THEN UNCHANGED <<pJob, pNext>> ELSE SubmitNext(p)
  /\ IF last THEN PGoto(p, "end") /\ UNCHANGED pCur
             ELSE pCur' = [pCur EXCEPT ![p] = NextIdx(p)] /\ UNCHANGED pPc
  /\ pFirst' = [pFirst EXCEPT ![p] = FALSE]
  /\ UNCHANGED <<pExec, pLen, pWindow, pQueue, pMade, pSent, pCancel>>

\* The client has taken the chunk.
Sent(p) ==
  /\ pPc[p] = "yield"
  /\ PGoto(p, "wait")
  /\ UNCHANGED <<pExec, pLen, pCur, pNext, pWindow, pFirst, pJob, pQueue, pMade, pSent, pCancel>>

\* _disconnect_watcher(): the flag is raised and the open generators closed;
\* a thread inside its generator notices the flag at its next chunk.
Watcher(p) ==
  /\ pPc[p] \in {"wait", "yield"} /\ ~pCancel[p]
  /\ pCancel' = [pCancel EXCEPT ![p] = TRUE]
  /\ UNCHANGED <<pExec, pPc, pLen, pCur, pNext, pWindow, pFirst, pJob, pQueue, pMade, pSent>>

\* The server closes the response itself: CancelledError at q.get() or
\* GeneratorExit at the yield, the finally, and nobody drains the queues.
Cut(p) ==
  /\ pPc[p] \in {"wait", "yield"}
  /\ PGoto(p, "cut")
  /\ pQueue' = [pQueue EXCEPT ![p] = [i \in Idx |-> <<>>]]
  /\ pSent' = [pSent EXCEPT ![p] = <<>>]
  /\ pCur' = [pCur EXCEPT ![p] = 0] /\ pNext' = [pNext EXCEPT ![p] = 0]
  /\ pFirst' = [pFirst EXCEPT ![p] = FALSE]
  /\ UNCHANGED <<pExec, pLen, pWindow, pJob, pMade, pCancel>>

-----------------------------------------------------------------------------
(* _run(), in a thread of the executor *)

Running == {j \in Players \X Idx : pJob[j[1]][j[2]] = "run"}

RunStarts(p, i) ==
  /\ pJob[p][i] = "queued"
  /\ Cardinality(Running) < pWorkers
  /\ pJob' = [pJob EXCEPT ![p][i] = "run"]
  /\ UNCHANGED <<pExec, pPc, pLen, pCur, pNext, pWindow, pFirst, pQueue, pMade, pSent, pCancel>>

\* mutant: one queue for all sentences
PutShared(p, i, x) ==
  pQueue' = [pQueue EXCEPT ![p][pCur[p]] = IF pPc[p] \in {"wait", "yield"} THEN Append(@, x) ELSE @]

Put(p, i, x) ==
  pQueue' = [pQueue EXCEPT ![p][i] = IF pPc[p] \in {"wait", "yield"} THEN Append(@, x) ELSE @]

RunChunk(p, i) ==
  /\ pJob[p][i] = "run" /\ ~pCancel[p]
  /\ pMade[p][i] < MaxChunks
  /\ pMade' = [pMade EXCEPT ![p][i] = @ + 1]
  /\ Put(p, i, pMade[p][i] + 1)
  /\ UNCHANGED <<pExec, pPc, pLen, pCur, pNext, pWindow, pFirst, pJob, pSent, pCancel>>

\* mutant: the None is put at the end of the loop only, not when it raises
RunEndsSilently(p, i) ==
  /\ pJob[p][i] = "run"
  /\ pJob' = [pJob EXCEPT ![p][i] = "over"]
  /\ IF pMade[p][i] = MaxChunks THEN Put(p, i, 0) ELSE UNCHANGED pQueue
  /\ UNCHANGED <<pExec, pPc, pLen, pCur, pNext, pWindow, pFirst, pMade, pSent, pCancel>>

\* The generator is exhausted, raises, is closed, or the flag is up; the None
\* is put in every case.
RunEnds(p, i) ==
  /\ pJob[p][i] = "run"
  /\ pJob' = [pJob EXCEPT ![p][i] = "over"]
  /\ Put(p, i, 0)
  /\ UNCHANGED <<pExec, pPc, pLen, pCur, pNext, pWindow, pFirst, pMade, pSent, pCancel>>

-----------------------------------------------------------------------------
Generator(p) == TakeChunk(p) \/ TakeEnd(p) \/ Sent(p)

PNext ==
  \/ BecomesKnown
  \/ \E p \in Players : Open(p) \/ Generator(p) \/ Watcher(p) \/ Cut(p)
  \/ \E p \in Players, i \in Idx : RunStarts(p, i) \/ RunChunk(p, i) \/ RunEnds(p, i)

\* The loop and the threads run, a synthesis ends; the client reads on, or the
\* server closes the response.
PFairness ==
  /\ \A p \in Players : WF_pVars(Generator(p))
  /\ \A p \in Players, i \in Idx : WF_pVars(RunStarts(p, i)) /\ WF_pVars(RunEnds(p, i))

PSpec == PInit /\ [][PNext]_pVars /\ PFairness

-----------------------------------------------------------------------------
PTypeOK ==
  /\ pKnown \in BOOLEAN /\ pResolved \in BOOLEAN
  /\ pWorkers \in {0, DefaultWorkers, BackendWorkers}
  /\ pPc \in [Players -> {"off", "wait", "yield", "end", "cut"}]
  /\ pLen \in [Players -> 0 .. Sentences] /\ pCur \in [Players -> Idx] /\ pNext \in [Players -> 0 .. Sentences]
  /\ pWindow \in [Players -> 0 .. Sentences]
  /\ pFirst \in [Players -> BOOLEAN] /\ pCancel \in [Players -> BOOLEAN]
  /\ pJob \in [Players -> [Idx -> {"none", "queued", "run", "over"}]]
  /\ pQueue \in [Players -> [Idx -> Seq(0 .. MaxChunks)]]
  /\ pMade \in [Players -> [Idx -> 0 .. MaxChunks]]
  /\ pSent \in [Players -> Seq(Idx \X (1 .. MaxChunks))]

Before(a, b) == a[1] < b[1] \/ (a[1] = b[1] /\ a[2] < b[2])

\* "Chunk order on the wire is unchanged ... byte-identical to the serial
\* baseline": the sentences go out in order, each chunk once, and a stream that
\* ends undisturbed has sent every chunk that was made.
WireOrder ==
  \A p \in Players :
    /\ \A a, b \in DOMAIN pSent[p] : a < b => Before(pSent[p][a], pSent[p][b])
    /\ pPc[p] = "end" /\ ~pCancel[p] =>
         {pSent[p][n] : n \in DOMAIN pSent[p]} =
         {<<i, n>> : i \in Idx, n \in 1 .. MaxChunks} \cap
         {x \in Idx \X (1 .. MaxChunks) : x[2] <= pMade[p][x[1]]}

\* Every stream ends, with the pipeline and without: no queue is waited on
\* whose sentence was never submitted.
StreamEnds == \A p \in Players : pPc[p] # "off" ~> pPc[p] \in {"end", "cut"}
=============================================================================
