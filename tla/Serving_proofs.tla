--------------------------- MODULE Serving_proofs ---------------------------
(***************************************************************************)
(* TLAPS proofs about the server's own state.  Serving: types, the accounting*)
(* of the session slots and of the requests a reload waits for, and that the *)
(* counter and the tokens implement SlotPool, for any clients, endpoints,    *)
(* limit and mode.  TtsStream: the order of the chunks on the wire, for any  *)
(* streams, texts and workers.  Profiles: the environment and the limits     *)
(* after any reloads and rollbacks, for any profiles.  TextBuffers: what the *)
(* buffers between the language model and the synthesis hand on, for any     *)
(* text, however it is chunked, and any sizes.  V2VTts: the order in which a *)
(* session's sentences are synthesized, and that a thread nobody listens to  *)
(* has been told to stop, for any number of sentences.                       *)
(***************************************************************************)
EXTENDS Serving, TtsStream, V2VTts, Profiles, TextBuffers, FiniteSetTheorems,
  SequenceTheorems, TLAPS

-----------------------------------------------------------------------------
(* Serving *)

\* The clients that hold a slot of the limiter.
Held == {c \in Clients : sToken[c] = "held"}

\* _active is the number of live tokens, and a request that has not been made
\* has none: what makes Release exact, its guard against going below zero idle.
SlotsCounted ==
  /\ sActive = Cardinality(Held)
  /\ \A c \in Clients : sPc[c] = "idle" => sToken[c] # "held"

ServingInv == STypeOK /\ SlotsCounted /\ UsersAreCounted

-----------------------------------------------------------------------------
(* Slots *)

\* The clients that hold a slot are finitely many.
LEMMA HeldFinite ==
  IsFiniteSet(Held) /\ Cardinality(Held) \in Nat
<1>1. Held \subseteq Clients
  BY DEF Held
<1>2. IsFiniteSet(Held)
  BY <1>1, ServingClients, FS_Subset
<1> QED
  BY <1>2, FS_CardinalityType

\* try_acquire() hands out one slot and counts it.
LEMMA TakeSlot ==
  ASSUME STypeOK, SlotsCounted, NEW c \in Clients, sToken[c] # "held", TryAcquire(c)
  PROVE  /\ Held' = Held \cup {c} /\ c \notin Held
         /\ Cardinality(Held) < SessionLimit
         /\ sActive' = Cardinality(Held') /\ sActive' \in 0 .. SessionLimit
         /\ sToken' \in [Clients -> {"none", "held", "released"}]
         /\ \A d \in Clients : d # c => sToken'[d] = sToken[d]
<1> USE ServingLimit
<1>1. Held' = Held \cup {c} /\ c \notin Held
  BY DEF STypeOK, Held, TryAcquire
<1>2. Cardinality(Held') = Cardinality(Held) + 1
  BY <1>1, HeldFinite, FS_AddElement
<1> QED
  BY <1>1, <1>2, HeldFinite DEF STypeOK, SlotsCounted, TryAcquire

\* _release() gives back the slot of a live token; on any other it does nothing.
LEMMA GiveSlot ==
  ASSUME STypeOK, SlotsCounted, NEW c \in Clients, Release(c)
  PROVE  /\ \/ c \in Held /\ Held' = Held \ {c}
            \/ c \notin Held /\ Held' = Held /\ UNCHANGED sActive
         /\ sActive' = Cardinality(Held') /\ sActive' \in 0 .. SessionLimit
         /\ sToken' \in [Clients -> {"none", "held", "released"}]
         /\ sToken'[c] # "held" /\ \A d \in Clients : d # c => sToken'[d] = sToken[d]
<1> USE ServingLimit
<1>1. CASE sToken[c] # "held"
  BY <1>1 DEF STypeOK, SlotsCounted, Held, Release, sPool
<1>2. CASE sToken[c] = "held"
  <2>1. Held' = Held \ {c} /\ c \in Held
    BY <1>2 DEF STypeOK, Held, Release
  <2>2. Cardinality(Held') = Cardinality(Held) - 1 /\ Cardinality(Held) # 0
    BY <2>1, HeldFinite, FS_RemoveElement, FS_EmptySet
  <2> QED
    BY <1>2, <2>1, <2>2, HeldFinite DEF STypeOK, SlotsCounted, Release
<1> QED
  BY <1>1, <1>2

\* A step that touches neither the counter nor a token.
LEMMA SameSlots ==
  ASSUME STypeOK, SlotsCounted, UNCHANGED sPool
  PROVE  /\ Held' = Held /\ sActive' = Cardinality(Held')
         /\ sActive' \in 0 .. SessionLimit
         /\ sToken' \in [Clients -> {"none", "held", "released"}]
         /\ sToken' = sToken
BY DEF STypeOK, SlotsCounted, Held, sPool

-----------------------------------------------------------------------------
(* The inductive invariant *)

\* Nobody holds anything at the start.
LEMMA ServingInit ==
  SInit => ServingInv
<1> SUFFICES ASSUME SInit PROVE ServingInv
  OBVIOUS
<1>1. Held = {}
  BY DEF SInit, Held
<1>2. SlotsCounted
  BY <1>1, FS_EmptySet DEF SInit, SlotsCounted
<1>3. STypeOK
  BY ServingLimit DEF SInit, STypeOK
<1>4. UsersAreCounted
  BY DEF SInit, UsersAreCounted, Managed
<1> QED
  BY <1>2, <1>3, <1>4 DEF ServingInv

\* Every way out leaves nothing behind.
LEMMA ExitKeeps ==
  ASSUME ServingInv, NEW c \in Clients, Exit(c)
  PROVE  ServingInv'
<1> USE DEF ServingInv, Exit, SGoto, sMgr
<1>1. Release(c)
  OBVIOUS
<1>2. STypeOK'
  BY <1>1, GiveSlot DEF STypeOK
<1>3. SlotsCounted'
  BY <1>1, GiveSlot DEF STypeOK, SlotsCounted
<1>4. UsersAreCounted'
  BY <1>1, GiveSlot, ServingNobody DEF STypeOK, UsersAreCounted, Managed
<1> QED
  BY <1>2, <1>3, <1>4

\* A request registers with the managers of S and goes on, or fails and gives its slot
\* back.
LEMMA PrepareKeeps ==
  ASSUME ServingInv, NEW c \in Clients, sPc[c] \in {"setup", "enter"}, NEW S \in SUBSET {c},
         sState["tts"] = "none" \/ c \in S, Prepare(c, S)
  PROVE  ServingInv'
<1>1. CASE Exit(c)
  BY <1>1, ExitKeeps
<1>2. CASE /\ SGoto(c, IF sKind[c] \in Streaming THEN "handed" ELSE "lock")
           /\ sInflight' = sInflight \cup S
           /\ UNCHANGED <<sKind, sPool, sMgr, sWs, sKick, sThread, sStream, sCoord>>
  BY <1>2, SameSlots DEF ServingInv, STypeOK, SlotsCounted, UsersAreCounted, SGoto,
     sPool, sMgr, sCoord
<1>3. CASE /\ Release(c) /\ SGoto(c, "over")
           /\ UNCHANGED <<sKind, sMgr, sUse, sCoord>>
  BY <1>3, GiveSlot DEF ServingInv, STypeOK, SlotsCounted, UsersAreCounted, SGoto,
     sUse, sMgr, sCoord
<1> QED
  BY <1>1, <1>2, <1>3 DEF Prepare

\* Every step of a request, a reload or a disconnect keeps the invariant.
LEMMA ServingStep ==
  ASSUME ServingInv, [SNext]_sVars
  PROVE  ServingInv'
<1> USE DEF ServingInv, SGoto, sPool, sCoord, sMgr, sUse
<1>1. ASSUME NEW c \in Clients, NEW k \in KindsOf[c], Arrive(c, k)
      PROVE ServingInv'
  <2>1. CASE Exit(c)
    BY <2>1, ExitKeeps
  <2>2. CASE /\ TryAcquire(c) /\ SGoto(c, "setup")
             /\ sKind' = [sKind EXCEPT ![c] = k]
             /\ UNCHANGED <<sMgr, sUse, sCoord>>
    <3>1. k \in TtsKinds \cup AsrKinds
      BY ServingKinds
    <3>2. sToken[c] # "held"
      BY <1>1 DEF Arrive, SlotsCounted
    <3> QED
      BY <2>2, <3>1, <3>2, TakeSlot DEF STypeOK, SlotsCounted, UsersAreCounted
  <2> QED
    BY <1>1, <2>1, <2>2 DEF Arrive
<1>2. ASSUME NEW c \in Clients, NEW k \in KindsOf[c], Refuse(c, k)
      PROVE ServingInv'
  BY <1>2, ExitKeeps DEF Refuse
<1>3. ASSUME NEW c \in Clients, EnsureStarted(c)
      PROVE ServingInv'
  <2>1. CASE sState["tts"] = "none"
    BY <1>3, <2>1, PrepareKeeps DEF EnsureStarted
  <2>2. CASE sState["tts"] = "ready"
    BY <1>3, <2>2, SameSlots DEF EnsureStarted, STypeOK, SlotsCounted, UsersAreCounted
  <2>3. CASE sState["tts"] = "init"
    BY <1>3, <2>3, SameSlots DEF EnsureStarted, STypeOK, SlotsCounted, UsersAreCounted
  <2>4. CASE sState["tts"] \notin {"none", "ready", "init"}
    BY <1>3, <2>4, ExitKeeps DEF EnsureStarted
  <2> QED
    BY <2>1, <2>2, <2>3, <2>4
<1>4. ASSUME NEW c \in Clients, Unsupported(c)
      PROVE ServingInv'
  BY <1>4, ExitKeeps DEF Unsupported
<1>5. ASSUME NEW c \in Clients, EnterManager(c)
      PROVE ServingInv'
  BY <1>5, ExitKeeps, PrepareKeeps DEF EnterManager
<1>6. ASSUME NEW c \in Clients, ExitOuter(c)
      PROVE ServingInv'
  BY <1>6, ExitKeeps DEF ExitOuter
<1>7. ASSUME NEW c \in Clients, Begin(c)
      PROVE ServingInv'
  BY <1>7, SameSlots DEF Begin, STypeOK, SlotsCounted, UsersAreCounted
<1>8. ASSUME NEW c \in Clients, NeverStarted(c)
      PROVE ServingInv'
  BY <1>8, SameSlots DEF NeverStarted, STypeOK, SlotsCounted, UsersAreCounted
<1>9. ASSUME NEW c \in Clients, Embed(c)
      PROVE ServingInv'
  BY <1>9, SameSlots DEF Embed, STypeOK, SlotsCounted, UsersAreCounted, Managed
<1>10. ASSUME NEW c \in Clients, EnterAsr(c)
      PROVE ServingInv'
  <2>1. CASE Exit(c)
    BY <2>1, ExitKeeps
  <2>2. CASE "asr" \in sLoaded
    <3>1. UsersAreCounted'
      BY <1>10, <2>2, SameSlots DEF EnterAsr, STypeOK, UsersAreCounted, Managed
    <3>2. sInflight' \subseteq Clients
      BY <1>10, <2>2 DEF EnterAsr, STypeOK
    <3>3. STypeOK'
      BY <1>10, <2>2, <3>2, SameSlots DEF EnterAsr, STypeOK
    <3> QED
      BY <1>10, <2>2, <3>1, <3>3, SameSlots DEF EnterAsr, STypeOK, SlotsCounted
  <2> QED
    BY <1>10, <2>1, <2>2 DEF EnterAsr
<1>11. ASSUME NEW c \in Clients, OpenWs(c)
      PROVE ServingInv'
  <2>1. CASE Exit(c)
    BY <2>1, ExitKeeps
  <2>2. CASE "asr" \in sLoaded
    <3>1. Registers(c, {"asr"}) \subseteq {"tts", "asr"} \X Clients
      BY DEF Registers
    <3>2. UsersAreCounted'
      BY <1>11, <2>2, SameSlots DEF OpenWs, STypeOK, UsersAreCounted, Managed
    <3> QED
      BY <1>11, <2>2, <3>1, <3>2, SameSlots DEF OpenWs, STypeOK, SlotsCounted
  <2> QED
    BY <1>11, <2>1, <2>2 DEF OpenWs
<1>12. ASSUME NEW c \in Clients, OpenV2V(c)
      PROVE ServingInv'
  BY <1>12, SameSlots DEF OpenV2V, STypeOK, SlotsCounted, UsersAreCounted, Managed, Registers
<1>13. ASSUME NEW c \in Clients, Lock(c)
      PROVE ServingInv'
  BY <1>13, SameSlots, ServingNobody DEF Lock, STypeOK, SlotsCounted, UsersAreCounted, Slot, Other
<1>14. ASSUME NEW c \in Clients, Use(c)
      PROVE ServingInv'
  <2>1. CASE Exit(c)
    BY <2>1, ExitKeeps
  <2>2. CASE ~Exit(c)
    BY <1>14, <2>2, SameSlots DEF Use, STypeOK, SlotsCounted, UsersAreCounted
  <2> QED
    BY <2>1, <2>2
<1>15. ASSUME NEW c \in Clients, Synthesize(c)
      PROVE ServingInv'
  BY <1>15, SameSlots DEF Synthesize, STypeOK, SlotsCounted, UsersAreCounted
<1>16. ASSUME NEW c \in Clients, Played(c)
      PROVE ServingInv'
  BY <1>16, ExitKeeps DEF Played
<1>17. ASSUME NEW c \in Clients, CreateAsrStream(c)
      PROVE ServingInv'
  BY <1>17, SameSlots DEF CreateAsrStream, STypeOK, SlotsCounted, UsersAreCounted, Managed
<1>18. ASSUME NEW c \in Clients, Kicked(c)
      PROVE ServingInv'
  BY <1>18, ExitKeeps DEF Kicked
<1>19. ASSUME NEW c \in Clients, ThreadEnds(c)
      PROVE ServingInv'
  BY <1>19, SameSlots DEF ThreadEnds, STypeOK, SlotsCounted, UsersAreCounted
<1>20. ASSUME NEW c \in Clients, Disconnect(c)
      PROVE ServingInv'
  BY <1>20, ExitKeeps DEF Disconnect
<1>21. ASSUME NEW c \in Clients, FeedAsr(c)
      PROVE ServingInv'
  BY <1>21, SameSlots DEF FeedAsr, STypeOK, SlotsCounted, UsersAreCounted
<1>22. ASSUME NEW c \in Clients, ConfigV2V(c)
      PROVE ServingInv'
  <2>1. CASE Release(c) /\ SGoto(c, "over")
             /\ sWs' = {h \in sWs : h[2] # c} /\ sKick' = sKick \ {c}
             /\ UNCHANGED <<sKind, sMgr, sInflight, sThread, sStream, sCoord>>
    BY <2>1, GiveSlot DEF STypeOK, SlotsCounted, UsersAreCounted
  <2>2. CASE SGoto(c, "session") /\ UNCHANGED <<sKind, sPool, sMgr, sUse, sCoord>>
    BY <2>2, SameSlots DEF STypeOK, SlotsCounted, UsersAreCounted
  <2> QED
    BY <1>22, <2>1, <2>2 DEF ConfigV2V
<1>23. ASSUME NEW c \in Clients, EndWs(c)
      PROVE ServingInv'
  BY <1>23, ExitKeeps DEF EndWs
<1>24. ASSUME NEW s \in {"tts", "asr"}, Drain(s)
      PROVE ServingInv'
  BY <1>24, SameSlots DEF Drain, STypeOK, SlotsCounted, UsersAreCounted
<1>25. ASSUME NEW s \in {"tts", "asr"}, Swap(s)
      PROVE ServingInv'
  BY <1>25, SameSlots DEF Swap, STypeOK, SlotsCounted, UsersAreCounted
<1>26. ASSUME UNCHANGED sVars
      PROVE ServingInv'
  BY <1>26, SameSlots DEF sVars, STypeOK, SlotsCounted, UsersAreCounted
<1> HIDE DEF ServingInv, SGoto, sPool, sCoord, sMgr, sUse
<1> QED
  BY <1>1, <1>2, <1>3, <1>4, <1>5, <1>6, <1>7, <1>8, <1>9, <1>10, <1>11, <1>12, <1>13, <1>14,
     <1>15, <1>16, <1>17, <1>18, <1>19, <1>20, <1>21, <1>22, <1>23, <1>24, <1>25, <1>26
  DEF SNext, Handler

\* The invariant of every behaviour; fairness plays no part.
THEOREM ServingInvariant == SSpec => []ServingInv
<1>1. SInit => ServingInv
  BY ServingInit
<1>2. ServingInv /\ [SNext]_sVars => ServingInv'
  BY ServingStep
<1> QED
  BY <1>1, <1>2, PTL DEF SSpec

\* The handlers' state keeps its types; the counter of SessionLimiter stays
\* between zero and its limit.
THEOREM ServingTypeCorrect == SSpec => []STypeOK
<1>1. ServingInv => STypeOK
  BY DEF ServingInv
<1> QED
  BY <1>1, ServingInvariant, PTL

\* A request that holds a TTS backend from a manager is in the count the drain
\* waits for, and a handler that has ended has left nothing behind.
THEOREM UsersCorrect == SSpec => []UsersAreCounted
<1>1. ServingInv => UsersAreCounted
  BY DEF ServingInv
<1> QED
  BY <1>1, ServingInvariant, PTL
-----------------------------------------------------------------------------
(* SessionLimiter implements SlotPool *)

\* What any step does to the pool: one request that is just arriving takes a
\* slot, one handler releases, or the pool is not touched.
LEMMA PoolMoves ==
  ASSUME [SNext]_sVars
  PROVE  \/ \E c \in Clients : sPc[c] = "idle" /\ TryAcquire(c)
         \/ \E c \in Clients : Release(c)
         \/ UNCHANGED sPool
<1> DEFINE P == \/ \E c \in Clients : sPc[c] = "idle" /\ TryAcquire(c)
                \/ \E c \in Clients : Release(c)
                \/ UNCHANGED sPool
<1>1. ASSUME NEW c \in Clients, Exit(c) PROVE P
  BY <1>1 DEF Exit
<1>2. ASSUME NEW c \in Clients, NEW k \in KindsOf[c], Arrive(c, k) \/ Refuse(c, k) PROVE P
  BY <1>1, <1>2 DEF Arrive, Refuse
<1>3. ASSUME NEW c \in Clients, NEW S, Prepare(c, S) PROVE P
  BY <1>1, <1>3 DEF Prepare
<1>4. ASSUME NEW c \in Clients, EnsureStarted(c) PROVE P
  BY <1>1, <1>3, <1>4 DEF EnsureStarted
<1>5. ASSUME NEW c \in Clients, EnterManager(c) \/ EnterAsr(c) \/ OpenWs(c) \/ OpenV2V(c) PROVE P
  BY <1>1, <1>3, <1>5 DEF EnterManager, EnterAsr, OpenWs, OpenV2V
<1>6. ASSUME NEW c \in Clients,
             Unsupported(c) \/ ExitOuter(c) \/ Played(c) \/ Kicked(c) \/ Disconnect(c) \/ EndWs(c)
      PROVE P
  BY <1>1, <1>6 DEF Unsupported, ExitOuter, Played, Kicked, Disconnect, EndWs
<1>7. ASSUME NEW c \in Clients,
             Begin(c) \/ NeverStarted(c) \/ Embed(c) \/ Lock(c) \/ Synthesize(c)
               \/ CreateAsrStream(c) \/ ThreadEnds(c) \/ FeedAsr(c)
      PROVE P
  BY <1>7 DEF Begin, NeverStarted, Embed, Lock, Synthesize, CreateAsrStream, ThreadEnds, FeedAsr
<1>8. ASSUME NEW c \in Clients, Use(c) PROVE P
  BY <1>1, <1>8 DEF Use
<1>9. ASSUME NEW c \in Clients, ConfigV2V(c) PROVE P
  BY <1>9 DEF ConfigV2V
<1>10. ASSUME NEW s \in {"tts", "asr"}, Drain(s) \/ Swap(s) PROVE P
  BY <1>10 DEF Drain, Swap
<1>11. ASSUME UNCHANGED sVars PROVE P
  BY <1>11 DEF sVars, sPool
<1> HIDE DEF P
<1>12. P
  BY <1>2, <1>4, <1>5, <1>6, <1>7, <1>8, <1>9, <1>10, <1>11 DEF SNext, Handler
<1> QED
  BY <1>12 DEF P

\* The instance's Cardinality is the one of FiniteSets.
LEMMA PoolCardinality ==
  ASSUME NEW S PROVE Pool!Cardinality(S) = Cardinality(S)
BY DEF Pool!Cardinality, Cardinality, Pool!IsFiniteSet, IsFiniteSet

\* Every step is a Take, a Give or a stutter of the pool.
LEMMA PoolStep ==
  ASSUME ServingInv, [SNext]_sVars
  PROVE  [Pool!Next]_<<Held, sActive>>
<1>1. ASSUME NEW c \in Clients, sPc[c] = "idle", TryAcquire(c)
      PROVE Pool!Take(c)
  BY <1>1, TakeSlot, PoolCardinality DEF ServingInv, SlotsCounted, Pool!Take, Held
<1>2. ASSUME NEW c \in Clients, Release(c)
      PROVE Pool!Give(c) \/ UNCHANGED <<Held, sActive>>
  BY <1>2, GiveSlot, PoolCardinality DEF ServingInv, Pool!Give, Held
<1>3. ASSUME UNCHANGED sPool
      PROVE UNCHANGED <<Held, sActive>>
  BY <1>3 DEF sPool, Held
<1> QED
  BY PoolMoves, <1>1, <1>2, <1>3 DEF Pool!Next

\* SlotPool is implemented: whatever the endpoints, the reloads and the
\* disconnects do, no slot of SessionLimiter is counted twice or given out
\* twice, and none is taken beyond the limit.
THEOREM PoolImplemented == SSpec => PoolSpec
<1>1. SInit => Pool!Init
  BY DEF SInit, Pool!Init
<1>2. ServingInv /\ [SNext]_sVars => [Pool!Next]_<<Held, sActive>>
  BY PoolStep
<1> QED
  BY <1>1, <1>2, ServingInvariant, PTL DEF SSpec, PoolSpec, Pool!Spec, Held

-----------------------------------------------------------------------------
(* TtsStream *)

Playing(p) == pPc[p] \in {"wait", "yield"}

\* How many chunks of sentence i the generator has taken: what its thread has put, less
\* what is still in the queue.
Nones(p, i) == IF pJob[p][i] = "over" THEN 1 ELSE 0
Taken(p, i) == (pMade[p][i] + Nones(p, i)) - Len(pQueue[p][i])

PlayTypes ==
  /\ pWorkers \in Nat
  /\ pPc \in [Players -> {"off", "wait", "yield", "end", "cut"}]
  /\ pLen \in [Players -> 0 .. Sentences] /\ pCur \in [Players -> Nat] /\ pNext \in [Players -> Nat]
  /\ pWindow \in [Players -> Nat] /\ pCancel \in [Players -> BOOLEAN]
  /\ pJob \in [Players -> [Idx -> {"none", "queued", "run", "over"}]]
  /\ pQueue \in [Players -> [Idx -> Seq(Nat)]]
  /\ pMade \in [Players -> [Idx -> 0 .. MaxChunks]]
  /\ pSent \in [Players -> Seq(Idx \X (1 .. MaxChunks))]

\* The chunks of sentence i that are not taken are in its queue, in order, and the None
\* is behind them once the thread is over; the sentences before the current one are over
\* and taken, the ones behind it not touched.
QueueOf(p, i) ==
  /\ Taken(p, i) \in 0 .. pMade[p][i]
  /\ \A j \in 1 .. Len(pQueue[p][i]) :
       pQueue[p][i][j] = IF j = Len(pQueue[p][i]) /\ pJob[p][i] = "over" THEN 0 ELSE Taken(p, i) + j
  /\ i > pCur[p] => Taken(p, i) = 0
  /\ i < pCur[p] => pJob[p][i] = "over" /\ Taken(p, i) = pMade[p][i]

\* Sentences are submitted in order.
SubmitOf(p) ==
  /\ pCur[p] < pLen[p] /\ pNext[p] <= pLen[p]
  /\ \A i \in Idx : i >= pNext[p] => pJob[p][i] = "none"
  /\ \A i \in Idx : pJob[p][i] = "none" => pMade[p][i] = 0
  /\ p \in LegacyPlayers => pNext[p] = pCur[p] + 1 /\ pWindow[p] = 0

\* What went out is what has been taken.
SentOf(p) ==
  \A x \in Idx \X (1 .. MaxChunks) :
    (\E n \in 1 .. Len(pSent[p]) : pSent[p][n] = x) <=> x[2] <= Taken(p, x[1])

OrderOf(p) == \A a, b \in 1 .. Len(pSent[p]) : a < b => Before(pSent[p][a], pSent[p][b])

FreshOf(p) ==
  /\ pSent[p] = <<>> /\ pCur[p] = 0 /\ pNext[p] = 0
  /\ \A i \in Idx : pJob[p][i] = "none" /\ pMade[p][i] = 0 /\ pQueue[p][i] = <<>>

OverOf(p) ==
  /\ \A i \in Idx : pJob[p][i] \in {"none", "over"}
  /\ \A x \in Idx \X (1 .. MaxChunks) :
       (\E n \in 1 .. Len(pSent[p]) : pSent[p][n] = x) <=> x[2] <= pMade[p][x[1]]

PlayOf(p) ==
  /\ OrderOf(p)
  /\ Playing(p) => SubmitOf(p) /\ SentOf(p) /\ \A i \in Idx : QueueOf(p, i)
  /\ pPc[p] = "off" => FreshOf(p)
  /\ (pPc[p] = "end" /\ ~pCancel[p]) => OverOf(p)

PlayInv == PlayTypes /\ \A p \in Players : PlayOf(p)

-----------------------------------------------------------------------------
\* The invariant implies the property.
LEMMA PlayOrder == PlayInv => WireOrder
<1> SUFFICES ASSUME PlayInv, NEW p \in Players
             PROVE  /\ \A a, b \in DOMAIN pSent[p] : a < b => Before(pSent[p][a], pSent[p][b])
                    /\ pPc[p] = "end" /\ ~pCancel[p] =>
                         {pSent[p][n] : n \in DOMAIN pSent[p]} =
                         {<<i, n>> : i \in Idx, n \in 1 .. MaxChunks} \cap
                         {x \in Idx \X (1 .. MaxChunks) : x[2] <= pMade[p][x[1]]}
  BY DEF WireOrder
<1>1. pSent[p] \in Seq(Idx \X (1 .. MaxChunks)) /\ DOMAIN pSent[p] = 1 .. Len(pSent[p])
      /\ \A n \in 1 .. Len(pSent[p]) : pSent[p][n] \in Idx \X (1 .. MaxChunks)
  <2>1. pSent[p] \in Seq(Idx \X (1 .. MaxChunks))
    BY DEF PlayInv, PlayTypes
  <2> QED
    BY <2>1, LenProperties, ElementOfSeq
<1>2. PlayOf(p)
  BY DEF PlayInv
<1>3. ASSUME pPc[p] = "end", ~pCancel[p]
      PROVE  {pSent[p][n] : n \in DOMAIN pSent[p]} =
             {<<i, n>> : i \in Idx, n \in 1 .. MaxChunks} \cap
             {x \in Idx \X (1 .. MaxChunks) : x[2] <= pMade[p][x[1]]}
  <2>1. OverOf(p)
    BY <1>2, <1>3 DEF PlayOf
  <2>2. {<<i, n>> : i \in Idx, n \in 1 .. MaxChunks} = Idx \X (1 .. MaxChunks)
    OBVIOUS
  <2> DEFINE A == {pSent[p][n] : n \in DOMAIN pSent[p]}
             B == {x \in Idx \X (1 .. MaxChunks) : x[2] <= pMade[p][x[1]]}
  <2>3. \A x \in A : x \in Idx \X (1 .. MaxChunks)
    BY <1>1
  <2>4. \A x \in Idx \X (1 .. MaxChunks) : x \in A <=> x \in B
    <3> TAKE x \in Idx \X (1 .. MaxChunks)
    <3>1. x \in A <=> \E n \in 1 .. Len(pSent[p]) : pSent[p][n] = x
      BY <1>1
    <3>2. x \in B <=> x[2] <= pMade[p][x[1]]
      OBVIOUS
    <3>3. (\E n \in 1 .. Len(pSent[p]) : pSent[p][n] = x) <=> x[2] <= pMade[p][x[1]]
      BY <2>1 DEF OverOf
    <3> HIDE DEF A, B
    <3> QED
      BY <3>1, <3>2, <3>3
  <2>5. A = B
    BY <2>3, <2>4
  <2> QED
    BY <2>2, <2>5
<1> QED
  BY <1>1, <1>2, <1>3 DEF PlayOf, OrderOf

\* No stream has begun.
LEMMA PlayStart == PInit => PlayInv
<1> SUFFICES ASSUME PInit PROVE PlayInv
  OBVIOUS
<1> USE PlaySizes
<1>1. PlayTypes
  BY DEF PInit, PlayTypes
<1>2. ASSUME NEW p \in Players PROVE PlayOf(p)
  BY DEF PInit, PlayOf, OrderOf, Playing, FreshOf
<1> QED
  BY <1>1, <1>2 DEF PlayInv

\* A step of the stream p leaves what holds of the others.
LEMMA OneStreamMoves ==
  ASSUME PlayInv, NEW p \in Players, PlayTypes', PlayOf(p)',
         \A q \in Players \ {p} :
           /\ pPc'[q] = pPc[q] /\ pLen'[q] = pLen[q] /\ pCur'[q] = pCur[q] /\ pNext'[q] = pNext[q]
           /\ pWindow'[q] = pWindow[q] /\ pJob'[q] = pJob[q] /\ pQueue'[q] = pQueue[q]
           /\ pMade'[q] = pMade[q] /\ pSent'[q] = pSent[q] /\ pCancel'[q] = pCancel[q]
  PROVE  PlayInv'
<1>1. ASSUME NEW q \in Players \ {p} PROVE PlayOf(q)'
  <2>1. PlayOf(q)
    BY DEF PlayInv
  <2>2. /\ pPc'[q] = pPc[q] /\ pLen'[q] = pLen[q] /\ pCur'[q] = pCur[q] /\ pNext'[q] = pNext[q]
        /\ pWindow'[q] = pWindow[q] /\ pJob'[q] = pJob[q] /\ pQueue'[q] = pQueue[q]
        /\ pMade'[q] = pMade[q] /\ pSent'[q] = pSent[q] /\ pCancel'[q] = pCancel[q]
    OBVIOUS
  <2>3. \A i \in Idx : Taken(q, i)' = Taken(q, i)
    BY <2>2 DEF Taken, Nones
  <2>4. (Playing(q)' <=> Playing(q)) /\ (OrderOf(q) => OrderOf(q)') /\ (SubmitOf(q) => SubmitOf(q)')
    BY <2>2 DEF Playing, OrderOf, SubmitOf
  <2>5. (FreshOf(q) => FreshOf(q)') /\ (OverOf(q) => OverOf(q)')
    BY <2>2 DEF FreshOf, OverOf
  <2>6. SentOf(q) => SentOf(q)'
    BY <2>2, <2>3 DEF SentOf
  <2>7. ASSUME NEW i \in Idx, QueueOf(q, i) PROVE QueueOf(q, i)'
    BY <2>2, <2>3, <2>7 DEF QueueOf
  <2> QED
    BY <2>1, <2>2, <2>4, <2>5, <2>6, <2>7 DEF PlayOf
<1> QED
  BY <1>1 DEF PlayInv

\* What a stream is made of, for one stream.
LEMMA StreamTypes ==
  ASSUME PlayInv, NEW p \in Players
  PROVE  /\ pPc[p] \in {"off", "wait", "yield", "end", "cut"}
         /\ pLen[p] \in 0 .. Sentences /\ pCur[p] \in Nat /\ pNext[p] \in Nat /\ pWindow[p] \in Nat
         /\ pCancel[p] \in BOOLEAN /\ Sentences \in Nat /\ MaxChunks \in Nat
         /\ pJob[p] \in [Idx -> {"none", "queued", "run", "over"}]
         /\ pQueue[p] \in [Idx -> Seq(Nat)]
         /\ pMade[p] \in [Idx -> 0 .. MaxChunks]
         /\ pSent[p] \in Seq(Idx \X (1 .. MaxChunks))
         /\ \A i \in Idx : i \in Nat /\ i < Sentences
         /\ \A i \in Nat : i < Sentences => i \in Idx
<1>1. \A i \in Idx : i \in Nat /\ i < Sentences
  BY PlaySizes DEF Idx
<1>2. \A i \in Nat : i < Sentences => i \in Idx
  BY PlaySizes DEF Idx
<1> QED
  BY <1>1, <1>2, PlaySizes DEF PlayInv, PlayTypes

\* The next sentence is submitted, or none.
Submits(p) ==
  \/ UNCHANGED <<pJob, pNext>>
  \/ /\ pNext[p] < pLen[p]
     /\ pJob' = [pJob EXCEPT ![p][pNext[p]] = "queued"]
     /\ pNext' = [pNext EXCEPT ![p] = @ + 1]

\* What that leaves.
LEMMA SubmitsNext ==
  ASSUME PlayInv, NEW p \in Players, Playing(p), Submits(p)
  PROVE  /\ pJob' \in [Players -> [Idx -> {"none", "queued", "run", "over"}]]
         /\ pNext' \in [Players -> Nat]
         /\ \A q \in Players \ {p} : pJob'[q] = pJob[q] /\ pNext'[q] = pNext[q]
         /\ \A i \in Idx : \/ pJob'[p][i] = pJob[p][i]
                           \/ pJob[p][i] = "none" /\ pJob'[p][i] = "queued"
         /\ \A i \in Idx : i >= pNext'[p] => pJob'[p][i] = "none"
         /\ pNext'[p] <= pLen[p]
         /\ pNext'[p] = pNext[p] \/ (pNext[p] < pLen[p] /\ pNext'[p] = pNext[p] + 1)
<1>0. /\ pJob \in [Players -> [Idx -> {"none", "queued", "run", "over"}]]
         /\ pNext \in [Players -> Nat]
      /\ SubmitOf(p)
  BY DEF PlayInv, PlayTypes, PlayOf
<1>1. CASE UNCHANGED <<pJob, pNext>>
  BY <1>0, <1>1 DEF SubmitOf
<1>2. CASE ~UNCHANGED <<pJob, pNext>>
  <2> DEFINE k == pNext[p]
  <2>1. k \in Idx /\ k < pLen[p] /\ k \in Nat /\ pJob[p][k] = "none"
        /\ pJob' = [pJob EXCEPT ![p][k] = "queued"] /\ pNext' = [pNext EXCEPT ![p] = k + 1]
    <3>1. k < pLen[p] /\ pJob' = [pJob EXCEPT ![p][k] = "queued"]
          /\ pNext' = [pNext EXCEPT ![p] = k + 1]
      BY <1>2 DEF Submits
    <3>2. k \in Idx /\ k \in Nat
      BY <3>1, StreamTypes
    <3> QED
      BY <1>0, <3>1, <3>2 DEF SubmitOf
  <2>2. pLen[p] \in Nat /\ \A i \in Idx : i \in Nat
    BY StreamTypes
  <2>3. /\ pNext'[p] = k + 1 /\ \A q \in Players \ {p} : pJob'[q] = pJob[q] /\ pNext'[q] = pNext[q]
        /\ \A i \in Idx : pJob'[p][i] = IF i = k THEN "queued" ELSE pJob[p][i]
        /\ pJob' \in [Players -> [Idx -> {"none", "queued", "run", "over"}]]
        /\ pNext' \in [Players -> Nat]
    <3> HIDE DEF k
    <3> QED
      BY <1>0, <2>1
  <2>4. \A i \in Idx : i >= k => pJob[p][i] = "none"
    BY <1>0 DEF SubmitOf
  <2> HIDE DEF k
  <2>5. \A i \in Idx : i >= k + 1 => pJob'[p][i] = "none"
    BY <2>1, <2>2, <2>3, <2>4
  <2>6. k = pNext[p]
    BY DEF k
  <2>7. k + 1 <= pLen[p]
    BY <2>1, <2>2
  <2> QED
    BY <2>1, <2>3, <2>5, <2>6, <2>7
<1> QED
  BY <1>1, <1>2

\* Submitting leaves what has been taken.
LEMMA TakenSame ==
  ASSUME PlayInv, NEW p \in Players, NEW i \in Idx, pMade'[p][i] = pMade[p][i],
         pQueue'[p][i] = pQueue[p][i],
         \/ pJob'[p][i] = pJob[p][i]
         \/ pJob[p][i] # "over" /\ pJob'[p][i] # "over"
  PROVE  /\ Taken(p, i)' = Taken(p, i)
         /\ \A j \in 1 .. Len(pQueue[p][i]) :
              (IF j = Len(pQueue'[p][i]) /\ pJob'[p][i] = "over" THEN 0 ELSE Taken(p, i)' + j) =
              (IF j = Len(pQueue[p][i]) /\ pJob[p][i] = "over" THEN 0 ELSE Taken(p, i) + j)
<1>1. Taken(p, i)' = Taken(p, i)
  BY DEF Taken, Nones
<1> QED
  BY <1>1

\* The server learns of its backend, the client takes a chunk, or goes away.
LEMMA QuietSteps ==
  ASSUME PlayInv, NEW p \in Players, Sent(p) \/ Watcher(p)
  PROVE  PlayInv'
<1>0. Playing(p) /\ PlayOf(p) /\ PlayTypes
  BY DEF Sent, Watcher, Playing, PlayInv
<1>1. /\ UNCHANGED <<pWorkers, pLen, pCur, pNext, pWindow, pJob, pQueue, pMade, pSent>>
      /\ pPc' \in [Players -> {"off", "wait", "yield", "end", "cut"}]
         /\ pCancel' \in [Players -> BOOLEAN]
      /\ pPc'[p] \in {"wait", "yield"} /\ \A q \in Players \ {p} : pPc'[q] = pPc[q]
         /\ pCancel'[q] = pCancel[q]
  BY <1>0 DEF Sent, Watcher, PGoto, PlayTypes, pExec
<1>2. PlayTypes'
  BY <1>0, <1>1 DEF PlayTypes
<1>3. OrderOf(p)' /\ SubmitOf(p)'
  BY <1>0, <1>1 DEF PlayOf, OrderOf, SubmitOf
<1>4. \A i \in Idx : Taken(p, i)' = Taken(p, i)
  BY <1>1 DEF Taken, Nones
<1>5. SentOf(p)'
  BY <1>0, <1>1, <1>4 DEF PlayOf, SentOf
<1>6. ASSUME NEW i \in Idx PROVE QueueOf(p, i)'
  BY <1>0, <1>1, <1>4 DEF PlayOf, QueueOf
<1>7. PlayOf(p)'
  BY <1>1, <1>3, <1>5, <1>6 DEF PlayOf
<1> QED
  BY <1>1, <1>2, <1>7, OneStreamMoves

\* A stream begins.
LEMMA OpenStep ==
  ASSUME PlayInv, NEW p \in Players, Open(p)
  PROVE  PlayInv'
<1>0. PlayOf(p) /\ PlayTypes /\ FreshOf(p) /\ pPc[p] = "off"
  BY DEF Open, PlayInv, PlayOf
<1>1. UNCHANGED <<pCur, pQueue, pMade, pSent, pCancel>>
  BY DEF Open
<1>2. OrderOf(p)'
  BY <1>0, <1>1 DEF PlayOf, OrderOf
<1>3. CASE PGoto(p, "end") /\ UNCHANGED <<pWorkers, pLen, pNext, pWindow, pJob>>
  <2>1. /\ pPc' \in [Players -> {"off", "wait", "yield", "end", "cut"}] /\ pPc'[p] = "end"
        /\ \A q \in Players \ {p} : pPc'[q] = pPc[q]
    BY <1>0, <1>3 DEF PGoto, PlayTypes
  <2>2. PlayTypes'
    BY <1>0, <1>1, <1>3, <2>1 DEF PlayTypes
  <2>3. OverOf(p)'
    BY <1>0, <1>1, <1>3, StreamTypes DEF FreshOf, OverOf
  <2>4. PlayOf(p)'
    BY <1>2, <2>1, <2>3 DEF PlayOf, Playing
  <2> QED
    BY <1>1, <1>3, <2>1, <2>2, <2>4, OneStreamMoves
<1>4. CASE ~(PGoto(p, "end") /\ UNCHANGED <<pWorkers, pLen, pNext, pWindow, pJob>>)
  <2>1. PICK n \in 1 .. (IF p \in LegacyPlayers THEN LegacySentences ELSE Sentences) :
          /\ GetExecutor
          /\ pLen' = [pLen EXCEPT ![p] = n]
          /\ pWindow' = [pWindow EXCEPT ![p] = Window(p, pWorkers', n)]
          /\ pJob' = [pJob EXCEPT ![p][0] = "queued"]
          /\ pNext' = [pNext EXCEPT ![p] = 1]
          /\ PGoto(p, "wait")
    BY <1>4 DEF Open, pExec
  <2>2. n \in 1 .. Sentences /\ 0 \in Idx
    BY <2>1, PlaySizes DEF Idx
  <2>3. /\ pWorkers' \in Nat /\ Window(p, pWorkers', n) \in Nat
        /\ p \in LegacyPlayers => Window(p, pWorkers', n) = 0
    BY <1>0, <2>1, PlayWorkers DEF GetExecutor, ResolveWorkers, Window, PlayTypes
  <2>4. PlayTypes'
    <3>1. pJob' \in [Players -> [Idx -> {"none", "queued", "run", "over"}]]
      BY <1>0, <2>1, <2>2 DEF PlayTypes
    <3>2. pLen' \in [Players -> 0 .. Sentences] /\ pNext' \in [Players -> Nat]
          /\ pWindow' \in [Players -> Nat]
      BY <1>0, <2>1, <2>2, <2>3, PlaySizes DEF PlayTypes
    <3>3. pPc' \in [Players -> {"off", "wait", "yield", "end", "cut"}]
      BY <1>0, <2>1 DEF PlayTypes, PGoto
    <3> QED
      BY <1>0, <1>1, <2>3, <3>1, <3>2, <3>3 DEF PlayTypes
  <2>5. /\ pPc'[p] = "wait" /\ pLen'[p] = n /\ pNext'[p] = 1 /\ pCur'[p] = 0
        /\ p \in LegacyPlayers => pWindow'[p] = 0
        /\ \A i \in Idx : pJob'[p][i] = IF i = 0 THEN "queued" ELSE "none"
        /\ \A i \in Idx : pMade'[p][i] = 0 /\ pQueue'[p][i] = <<>>
        /\ pSent'[p] = <<>>
    BY <1>0, <1>1, <2>1, <2>2, <2>3 DEF PlayTypes, FreshOf, PGoto
  <2>6. \A i \in Idx : Taken(p, i)' = 0
    <3> TAKE i \in Idx
    <3>1. pMade'[p][i] = 0 /\ Len(pQueue'[p][i]) = 0 /\ pJob'[p][i] # "over"
      BY <2>5
    <3> QED
      BY <3>1 DEF Taken, Nones
  <2>7. SubmitOf(p)'
    BY <2>2, <2>5, StreamTypes DEF SubmitOf
  <2>8. SentOf(p)'
    <3>1. \A x \in Idx \X (1 .. MaxChunks) : x[1] \in Idx /\ ~(x[2] <= 0)
      BY PlaySizes
    <3>2. Len(pSent'[p]) = 0
      BY <2>5
    <3> QED
      BY <2>6, <3>1, <3>2 DEF SentOf
  <2>9. ASSUME NEW i \in Idx PROVE QueueOf(p, i)'
    BY <2>5, <2>6, StreamTypes DEF QueueOf
  <2>10. PlayOf(p)'
    BY <1>2, <2>5, <2>7, <2>8, <2>9 DEF PlayOf
  <2>11. \A q \in Players \ {p} :
           /\ pPc'[q] = pPc[q] /\ pLen'[q] = pLen[q] /\ pCur'[q] = pCur[q] /\ pNext'[q] = pNext[q]
           /\ pWindow'[q] = pWindow[q] /\ pJob'[q] = pJob[q] /\ pQueue'[q] = pQueue[q]
           /\ pMade'[q] = pMade[q] /\ pSent'[q] = pSent[q] /\ pCancel'[q] = pCancel[q]
    BY <1>0, <1>1, <2>1 DEF PlayTypes, PGoto
  <2> QED
    BY <2>4, <2>10, <2>11, OneStreamMoves
<1> QED
  BY <1>3, <1>4

\* A thread of the executor begins sentence i, puts a chunk, or puts the None.
LEMMA RunSteps ==
  ASSUME PlayInv, NEW p \in Players, NEW i \in Idx,
         RunStarts(p, i) \/ RunChunk(p, i) \/ RunEnds(p, i)
  PROVE  PlayInv'
<1> DEFINE job == pJob'[p][i]
           x == IF RunChunk(p, i) THEN pMade[p][i] + 1 ELSE 0
<1>0. PlayOf(p) /\ PlayTypes /\ pJob[p][i] \in {"queued", "run"}
  BY DEF RunStarts, RunChunk, RunEnds, PlayInv
<1>1. UNCHANGED <<pWorkers, pPc, pLen, pCur, pNext, pWindow, pSent, pCancel>>
  BY DEF RunStarts, RunChunk, RunEnds, pExec
<1>2. /\ pPc[p] # "off" /\ ~(pPc[p] = "end" /\ ~pCancel[p])
  BY <1>0 DEF PlayOf, FreshOf, OverOf
<1>3. /\ pJob' \in [Players -> [Idx -> {"none", "queued", "run", "over"}]]
      /\ \A q \in Players \ {p} : pJob'[q] = pJob[q]
      /\ \A k \in Idx \ {i} : pJob'[p][k] = pJob[p][k]
      /\ pJob'[p][i] = IF RunStarts(p, i) \/ RunChunk(p, i) THEN "run" ELSE "over"
  <2>1. CASE RunStarts(p, i)
    BY <1>0, <2>1 DEF RunStarts, PlayTypes
  <2>2. CASE RunChunk(p, i)
    BY <1>0, <2>2 DEF RunChunk, PlayTypes
  <2>3. CASE RunEnds(p, i) /\ ~RunStarts(p, i) /\ ~RunChunk(p, i)
    BY <1>0, <2>3 DEF RunEnds, PlayTypes
  <2> QED
    BY <2>1, <2>2, <2>3
<1>4. /\ pMade' \in [Players -> [Idx -> 0 .. MaxChunks]]
      /\ \A q \in Players \ {p} : pMade'[q] = pMade[q]
      /\ \A k \in Idx \ {i} : pMade'[p][k] = pMade[p][k]
      /\ pMade'[p][i] = IF RunChunk(p, i) THEN pMade[p][i] + 1 ELSE pMade[p][i]
  <2>1. CASE RunChunk(p, i)
    <3>1. pMade[p][i] + 1 \in 0 .. MaxChunks
      BY <1>0, <2>1, StreamTypes DEF RunChunk, PlayTypes
    <3>2. pMade' = [pMade EXCEPT ![p][i] = pMade[p][i] + 1]
      BY <2>1 DEF RunChunk
    <3> QED
      BY <1>0, <2>1, <3>1, <3>2 DEF PlayTypes
  <2>2. CASE ~RunChunk(p, i)
    BY <1>0, <2>2 DEF RunStarts, RunEnds, PlayTypes
  <2> QED
    BY <2>1, <2>2
<1>5. pQueue[p][i] \in Seq(Nat) /\ pMade[p][i] \in Nat /\ x \in Nat
  BY StreamTypes
<1>6. /\ pQueue' \in [Players -> [Idx -> Seq(Nat)]]
      /\ \A q \in Players \ {p} : pQueue'[q] = pQueue[q]
      /\ \A k \in Idx \ {i} : pQueue'[p][k] = pQueue[p][k]
      /\ pQueue'[p][i] = IF RunStarts(p, i)
         \/ ~Playing(p) THEN pQueue[p][i] ELSE Append(pQueue[p][i], x)
  <2>1. CASE RunStarts(p, i)
    BY <1>0, <2>1 DEF RunStarts, PlayTypes
  <2>2. CASE ~RunStarts(p, i)
    <3> DEFINE u == IF Playing(p) THEN Append(pQueue[p][i], x) ELSE pQueue[p][i]
    <3>1. pQueue' = [pQueue EXCEPT ![p][i] = u]
      BY <2>2 DEF RunChunk, RunEnds, Put, Playing
    <3>2. u \in Seq(Nat)
      BY <1>5, AppendProperties
    <3>3. pQueue \in [Players -> [Idx -> Seq(Nat)]]
      BY <1>0 DEF PlayTypes
    <3> HIDE DEF u, x
    <3>4. pQueue'[p][i] = u /\ pQueue' \in [Players -> [Idx -> Seq(Nat)]]
          /\ (\A q \in Players \ {p} : pQueue'[q] = pQueue[q])
          /\ \A k \in Idx \ {i} : pQueue'[p][k] = pQueue[p][k]
      BY <3>1, <3>2, <3>3
    <3> QED
      BY <2>2, <3>4 DEF u
  <2> QED
    BY <2>1, <2>2
<1> HIDE DEF x
<1>7. PlayTypes'
  BY <1>0, <1>1, <1>3, <1>4, <1>6 DEF PlayTypes
<1>8. OrderOf(p)' /\ (Playing(p)' <=> Playing(p))
  BY <1>0, <1>1 DEF PlayOf, OrderOf, Playing
<1>9. ASSUME Playing(p) PROVE SubmitOf(p)' /\ SentOf(p)' /\ \A k \in Idx : QueueOf(p, k)'
  <2>1. SubmitOf(p) /\ SentOf(p) /\ \A k \in Idx : QueueOf(p, k)
    BY <1>0, <1>9 DEF PlayOf
  <2>2. \A k \in Idx \ {i} : Taken(p, k)' = Taken(p, k)
    BY <1>3, <1>4, <1>6 DEF Taken, Nones
  <2>3. Len(pQueue[p][i]) \in Nat /\ Taken(p, i) = pMade[p][i] - Len(pQueue[p][i])
    <3>1. Len(pQueue[p][i]) \in Nat
      BY <1>5, LenProperties
    <3>2. Nones(p, i) = 0
      BY <1>0 DEF Nones
    <3> QED
      BY <1>5, <3>1, <3>2 DEF Taken
  <2>6. ASSUME NEW k \in Idx \ {i}, QueueOf(p, k) PROVE QueueOf(p, k)'
    <3>1. pQueue'[p][k] = pQueue[p][k] /\ pMade'[p][k] = pMade[p][k] /\ pJob'[p][k] = pJob[p][k]
          /\ pCur'[p] = pCur[p] /\ Taken(p, k)' = Taken(p, k)
      BY <1>1, <1>3, <1>4, <1>6, <2>2
    <3> QED
      BY <2>6, <3>1 DEF QueueOf
  <2>4. CASE RunStarts(p, i)
    <3>1. pQueue'[p][i] = pQueue[p][i] /\ pJob'[p][i] = "run" /\ pMade'[p][i] = pMade[p][i]
      BY <1>3, <1>4, <1>6, <2>4 DEF RunStarts, RunChunk
    <3>2. Taken(p, i)' = Taken(p, i)
      BY <1>0, <3>1 DEF Taken, Nones
    <3>3. QueueOf(p, i)'
      BY <1>0, <1>1, <2>1, <3>1, <3>2 DEF QueueOf
    <3>4. \A k \in Idx \ {i} : QueueOf(p, k)'
      BY <2>1, <2>6
    <3>5. SubmitOf(p)'
      BY <1>0, <1>1, <1>3, <1>4, <2>1 DEF SubmitOf
    <3>6. SentOf(p)'
      BY <1>1, <2>1, <2>2, <3>2 DEF SentOf
    <3> QED
      BY <3>3, <3>4, <3>5, <3>6
  <2>5. CASE ~RunStarts(p, i)
    <3>1. pQueue'[p][i] = Append(pQueue[p][i], x)
      BY <1>6, <1>9, <2>5
    <3>2. /\ Len(pQueue'[p][i]) = Len(pQueue[p][i]) + 1
          /\ \A j \in 1 .. Len(pQueue[p][i]) : pQueue'[p][i][j] = pQueue[p][i][j]
          /\ pQueue'[p][i][Len(pQueue[p][i]) + 1] = x
      BY <1>5, <3>1, AppendProperties
    <3>3. pMade'[p][i] + Nones(p, i)' = pMade[p][i] + 1
      BY <1>3, <1>4, <1>5, <2>5 DEF Nones
    <3>4. Taken(p, i)' = Taken(p, i)
      <4>1. Taken(p, i)' = (pMade'[p][i] + Nones(p, i)') - Len(pQueue'[p][i])
        BY DEF Taken
      <4>2. Taken(p, i)' = (pMade[p][i] + 1) - (Len(pQueue[p][i]) + 1)
        BY <3>2, <3>3, <4>1
      <4>3. \A m, n \in Nat : (m + 1) - (n + 1) = m - n
        OBVIOUS
      <4>4. pMade[p][i] \in Nat /\ Len(pQueue[p][i]) \in Nat
        BY <1>5, <2>3
      <4>5. (pMade[p][i] + 1) - (Len(pQueue[p][i]) + 1) = pMade[p][i] - Len(pQueue[p][i])
        BY ONLY <4>3, <4>4
      <4> QED
        BY <2>3, <4>2, <4>5
    <3>5. QueueOf(p, i)'
      <4>1. /\ Taken(p, i) \in 0 .. pMade[p][i] /\ (i > pCur[p] => Taken(p, i) = 0)
               /\ ~(i < pCur[p])
            /\ \A j \in 1 .. Len(pQueue[p][i]) : pQueue[p][i][j] = Taken(p, i) + j
        BY <1>0, <2>1 DEF QueueOf
      <4>2. ASSUME NEW j \in 1 .. Len(pQueue'[p][i])
            PROVE  pQueue'[p][i][j] =
                     IF j = Len(pQueue'[p][i]) /\ pJob'[p][i] = "over" THEN 0 ELSE Taken(p, i)' + j
        <5>1. CASE j = Len(pQueue[p][i]) + 1
          <6>1. x = IF pJob'[p][i] = "over" THEN 0 ELSE Taken(p, i) + j
            <7>1. RunChunk(p, i) => pJob'[p][i] = "run" /\ x = pMade[p][i] + 1
              BY <1>3 DEF x
            <7>2. ~RunChunk(p, i) => pJob'[p][i] = "over" /\ x = 0
              BY <1>3, <2>5 DEF x
            <7>3. Taken(p, i) + j = pMade[p][i] + 1
              BY <1>5, <2>3, <5>1
            <7> QED
              BY <7>1, <7>2, <7>3
          <6> QED
            BY <3>2, <3>4, <5>1, <6>1
        <5>2. CASE j # Len(pQueue[p][i]) + 1
          <6>1. j \in 1 .. Len(pQueue[p][i]) /\ j # Len(pQueue'[p][i])
            BY <2>3, <3>2, <5>2
          <6> QED
            BY <3>2, <3>4, <4>1, <6>1
        <5> QED
          BY <5>1, <5>2
      <4>3. pMade'[p][i] \in Nat /\ pMade[p][i] <= pMade'[p][i]
        BY <1>4, <1>5
      <4>4. Taken(p, i)' \in 0 .. pMade'[p][i]
        BY <1>5, <3>4, <4>1, <4>3
      <4> QED
        BY <1>1, <3>4, <4>1, <4>2, <4>4 DEF QueueOf
    <3>6. \A k \in Idx \ {i} : QueueOf(p, k)'
      BY <2>1, <2>6
    <3>7. SubmitOf(p)'
      BY <1>0, <1>1, <1>3, <1>4, <2>1 DEF SubmitOf
    <3>8. SentOf(p)'
      BY <1>1, <2>1, <2>2, <3>4 DEF SentOf
    <3> QED
      BY <3>5, <3>6, <3>7, <3>8
  <2> QED
    BY <2>4, <2>5
<1>10. PlayOf(p)'
  BY <1>1, <1>2, <1>8, <1>9 DEF PlayOf
<1> QED
  BY <1>1, <1>3, <1>4, <1>6, <1>7, <1>10, OneStreamMoves

\* The server closes the response.
LEMMA CutStep ==
  ASSUME PlayInv, NEW p \in Players, Cut(p)
  PROVE  PlayInv'
<1>0. PlayTypes
  BY DEF PlayInv
<1>1. UNCHANGED <<pWorkers, pLen, pWindow, pJob, pMade, pCancel>>
  BY DEF Cut, pExec
<1>2. PlayTypes'
  BY <1>0, <1>1 DEF Cut, PGoto, PlayTypes
<1>3. pPc'[p] = "cut" /\ pSent'[p] = <<>>
  BY <1>0 DEF Cut, PGoto, PlayTypes
<1>4. PlayOf(p)'
  BY <1>3 DEF PlayOf, OrderOf, Playing
<1>5. \A q \in Players \ {p} :
           /\ pPc'[q] = pPc[q] /\ pCur'[q] = pCur[q] /\ pNext'[q] = pNext[q]
           /\ pQueue'[q] = pQueue[q] /\ pSent'[q] = pSent[q]
  BY <1>0 DEF Cut, PGoto, PlayTypes
<1> QED
  BY <1>1, <1>2, <1>4, <1>5, OneStreamMoves

\* What a submission leaves of the queues, and of what SubmitOf says of the jobs.
LEMMA SubmitKeeps ==
  ASSUME PlayInv, NEW p \in Players, Playing(p), Submits(p), UNCHANGED <<pMade, pLen>>
  PROVE  /\ \A i \in Idx : Nones(p, i)' = Nones(p, i)
         /\ pNext'[p] <= pLen'[p]
         /\ \A i \in Idx : i >= pNext'[p] => pJob'[p][i] = "none"
         /\ \A i \in Idx : pJob'[p][i] = "none" => pMade'[p][i] = 0
         /\ \A i \in Idx : pJob'[p][i] = "over" <=> pJob[p][i] = "over"
<1>1. /\ \A i \in Idx : \/ pJob'[p][i] = pJob[p][i]
                        \/ pJob[p][i] = "none" /\ pJob'[p][i] = "queued"
      /\ \A i \in Idx : i >= pNext'[p] => pJob'[p][i] = "none"
      /\ pNext'[p] <= pLen[p]
  BY SubmitsNext
<1>2. SubmitOf(p)
  BY DEF PlayInv, PlayOf
<1>3. \A i \in Idx : pJob'[p][i] = "over" <=> pJob[p][i] = "over"
  BY <1>1
<1>4. \A i \in Idx : Nones(p, i)' = Nones(p, i)
  BY <1>3 DEF Nones
<1>5. \A i \in Idx : pJob'[p][i] = "none" => pMade'[p][i] = 0
  BY <1>1, <1>2 DEF SubmitOf
<1> QED
  BY <1>1, <1>3, <1>4, <1>5

\* _maybe_prefetch() submits the next sentence or none; the legacy generator's does
\* nothing.
LEMMA PrefetchSubmits ==
  ASSUME PlayInv, NEW p \in Players, Playing(p), MaybePrefetch(p)
  PROVE  Submits(p) /\ (p \in LegacyPlayers => UNCHANGED <<pJob, pNext>>)
<1>1. Submits(p)
  BY DEF MaybePrefetch, Submits
<1>2. ASSUME p \in LegacyPlayers PROVE ~InWindow(p)
  <2>1. pNext[p] = pCur[p] + 1 /\ pWindow[p] = 0
    BY <1>2 DEF PlayInv, PlayOf, SubmitOf
  <2>2. pCur[p] \in Nat
    BY StreamTypes
  <2> QED
    BY <2>1, <2>2 DEF InWindow
<1> QED
  BY <1>1, <1>2 DEF MaybePrefetch

\* The generator takes a chunk and passes it on.
LEMMA TakeChunkStep ==
  ASSUME PlayInv, NEW p \in Players, TakeChunk(p)
  PROVE  PlayInv'
<1> DEFINE c == pCur[p]
           q == pQueue[p][c]
           h == Head(q)
<1>0. PlayOf(p) /\ PlayTypes /\ Playing(p) /\ SubmitOf(p) /\ SentOf(p) /\ OrderOf(p)
      /\ \A i \in Idx : QueueOf(p, i)
  BY DEF TakeChunk, PlayInv, PlayOf, Playing
<1>1. /\ UNCHANGED <<pWorkers, pLen, pCur, pWindow, pMade, pCancel>>
      /\ pPc[p] = "wait" /\ q # <<>> /\ h # 0
      /\ pQueue' = [pQueue EXCEPT ![p][c] = Tail(q)]
      /\ pSent' = [pSent EXCEPT ![p] = Append(pSent[p], <<c, h>>)]
      /\ pPc' = [pPc EXCEPT ![p] = "yield"]
  BY DEF TakeChunk, PGoto, pExec
<1>2. Submits(p) /\ (p \in LegacyPlayers => UNCHANGED <<pJob, pNext>>)
  <2>1. CASE UNCHANGED <<pJob, pNext>>
    BY <2>1 DEF Submits
  <2>2. CASE MaybePrefetch(p)
    BY <1>0, <2>2, PrefetchSubmits
  <2> QED
    BY <2>1, <2>2 DEF TakeChunk
<1>3. c \in Idx /\ c \in Nat /\ q \in Seq(Nat) /\ pMade[p][c] \in 0 .. MaxChunks
      /\ MaxChunks \in Nat
  <2>1. c \in Nat /\ c < pLen[p] /\ pLen[p] \in 0 .. Sentences
    BY <1>0, StreamTypes DEF SubmitOf
  <2>2. c \in Idx
    BY <2>1, StreamTypes
  <2> QED
    BY <2>1, <2>2, StreamTypes
<1>4. /\ \A i \in Idx : Nones(p, i)' = Nones(p, i)
      /\ pNext'[p] <= pLen'[p]
      /\ \A i \in Idx : i >= pNext'[p] => pJob'[p][i] = "none"
      /\ \A i \in Idx : pJob'[p][i] = "none" => pMade'[p][i] = 0
      /\ \A i \in Idx : pJob'[p][i] = "over" <=> pJob[p][i] = "over"
  BY <1>0, <1>1, <1>2, SubmitKeeps
<1>5. /\ pJob' \in [Players -> [Idx -> {"none", "queued", "run", "over"}]]
      /\ pNext' \in [Players -> Nat]
      /\ \A r \in Players \ {p} : pJob'[r] = pJob[r] /\ pNext'[r] = pNext[r]
  BY <1>0, <1>2, SubmitsNext
<1>6. /\ Len(q) \in Nat \ {0} /\ Tail(q) \in Seq(Nat) /\ Len(Tail(q)) = Len(q) - 1
      /\ \A j \in 1 .. Len(Tail(q)) : Tail(q)[j] = q[j + 1]
      /\ h = q[1]
  <2> HIDE DEF q
  <2>1. q \in Seq(Nat) /\ q # <<>>
    BY <1>1, <1>3
  <2>2. Tail(q) \in Seq(Nat) /\ Len(Tail(q)) = Len(q) - 1
        /\ \A j \in 1 .. Len(Tail(q)) : Tail(q)[j] = q[j + 1]
    BY <2>1, HeadTailProperties
  <2>3. Len(q) \in Nat /\ Len(q) # 0
    BY <2>1, EmptySeq, LenProperties
  <2> QED
    BY <2>2, <2>3
<1>7. /\ \A j \in 1 .. Len(q) : q[j] = IF j = Len(q)
         /\ pJob[p][c] = "over" THEN 0 ELSE Taken(p, c) + j
      /\ Taken(p, c) \in 0 .. pMade[p][c]
      /\ Taken(p, c) = (pMade[p][c] + Nones(p, c)) - Len(q)
      /\ Nones(p, c) = IF pJob[p][c] = "over" THEN 1 ELSE 0
  BY <1>0, <1>3 DEF QueueOf, Taken, Nones
<1>8. h = Taken(p, c) + 1 /\ h \in 1 .. pMade[p][c]
  <2>1. h = IF 1 = Len(q) /\ pJob[p][c] = "over" THEN 0 ELSE Taken(p, c) + 1
    <3>1. 1 \in 1 .. Len(q)
      BY <1>6
    <3>2. q[1] = IF 1 = Len(q) /\ pJob[p][c] = "over" THEN 0 ELSE Taken(p, c) + 1
      BY <1>7, <3>1
    <3> QED
      BY <1>6, <3>2
  <2>2. h = Taken(p, c) + 1 /\ ~(1 = Len(q) /\ pJob[p][c] = "over")
    BY <1>1, <2>1
  <2> HIDE DEF c, q, h
  <2>3. CASE pJob[p][c] = "over"
    <3>0. Taken(p, c) = (pMade[p][c] + 1) - Len(q)
      BY <1>7, <2>3
    <3>4. Len(q) \in Nat \ {0} /\ Len(q) # 1
      BY <1>6, <2>2, <2>3
    <3>5. Len(q) \in Nat /\ Len(q) >= 2
      <4> \A n \in Nat \ {0} : n # 1 => n >= 2
        OBVIOUS
      <4> QED
        BY <3>4
    <3>1. Len(q) \in Nat /\ Len(q) >= 2 /\ Taken(p, c) = (pMade[p][c] + 1) - Len(q)
      BY <3>0, <3>5
    <3>2. Taken(p, c) + 1 <= pMade[p][c]
      BY <1>3, <3>1
    <3> QED
      BY <1>3, <1>7, <2>2, <3>2
  <2>4. CASE pJob[p][c] # "over"
    <3>1. Len(q) \in Nat /\ Len(q) >= 1 /\ Taken(p, c) = (pMade[p][c] + 0) - Len(q)
      BY <1>6, <1>7, <2>4
    <3>2. Taken(p, c) + 1 <= pMade[p][c]
      BY <1>3, <3>1
    <3> QED
      BY <1>3, <1>7, <2>2, <3>2
  <2> QED
    BY <2>3, <2>4
<1> HIDE DEF q, h
<1>9. /\ pQueue'[p][c] = Tail(q) /\ \A i \in Idx \ {c} : pQueue'[p][i] = pQueue[p][i]
      /\ pQueue' \in [Players -> [Idx -> Seq(Nat)]]
      /\ \A r \in Players \ {p} : pQueue'[r] = pQueue[r]
  <2>1. pQueue \in [Players -> [Idx -> Seq(Nat)]]
    BY <1>0 DEF PlayTypes
  <2> HIDE DEF c
  <2> QED
    BY <1>1, <1>3, <1>6, <2>1
<1>10. /\ Taken(p, c)' = h /\ h = Taken(p, c) + 1
       /\ \A i \in Idx \ {c} : Taken(p, i)' = Taken(p, i)
  <2>1. \A i \in Idx : Taken(p, i)' = (pMade[p][i] + Nones(p, i)) - Len(pQueue'[p][i])
    BY <1>1, <1>4 DEF Taken
  <2>2. Taken(p, c)' = (pMade[p][c] + Nones(p, c)) - (Len(q) - 1)
    <3>1. Taken(p, c)' = (pMade[p][c] + Nones(p, c)) - Len(pQueue'[p][c])
      BY <1>1, <1>3, <2>1
    <3> QED
      BY <1>6, <1>9, <3>1
  <2>3. pMade[p][c] + Nones(p, c) \in Nat
    BY <1>3, <1>7
  <2>4. \A m, n \in Nat : m - (n - 1) = (m - n) + 1
    OBVIOUS
  <2>5. (pMade[p][c] + Nones(p, c)) - (Len(q) - 1) = ((pMade[p][c] + Nones(p, c)) - Len(q)) + 1
    BY <1>6, <2>3, <2>4
  <2>6. Taken(p, c)' = h /\ h = Taken(p, c) + 1
    BY <1>7, <1>8, <2>2, <2>5
  <2>7. \A i \in Idx \ {c} : Taken(p, i) = (pMade[p][i] + Nones(p, i)) - Len(pQueue[p][i])
    BY DEF Taken
  <2> QED
    BY <1>9, <2>1, <2>6, <2>7
<1>11. /\ Len(pSent'[p]) = Len(pSent[p]) + 1 /\ Len(pSent[p]) \in Nat
       /\ \A n \in 1 .. Len(pSent[p]) : pSent'[p][n] = pSent[p][n]
       /\ pSent'[p][Len(pSent[p]) + 1] = <<c, h>>
       /\ pSent' \in [Players -> Seq(Idx \X (1 .. MaxChunks))]
       /\ \A r \in Players \ {p} : pSent'[r] = pSent[r]
       /\ \A n \in 1 .. Len(pSent[p]) : pSent[p][n] \in Idx \X (1 .. MaxChunks)
  <2>1. <<c, h>> \in Idx \X (1 .. MaxChunks)
    BY <1>3, <1>8
  <2>2. pSent[p] \in Seq(Idx \X (1 .. MaxChunks))
        /\ pSent \in [Players -> Seq(Idx \X (1 .. MaxChunks))]
    BY <1>0 DEF PlayTypes
  <2> DEFINE s == pSent[p]
             e == <<c, h>>
             S == Idx \X (1 .. MaxChunks)
  <2>3. pSent' = [pSent EXCEPT ![p] = Append(s, e)] /\ s \in Seq(S) /\ e \in S
        /\ pSent \in [Players -> Seq(S)]
    BY <1>1, <2>1, <2>2
  <2>4. s = pSent[p] /\ e = <<c, h>> /\ S = Idx \X (1 .. MaxChunks)
    OBVIOUS
  <2> HIDE DEF s, e, S
  <2>5. Append(s, e) \in Seq(S) /\ Len(Append(s, e)) = Len(s) + 1 /\ Len(s) \in Nat
        /\ (\A n \in 1 .. Len(s) : Append(s, e)[n] = s[n]) /\ Append(s, e)[Len(s) + 1] = e
    BY <2>3, AppendProperties, LenProperties
  <2>6. \A n \in 1 .. Len(s) : s[n] \in S
    BY <2>3, ElementOfSeq
  <2>7. pSent'[p] = Append(s, e) /\ pSent' \in [Players -> Seq(S)]
        /\ \A r \in Players \ {p} : pSent'[r] = pSent[r]
    BY <2>3, <2>5
  <2> QED
    BY <2>4, <2>5, <2>6, <2>7
<1>12. PlayTypes'
  <2>1. pPc' \in [Players -> {"off", "wait", "yield", "end", "cut"}]
    BY <1>0, <1>1 DEF PlayTypes
  <2> QED
    BY <1>0, <1>1, <1>5, <1>9, <1>11, <2>1 DEF PlayTypes
<1>13. OrderOf(p)'
  <2> SUFFICES ASSUME NEW a \in 1 .. Len(pSent'[p]), NEW b \in 1 .. Len(pSent'[p]), a < b
               PROVE  Before(pSent'[p][a], pSent'[p][b])
    BY DEF OrderOf
  <2> DEFINE m == Len(pSent[p])
  <2>3. m \in Nat /\ Len(pSent'[p]) = m + 1
    BY <1>11
  <2>4. a \in Nat /\ b \in Nat /\ 1 <= a /\ 1 <= b /\ a < b /\ b <= m + 1
    BY <2>3
  <2>5. a \in 1 .. m /\ (b # m + 1 => b \in 1 .. m)
    <3> HIDE DEF m
    <3> QED
      BY <2>3, <2>4
  <2>0. a \in 1 .. Len(pSent[p]) /\ pSent'[p][a] = pSent[p][a]
    BY <1>11, <2>5
  <2>1. CASE b # Len(pSent[p]) + 1
    <3>1. b \in 1 .. Len(pSent[p]) /\ pSent'[p][b] = pSent[p][b]
      BY <1>11, <2>1, <2>5
    <3> QED
      BY <1>0, <2>0, <3>1 DEF OrderOf
  <2>2. CASE b = Len(pSent[p]) + 1
    <3> DEFINE x == pSent[p][a]
               k == x[1]
    <3>1. x \in Idx \X (1 .. MaxChunks) /\ k \in Idx /\ x[2] \in 1 .. MaxChunks
      BY <1>11, <2>0
    <3>2. x[2] <= Taken(p, k)
      BY <1>0, <2>0, <3>1 DEF SentOf
    <3>3. k \in Nat /\ (k > c => Taken(p, k) = 0)
      BY <1>0, <3>1, StreamTypes DEF QueueOf
    <3>4. k = c => x[2] < h
      BY <1>3, <1>7, <1>10, <3>1, <3>2
    <3>5. ~(k > c)
      BY <3>1, <3>2, <3>3
    <3>6. pSent'[p][b] = <<c, h>> /\ pSent'[p][a] = x
      BY <1>11, <2>0, <2>2
    <3>7. k < c \/ (k = c /\ x[2] < h)
      BY <1>3, <3>3, <3>4, <3>5
    <3> HIDE DEF x, c
    <3> QED
      BY <3>6, <3>7 DEF Before
  <2> QED
    BY <2>1, <2>2
<1>14. SentOf(p)'
  <2> SUFFICES ASSUME NEW x \in Idx \X (1 .. MaxChunks)
               PROVE  (\E n \in 1 .. Len(pSent'[p]) : pSent'[p][n] = x) <=> x[2] <= Taken(p, x[1])'
    BY DEF SentOf
  <2>1. (\E n \in 1 .. Len(pSent[p]) : pSent[p][n] = x) <=> x[2] <= Taken(p, x[1])
    BY <1>0 DEF SentOf
  <2>2. (\E n \in 1 .. Len(pSent'[p]) : pSent'[p][n] = x) <=>
        (\E n \in 1 .. Len(pSent[p]) : pSent[p][n] = x) \/ x = <<c, h>>
    <3>1. ASSUME NEW n \in 1 .. Len(pSent'[p]), pSent'[p][n] = x
          PROVE  (\E m \in 1 .. Len(pSent[p]) : pSent[p][m] = x) \/ x = <<c, h>>
      <4>1. CASE n = Len(pSent[p]) + 1
        BY <1>11, <3>1, <4>1
      <4>2. CASE n # Len(pSent[p]) + 1
        <5>1. n \in 1 .. Len(pSent[p])
          BY <1>11, <4>2
        <5> QED
          BY <1>11, <3>1, <5>1
      <4> QED
        BY <4>1, <4>2
    <3>2. ASSUME NEW n \in 1 .. Len(pSent[p]), pSent[p][n] = x
          PROVE  \E m \in 1 .. Len(pSent'[p]) : pSent'[p][m] = x
      <4>1. n \in 1 .. Len(pSent'[p]) /\ pSent'[p][n] = x
        BY <1>11, <3>2
      <4> QED
        BY <4>1
    <3>3. Len(pSent[p]) + 1 \in 1 .. Len(pSent'[p])
      BY <1>11
    <3> QED
      BY <1>11, <3>1, <3>2, <3>3
  <2>3. x[1] \in Idx /\ x[2] \in 1 .. MaxChunks /\ x = <<x[1], x[2]>>
    OBVIOUS
  <2>4. CASE x[1] # c
    <3>1. Taken(p, x[1])' = Taken(p, x[1]) /\ x # <<c, h>>
      BY <1>10, <2>3, <2>4
    <3> QED
      BY <2>1, <2>2, <3>1
  <2>5. CASE x[1] = c
    <3>1. x = <<c, h>> <=> x[2] = h
      BY <2>3, <2>5
    <3>2. Taken(p, x[1])' = Taken(p, c) + 1 /\ Taken(p, c) \in Nat /\ h = Taken(p, c) + 1
      <4>1. Taken(p, x[1])' = Taken(p, c)'
        BY <1>1, <2>5
      <4> QED
        BY <1>3, <1>7, <1>10, <4>1
    <3>3. x[2] \in Nat /\ (x[2] <= Taken(p, x[1]) <=> x[2] <= Taken(p, c))
      BY <2>3, <2>5, <1>3
    <3>4. x[2] <= Taken(p, c) + 1 <=> (x[2] <= Taken(p, c) \/ x[2] = Taken(p, c) + 1)
      BY <3>2, <3>3
    <3> QED
      BY <2>1, <2>2, <3>1, <3>2, <3>3, <3>4
  <2> QED
    BY <2>4, <2>5
<1>15. SubmitOf(p)'
  BY <1>0, <1>1, <1>2, <1>4 DEF SubmitOf
<1>16. ASSUME NEW i \in Idx PROVE QueueOf(p, i)'
  <2>0. QueueOf(p, i) /\ (pJob'[p][i] = "over" <=> pJob[p][i] = "over") /\ i \in Nat
        /\ pCur' = pCur /\ pMade' = pMade
    BY <1>0, <1>1, <1>4, StreamTypes
  <2>1. CASE i # c
    <3>1. Taken(p, i)' = Taken(p, i) /\ pQueue'[p][i] = pQueue[p][i]
      BY <1>9, <1>10, <2>1
    <3> QED
      BY <2>0, <3>1 DEF QueueOf
  <2>2. CASE i = c
    <3>1. Taken(p, c)' = Taken(p, c) + 1 /\ Taken(p, c) + 1 \in 0 .. pMade[p][c]
      BY <1>3, <1>8, <1>10
    <3>2. ASSUME NEW j \in 1 .. Len(Tail(q))
          PROVE  Tail(q)[j] = IF j = Len(Tail(q))
                 /\ pJob'[p][c] = "over" THEN 0 ELSE (Taken(p, c) + 1) + j
      <4>1. j + 1 \in 1 .. Len(q) /\ (j + 1 = Len(q) <=> j = Len(Tail(q))) /\ j \in Nat
        BY <1>6
      <4>2. Tail(q)[j] = IF j + 1 = Len(q) /\ pJob[p][c] = "over" THEN 0 ELSE Taken(p, c) + (j + 1)
        BY <1>6, <1>7, <4>1
      <4>3. Taken(p, c) + (j + 1) = (Taken(p, c) + 1) + j
        BY <1>3, <1>7, <4>1
      <4> QED
        BY <2>0, <2>2, <4>1, <4>2, <4>3
    <3>3. ~(c > c) /\ ~(c < c)
      BY <1>3
    <3> QED
      BY <1>9, <2>0, <2>2, <3>1, <3>2, <3>3 DEF QueueOf
  <2> QED
    BY <2>1, <2>2
<1>17. pPc'[p] = "yield" /\ \A r \in Players \ {p} : pPc'[r] = pPc[r]
  BY <1>0, <1>1 DEF PlayTypes
<1>18. PlayOf(p)'
  BY <1>13, <1>14, <1>15, <1>16, <1>17 DEF PlayOf, Playing
<1> QED
  BY <1>1, <1>5, <1>9, <1>11, <1>12, <1>17, <1>18, OneStreamMoves

\* The None at the end of the current sentence: the next one, or the end.
LEMMA TakeEndStep ==
  ASSUME PlayInv, NEW p \in Players, TakeEnd(p)
  PROVE  PlayInv'
<1>0. PlayOf(p) /\ PlayTypes /\ Playing(p) /\ SubmitOf(p) /\ SentOf(p) /\ OrderOf(p)
      /\ \A i \in Idx : QueueOf(p, i)
  BY DEF TakeEnd, PlayInv, PlayOf, Playing
<1>1. PICK c \in Nat : c = pCur[p]
  BY StreamTypes
<1>2. PICK last \in BOOLEAN : last = (NextIdx(p) >= pLen[p] \/ pCancel[p])
  OBVIOUS
<1>3. /\ UNCHANGED <<pWorkers, pLen, pWindow, pQueue, pMade, pSent, pCancel>>
      /\ pPc[p] = "wait" /\ pQueue[p][c] = <<0>>
      /\ IF last THEN pPc' = [pPc EXCEPT ![p] = "end"] /\ pCur' = pCur
                 ELSE pCur' = [pCur EXCEPT ![p] = c + 1] /\ pPc' = pPc
      /\ p \notin LegacyPlayers => MaybePrefetch(p)
      /\ p \in LegacyPlayers => IF last THEN UNCHANGED <<pJob, pNext>> ELSE SubmitNext(p)
  BY <1>1, <1>2 DEF TakeEnd, PGoto, pExec, NextIdx
<1>4. c < pLen[p] /\ pLen[p] \in 0 .. Sentences /\ Sentences \in Nat /\ c \in Idx /\ pLen[p] \in Nat
      /\ (last <=> (c + 1 >= pLen[p] \/ pCancel[p]))
  <2>1. c < pLen[p] /\ pLen[p] \in 0 .. Sentences /\ Sentences \in Nat
    BY <1>0, <1>1, StreamTypes DEF SubmitOf
  <2>2. c \in Idx /\ pLen[p] \in Nat
    BY <2>1, StreamTypes
  <2> QED
    BY <1>1, <1>2, <2>1, <2>2 DEF NextIdx
<1>5. /\ Submits(p)
      /\ p \in LegacyPlayers /\ ~last => pNext' = [pNext EXCEPT ![p] = @ + 1]
  <2>1. CASE p \in LegacyPlayers /\ ~last
    <3>1. pNext[p] = c + 1 /\ c + 1 < pLen[p]
      BY <1>0, <1>1, <1>4, <2>1 DEF SubmitOf
    <3> QED
      BY <1>3, <2>1, <3>1 DEF Submits, SubmitNext
  <2>2. CASE ~(p \in LegacyPlayers /\ ~last)
    BY <1>0, <1>3, <2>2, PrefetchSubmits DEF Submits
  <2> QED
    BY <2>1, <2>2
<1>6. /\ \A i \in Idx : Nones(p, i)' = Nones(p, i)
      /\ pNext'[p] <= pLen'[p]
      /\ \A i \in Idx : i >= pNext'[p] => pJob'[p][i] = "none"
      /\ \A i \in Idx : pJob'[p][i] = "none" => pMade'[p][i] = 0
      /\ \A i \in Idx : pJob'[p][i] = "over" <=> pJob[p][i] = "over"
  BY <1>0, <1>3, <1>5, SubmitKeeps
<1>7. /\ pJob' \in [Players -> [Idx -> {"none", "queued", "run", "over"}]]
      /\ pNext' \in [Players -> Nat]
      /\ \A r \in Players \ {p} : pJob'[r] = pJob[r] /\ pNext'[r] = pNext[r]
  BY <1>0, <1>5, SubmitsNext
<1>8. pJob[p][c] = "over" /\ Taken(p, c) = pMade[p][c]
  <2>1. pMade[p][c] \in Nat
    BY <1>4, StreamTypes
  <2>2. Len(pQueue[p][c]) = 1 /\ pQueue[p][c][1] = 0
    BY <1>3
  <2>3. Taken(p, c) \in 0 .. pMade[p][c]
        /\ pQueue[p][c][1] = IF 1 = 1 /\ pJob[p][c] = "over" THEN 0 ELSE Taken(p, c) + 1
    BY <1>0, <1>4, <2>2 DEF QueueOf
  <2>4. pJob[p][c] = "over"
    BY <2>1, <2>2, <2>3
  <2>5. Taken(p, c) = (pMade[p][c] + 1) - 1
    BY <2>2, <2>4 DEF Taken, Nones
  <2> QED
    BY <2>1, <2>4, <2>5
<1>9. \A i \in Idx : Taken(p, i)' = Taken(p, i)
  BY <1>3, <1>6 DEF Taken
<1>10. /\ pPc' \in [Players -> {"off", "wait", "yield", "end", "cut"}] /\ pCur' \in [Players -> Nat]
       /\ \A r \in Players \ {p} : pPc'[r] = pPc[r] /\ pCur'[r] = pCur[r]
       /\ pPc'[p] = (IF last THEN "end" ELSE "wait") /\ pCur'[p] = (IF last THEN c ELSE c + 1)
  <2>1. pPc \in [Players -> {"off", "wait", "yield", "end", "cut"}] /\ pCur \in [Players -> Nat]
        /\ c + 1 \in Nat
    BY <1>0 DEF PlayTypes
  <2>2. CASE last
    BY <1>1, <1>3, <2>1, <2>2
  <2>3. CASE ~last
    BY <1>1, <1>3, <2>1, <2>3
  <2> QED
    BY <2>2, <2>3
<1>11. PlayTypes'
  BY <1>0, <1>3, <1>7, <1>10 DEF PlayTypes
<1>12. OrderOf(p)'
  BY <1>0, <1>3 DEF OrderOf
<1>13. ASSUME last, ~pCancel[p] PROVE OverOf(p)'
  <2>1. c + 1 >= pLen[p]
    BY <1>4, <1>13
  <2>2. ASSUME NEW i \in Idx
        PROVE  pJob'[p][i] \in {"none", "over"} /\ Taken(p, i) = pMade'[p][i]
    <3>0. i \in Nat /\ pNext'[p] \in Nat /\ pNext'[p] <= pLen[p] /\ pMade' = pMade
      BY <1>3, <1>6, <1>7, StreamTypes
    <3>1. CASE i < c
      BY <1>0, <1>1, <1>6, <3>0, <3>1 DEF QueueOf
    <3>2. CASE i = c
      BY <1>6, <1>8, <3>0, <3>2
    <3>3. CASE i > c
      <4>1. i >= pNext'[p]
        BY <1>4, <2>1, <3>0, <3>3
      <4>2. pJob'[p][i] = "none" /\ pMade'[p][i] = 0
        BY <1>6, <4>1
      <4>3. Taken(p, i) = 0
        BY <1>0, <1>1, <3>3 DEF QueueOf
      <4> QED
        BY <4>2, <4>3
    <3> QED
      BY <3>0, <3>1, <3>2, <3>3
  <2>3. \A x \in Idx \X (1 .. MaxChunks) :
          (\E n \in 1 .. Len(pSent'[p]) : pSent'[p][n] = x) <=> x[2] <= pMade'[p][x[1]]
    <3> TAKE x \in Idx \X (1 .. MaxChunks)
    <3>1. x[1] \in Idx
      OBVIOUS
    <3>2. Taken(p, x[1]) = pMade'[p][x[1]]
      BY <2>2, <3>1
    <3>3. (\E n \in 1 .. Len(pSent[p]) : pSent[p][n] = x) <=> x[2] <= Taken(p, x[1])
      BY <1>0 DEF SentOf
    <3> QED
      BY <1>3, <3>2, <3>3
  <2> QED
    BY <2>2, <2>3 DEF OverOf
<1>14. ASSUME ~last PROVE SubmitOf(p)' /\ SentOf(p)' /\ \A i \in Idx : QueueOf(p, i)'
  <2>1. c + 1 < pLen[p] /\ pCur'[p] = c + 1
    BY <1>4, <1>10, <1>14
  <2>2. SentOf(p)'
    BY <1>0, <1>3, <1>9 DEF SentOf
  <2>3. p \in LegacyPlayers => pNext'[p] = pCur'[p] + 1 /\ pWindow'[p] = 0
    <3> SUFFICES ASSUME p \in LegacyPlayers PROVE pNext'[p] = pCur'[p] + 1 /\ pWindow'[p] = 0
      OBVIOUS
    <3>1. pNext[p] = c + 1 /\ pWindow[p] = 0 /\ pNext \in [Players -> Nat]
      BY <1>0, <1>1 DEF SubmitOf, PlayTypes
    <3>2. pNext'[p] = (c + 1) + 1
      BY <1>5, <1>14, <3>1
    <3> QED
      BY <1>3, <2>1, <3>1, <3>2
  <2>4. SubmitOf(p)'
    <3>1. pCur'[p] < pLen'[p]
      BY <1>3, <2>1
    <3> QED
      BY <1>6, <2>3, <3>1 DEF SubmitOf
  <2>5. ASSUME NEW i \in Idx PROVE QueueOf(p, i)'
    <3>1. QueueOf(p, i) /\ Taken(p, i)' = Taken(p, i) /\ pQueue' = pQueue /\ pMade' = pMade
          /\ (pJob'[p][i] = "over" <=> pJob[p][i] = "over") /\ i \in Nat
      BY <1>0, <1>3, <1>6, <1>9, StreamTypes
    <3>2. i > c + 1 => Taken(p, i) = 0
      BY <1>1, <3>1 DEF QueueOf
    <3>3. i < c + 1 => pJob[p][i] = "over" /\ Taken(p, i) = pMade[p][i]
      <4>1. i < c => pJob[p][i] = "over" /\ Taken(p, i) = pMade[p][i]
        BY <1>1, <3>1 DEF QueueOf
      <4>2. i < c + 1 => i < c \/ i = c
        BY <3>1
      <4> QED
        BY <1>8, <4>1, <4>2
    <3> QED
      BY <2>1, <3>1, <3>2, <3>3 DEF QueueOf
  <2> QED
    BY <2>2, <2>4, <2>5
<1>15. PlayOf(p)'
  BY <1>3, <1>10, <1>12, <1>13, <1>14 DEF PlayOf, Playing
<1> QED
  BY <1>3, <1>7, <1>10, <1>11, <1>15, OneStreamMoves

\* The server learns of its backend; nothing else changes.
LEMMA KnownStep ==
  ASSUME PlayInv, UNCHANGED <<pWorkers, pPc, pLen, pCur, pNext, pWindow, pJob, pQueue, pMade,
         pSent, pCancel>>
  PROVE  PlayInv'
<1>1. PlayTypes'
  BY DEF PlayInv, PlayTypes
<1>2. ASSUME NEW p \in Players PROVE PlayOf(p)'
  <2>1. PlayOf(p)
    BY DEF PlayInv
  <2>2. \A i \in Idx : Taken(p, i)' = Taken(p, i)
    BY DEF Taken, Nones
  <2>3. (Playing(p)' <=> Playing(p)) /\ (OrderOf(p) => OrderOf(p)') /\ (SubmitOf(p) => SubmitOf(p)')
    BY DEF Playing, OrderOf, SubmitOf
  <2>4. (FreshOf(p) => FreshOf(p)') /\ (OverOf(p) => OverOf(p)') /\ (SentOf(p) => SentOf(p)')
    BY <2>2 DEF FreshOf, OverOf, SentOf
  <2>5. \A i \in Idx : QueueOf(p, i) => QueueOf(p, i)'
    BY <2>2 DEF QueueOf
  <2> QED
    BY <2>1, <2>3, <2>4, <2>5 DEF PlayOf
<1> QED
  BY <1>1, <1>2 DEF PlayInv

\* The chunks of a stream go out in order, each once, and a stream that ends
\* undisturbed has sent all that was made: whatever the texts, the number of workers, the
\* prefetch window and the interleaving of the sentences' threads.
THEOREM WireOrderCorrect == PSpec => []WireOrder
<1>1. PlayInv /\ [PNext]_pVars => PlayInv'
  <2> SUFFICES ASSUME PlayInv, [PNext]_pVars PROVE PlayInv'
    OBVIOUS
  <2>1. CASE UNCHANGED pVars \/ BecomesKnown
    BY <2>1, KnownStep DEF pVars, BecomesKnown
  <2>2. ASSUME NEW p \in Players, Open(p) \/ Generator(p) \/ Watcher(p) \/ Cut(p) PROVE PlayInv'
    BY <2>2, OpenStep, TakeChunkStep, TakeEndStep, QuietSteps, CutStep DEF Generator
  <2>3. ASSUME NEW p \in Players, NEW i \in Idx, RunStarts(p, i) \/ RunChunk(p, i) \/ RunEnds(p, i)
        PROVE  PlayInv'
    BY <2>3, RunSteps
  <2> QED
    BY <2>1, <2>2, <2>3 DEF PNext
<1> QED
  BY PlayStart, PlayOrder, <1>1, PTL DEF PSpec

-----------------------------------------------------------------------------
(* Profiles *)

\* The names of profiles, and of none.
Names == {p.name : p \in Catalog} \cup {None}

\* The keys a profile sets.
Sets(p) == DOMAIN p.env \cup DOMAIN Derived(p)

\* What the theorem asks of the profiles, and all shipped ones do: a key refers to a key
\* of its own profile, or to one that no profile sets and no engine's path goes into.
OwnReferences ==
  \A p \in Catalog : \A k \in References(p) : k \in DOMAIN p.env
    \/ \A q \in Catalog : k \notin Sets(q) \cup DOMAIN q.engines

\* A key that holds the path the engine resolver exported.
Exported(k) == k \in uExported /\ uEnv[k] = EnginePath(ProfileOf(uFirst), k)

\* What a profile gives a key it sets, in the operator's environment.
Gives(p, s, k) ==
  IF k \in DOMAIN Derived(p) THEN Derived(p)[k] ELSE Expand(p, k, [j \in Keys |-> Given(s, j)])

ProfileTypes ==
  /\ uBoot \in [at : {"import", "engines", "up", "refused", "build", "rollback"}, shell : Shells,
                manager : Managers \cup {None}, to : Names, old : Names]
  /\ uCurrent \in Names /\ uFirst \in Names /\ uRef \in [Managers -> Names]
  /\ uTorn \in BOOLEAN /\ uLeft \in 0 .. MaxApplies
  /\ uOperator = OwnKeys(Shell)
  /\ uExported \subseteq DOMAIN ProfileOf(uFirst).engines

\* The operator's keys and the ones no profile sets are as he gave them, whatever
\* apply_profile() wrote before it raised, but for the paths of engines.
OperatorKept ==
  /\ \A k \in uOperator : Exported(k) \/ uEnv[k] = Shell.env[k]
  /\ \A k \in Keys : (\A q \in Catalog : k \notin Sets(q)) =>
                       Exported(k) \/ uEnv[k] = Given(Shell, k)
  /\ \A k \in uApplied : \E q \in Catalog : k \in Sets(q)

\* Until one raises, the applied keys are those of the current profile with its values,
\* and the rest is unset or as the operator gave it, but for the paths of engines.
AppliedKept ==
  ~uTorn =>
    /\ uCurrent = None => uApplied = {}
    /\ uCurrent # None =>
         /\ uApplied = Sets(ProfileOf(uCurrent)) \ uOperator
         /\ \A k \in uApplied : Exported(k) \/ uEnv[k] = Gives(ProfileOf(uCurrent), Shell, k)
    /\ \A k \in Keys \ (uOperator \cup uApplied) :
         Exported(k) \/ uEnv[k] \in {Unset, Given(Shell, k)}

\* The limits are those of the profile of the start, which is still the current one as
\* long as nobody has reloaded.
LimitsKept ==
  /\ uBoot.at = "import" => /\ uCurrent = None /\ uLeft = MaxApplies /\ uWorkers.n = 0
                           /\ uExported = {}
  /\ uBoot.at = "engines" => uCurrent = uFirst /\ uWorkers.n = 0 /\ uExported = {}
  /\ uBoot.at \in {"engines", "up", "build", "rollback"} =>
       uLimit = ResolveLimit(ProfileOf(uFirst), Shell) /\ uMode = ResolveMode(ProfileOf(uFirst))
  /\ uBoot.at \in {"build", "rollback"} => uLeft # MaxApplies
  /\ uBoot.at = "up" /\ uLeft = MaxApplies =>
       uCurrent = uFirst /\ uWorkers.n \in {0, ResolveExecutor(ProfileOf(uFirst), Shell)}

SettingsInv == ProfileTypes /\ OperatorKept /\ AppliedKept /\ LimitsKept

-----------------------------------------------------------------------------
\* A name finds its profile.
LEMMA NameFinds ==
  /\ \A p \in Catalog : ProfileOf(p.name) = p /\ p # NoProfile
  /\ ProfileOf(None) = NoProfile
  /\ \A n \in Names \ {None} : ProfileOf(n) \in Catalog /\ ProfileOf(n).name = n
  /\ NoProfile.name = None
<1>0. NoProfile.name = None
  BY DEF NoProfile, None
<1>1. ASSUME NEW p \in Catalog PROVE ProfileOf(p.name) = p /\ p # NoProfile
  <2>1. p.name # None /\ \A q \in Catalog : q.name = p.name => q = p
    BY CatalogFacts
  <2>2. \A q \in Catalog \cup {NoProfile} : q.name = p.name => q = p
    BY <1>0, <2>1
  <2>3. ProfileOf(p.name) \in Catalog \cup {NoProfile} /\ ProfileOf(p.name).name = p.name
    BY DEF ProfileOf
  <2> QED
    BY <1>0, <2>1, <2>2, <2>3
<1>2. ProfileOf(None) = NoProfile
  <2>1. \A q \in Catalog \cup {NoProfile} : q.name = None => q = NoProfile
    BY CatalogFacts
  <2>2. ProfileOf(None) \in Catalog \cup {NoProfile} /\ ProfileOf(None).name = None
    BY <1>0 DEF ProfileOf
  <2> QED
    BY <2>1, <2>2
<1> QED
  BY <1>0, <1>1, <1>2 DEF Names

\* The applied keys and the text of a profile's keys do not depend on the environment.
LEMMA TextOfKeys ==
  ASSUME SettingsInv, OwnReferences, NEW p \in Catalog
  PROVE  /\ DOMAIN Merged(p) = Sets(p)
         /\ \A k \in Sets(p) : Merged(p)[k] = Gives(p, Shell, k)
         /\ Sets(p) \subseteq Keys
<1>1. DOMAIN Merged(p) = Sets(p)
  BY DEF Merged, Sets
<1>2. Sets(p) \subseteq Keys
  BY DEF Sets, Keys, Derived
<1>3. ASSUME NEW k \in Sets(p), k \notin DOMAIN Derived(p)
      PROVE  Expand(p, k, uEnv) = Expand(p, k, [j \in Keys |-> Given(Shell, j)])
  <2>1. k \in DOMAIN p.env
    BY <1>3 DEF Sets
  <2> DEFINE via == p.env[k].via
             raw == [j \in Keys |-> Given(Shell, j)]
  <2>2. CASE via = NoKey \/ via \in DOMAIN p.env
    BY <2>2 DEF Expand
  <2>3. CASE ~(via = NoKey \/ via \in DOMAIN p.env)
    <3>1. via \in References(p) /\ via \in Keys
      BY <2>1, <2>3 DEF References, Keys
    <3>2. \A q \in Catalog : via \notin Sets(q) /\ via \notin DOMAIN q.engines
      BY <2>3, <3>1 DEF OwnReferences
    <3>6. via \notin uExported
      <4>1. uExported \subseteq DOMAIN ProfileOf(uFirst).engines /\ uFirst \in Names
        BY DEF SettingsInv, ProfileTypes
      <4>2. CASE uFirst = None
        <5>1. DOMAIN ProfileOf(uFirst).engines = {}
          BY <4>2, NameFinds DEF NoProfile
        <5> QED
          BY <4>1, <5>1
      <4>3. CASE uFirst # None
        BY <3>2, <4>1, <4>3, NameFinds
      <4> QED
        BY <4>2, <4>3
    <3>3. uEnv[via] = raw[via]
      BY <3>1, <3>2, <3>6 DEF SettingsInv, OperatorKept, Exported
    <3>4. \A env : Expand(p, k, env) =
            IF env[via] # Unset THEN env[via] \o <<p.env[k].lit>> ELSE <<"$", via, p.env[k].lit>>
      BY <2>3 DEF Expand
    <3> HIDE DEF raw, via
    <3>5. Expand(p, k, uEnv) = Expand(p, k, raw)
      BY <3>3, <3>4, Zenon
    <3> QED
      BY <3>5 DEF raw
  <2> QED
    BY <2>2, <2>3
<1>4. ASSUME NEW k \in Sets(p) PROVE Merged(p)[k] = Gives(p, Shell, k)
  <2>1. Merged(p)[k] = IF k \in DOMAIN Derived(p) THEN Derived(p)[k] ELSE Expand(p, k, uEnv)
    BY <1>4 DEF Merged, Sets
  <2> QED
    BY <1>3, <2>1 DEF Gives
<1> QED
  BY <1>1, <1>2, <1>4

\* What apply_profile() leaves of the environment, whole or half-way.
LEMMA WriteKeeps ==
  ASSUME SettingsInv, OwnReferences, NEW p \in Catalog, NEW ks \in SUBSET DOMAIN Merged(p),
         uEnv' = Write(p, ks), uOperator' = uOperator, Shell' = Shell,
         UNCHANGED uExported, uExported # {} => uFirst' = uFirst,
         uApplied' \in {uApplied, DOMAIN Merged(p) \ uOperator}
  PROVE  /\ OperatorKept'
         /\ \A k \in Keys : uEnv'[k] =
              IF k \in ks \ uOperator THEN Gives(p, Shell, k)
              ELSE IF k \in uApplied \ (Sets(p) \cup uOperator) THEN Unset ELSE uEnv[k]
<1>1. DOMAIN Merged(p) = Sets(p) /\ Sets(p) \subseteq Keys
      /\ \A k \in Sets(p) : Merged(p)[k] = Gives(p, Shell, k)
  BY TextOfKeys
<1>2. \A k \in Keys : uEnv'[k] =
        IF k \in ks \ uOperator THEN Gives(p, Shell, k)
        ELSE IF k \in uApplied \ (Sets(p) \cup uOperator) THEN Unset ELSE uEnv[k]
  BY <1>1 DEF Write, StaleCleared
<1>3. uOperator \subseteq Keys
  BY DEF SettingsInv, ProfileTypes, OwnKeys, Keys, Shell
<1>7. ASSUME NEW k, uEnv'[k] = uEnv[k], Exported(k) PROVE Exported(k)'
  BY <1>7 DEF Exported, EnginePath
<1>4. ASSUME NEW k \in uOperator PROVE Exported(k)' \/ uEnv'[k] = Shell.env[k]
  <2>1. uEnv'[k] = uEnv[k]
    BY <1>2, <1>3
  <2> QED
    BY <1>7, <2>1 DEF SettingsInv, OperatorKept
<1>5. ASSUME NEW k \in Keys, \A q \in Catalog : k \notin Sets(q)
      PROVE  Exported(k)' \/ uEnv'[k] = Given(Shell, k)
  <2>1. k \notin uApplied /\ k \notin Sets(p)
    BY <1>5 DEF SettingsInv, OperatorKept
  <2>2. uEnv'[k] = uEnv[k]
    BY <1>1, <1>2, <2>1
  <2> QED
    BY <1>5, <1>7, <2>2 DEF SettingsInv, OperatorKept
<1>6. \A k \in uApplied' : \E q \in Catalog : k \in Sets(q)
  BY <1>1 DEF SettingsInv, OperatorKept
<1> QED
  BY <1>2, <1>4, <1>5, <1>6 DEF OperatorKept

\* apply_profile() succeeds.
LEMMA ApplyKeeps ==
  ASSUME SettingsInv, OwnReferences, NEW p \in Catalog, Apply(p), uOperator' = uOperator,
         Shell' = Shell, UNCHANGED uExported, uExported # {} => uFirst' = uFirst
  PROVE  OperatorKept' /\ AppliedKept' /\ uCurrent' = p.name /\ uTorn' = uTorn
<1>1. /\ uEnv' = Write(p, DOMAIN Merged(p)) /\ uApplied' = DOMAIN Merged(p) \ uOperator
      /\ uCurrent' = p.name /\ uTorn' = uTorn
  BY DEF Apply
<1>2. DOMAIN Merged(p) = Sets(p) /\ Sets(p) \subseteq Keys
  BY TextOfKeys
<1>3. /\ OperatorKept'
      /\ \A k \in Keys : uEnv'[k] =
           IF k \in Sets(p) \ uOperator THEN Gives(p, Shell, k)
           ELSE IF k \in uApplied \ (Sets(p) \cup uOperator) THEN Unset ELSE uEnv[k]
  <2> DEFINE ks == DOMAIN Merged(p)
  <2>1. ks \in SUBSET DOMAIN Merged(p) /\ uEnv' = Write(p, ks)
    BY <1>1
  <2>2. ks = Sets(p)
    BY <1>2
  <2> HIDE DEF ks
  <2>3. /\ OperatorKept'
        /\ \A k \in Keys : uEnv'[k] =
             IF k \in ks \ uOperator THEN Gives(p, Shell, k)
             ELSE IF k \in uApplied \ (Sets(p) \cup uOperator) THEN Unset ELSE uEnv[k]
    BY <1>1, <2>1, WriteKeeps
  <2> QED
    BY <2>2, <2>3
<1>4. ProfileOf(p.name) = p /\ p.name # None
  BY NameFinds, CatalogFacts
<1>5. \A k \in uApplied' : uEnv'[k] = Gives(p, Shell, k)
  BY <1>1, <1>2, <1>3
<1>6. ASSUME ~uTorn, NEW k \in Keys \ (uOperator \cup uApplied')
      PROVE  Exported(k)' \/ uEnv'[k] \in {Unset, Given(Shell, k)}
  <2>1. k \notin Sets(p)
    BY <1>1, <1>2, <1>6
  <2>2. CASE k \in uApplied
    BY <1>3, <1>6, <2>1, <2>2
  <2>3. CASE k \notin uApplied
    <3>1. uEnv'[k] = uEnv[k]
      BY <1>3, <1>6, <2>1, <2>3
    <3>2. Exported(k) \/ uEnv[k] \in {Unset, Given(Shell, k)}
      BY <1>6, <2>3 DEF SettingsInv, AppliedKept
    <3>3. Exported(k) => Exported(k)'
      BY <3>1 DEF Exported, EnginePath
    <3> QED
      BY <3>1, <3>2, <3>3
  <2> QED
    BY <2>2, <2>3
<1> QED
  BY <1>1, <1>2, <1>3, <1>4, <1>5, <1>6 DEF AppliedKept

\* apply_profile() raises half-way.
LEMMA RaiseKeeps ==
  ASSUME SettingsInv, OwnReferences, NEW p \in Catalog, ApplyRaises(p),
         uOperator' = uOperator, Shell' = Shell, UNCHANGED uExported,
         uExported # {} => uFirst' = uFirst
  PROVE  OperatorKept' /\ AppliedKept' /\ uCurrent' = uCurrent /\ uTorn'
<1>1. PICK ks \in SUBSET (DOMAIN Merged(p) \ Conflicts(p)) : uEnv' = Write(p, ks)
  BY DEF ApplyRaises
<1>2. OperatorKept'
  BY <1>1, WriteKeeps DEF ApplyRaises
<1> QED
  BY <1>2 DEF ApplyRaises, AppliedKept

\* The limit that resolve_limit() derives is positive and within both backends; they run
\* at once only if both can.
LEMMA LimitsOf ==
  ASSUME NEW p \in Catalog \cup {NoProfile}, NEW s \in Shells
  PROVE  /\ ResolveLimit(p, s) > 0
         /\ p.asr.declared /\ p.asr.max # Unbounded => ResolveLimit(p, s) <= p.asr.max
         /\ p.tts.declared /\ p.tts.max # Unbounded => ResolveLimit(p, s) <= p.tts.max
         /\ ResolveMode(p) = "concurrent" /\ p.asr.declared /\ p.tts.declared =>
              p.asr.max # 1 /\ p.tts.max # 1
         /\ p.tts.declared /\ p.tts.max # Unbounded => ResolveExecutor(p, s) <= p.tts.max
<1>1. p.asr.max \in Nat /\ p.tts.max \in Nat /\ p.sessions \in Nat /\ s.sessions \in Nat
      /\ s.workers \in Nat
  BY CatalogFacts, ShellFacts DEF NoProfile, NoBackend
<1>2. \A a, b \in Nat : Min({a, b}) \in {a, b} /\ Min({a, b}) <= a /\ Min({a, b}) <= b
  <2> TAKE a, b \in Nat
  <2>1. \E x \in {a, b} : \A y \in {a, b} : x <= y
    OBVIOUS
  <2>2. Min({a, b}) \in {a, b} /\ \A y \in {a, b} : Min({a, b}) <= y
    BY <2>1 DEF Min
  <2> QED
    BY <2>2
<1>3. TargetDefault(p) \in Nat \ {0}
  BY DEF TargetDefault
<1>4. /\ Ceiling(p) \in Nat
      /\ p.asr.declared /\ p.asr.max # Unbounded => Ceiling(p) # Unbounded
         /\ Ceiling(p) <= p.asr.max
      /\ p.tts.declared /\ p.tts.max # Unbounded => Ceiling(p) # Unbounded
         /\ Ceiling(p) <= p.tts.max
  <2> DEFINE m == Min({p.asr.max, p.tts.max})
  <2>1. m \in {p.asr.max, p.tts.max} /\ m <= p.asr.max /\ m <= p.tts.max
    BY <1>1, <1>2
  <2>2. Ceiling(p) = IF ~p.asr.declared /\ ~p.tts.declared THEN TargetDefault(p)
                     ELSE IF p.asr.max = Unbounded THEN p.tts.max
                     ELSE IF p.tts.max = Unbounded THEN p.asr.max
                     ELSE m
    BY DEF Ceiling
  <2> HIDE DEF m
  <2> QED
    BY <1>1, <1>3, <2>1, <2>2 DEF Unbounded
<1>5. \A n, cap \in Nat : n > 0 => /\ Clamp(n, cap) > 0
                                   /\ cap # Unbounded => Clamp(n, cap) <= cap
  BY DEF Clamp, Unbounded
<1>6. /\ ResolveLimit(p, s) > 0
      /\ Ceiling(p) # Unbounded => ResolveLimit(p, s) <= Ceiling(p)
  <2> DEFINE c == Ceiling(p)
             l == ResolveLimit(p, s)
  <2>1. l = IF s.sessions > 0 THEN Clamp(s.sessions, c)
            ELSE IF p.sessions > 0 THEN Clamp(p.sessions, c)
            ELSE IF c = Unbounded THEN TargetDefault(p)
            ELSE c
    BY DEF ResolveLimit
  <2>2. c \in Nat
    BY <1>4
  <2> HIDE DEF c, l
  <2>3. l > 0 /\ (c # Unbounded => l <= c)
    BY <1>1, <1>3, <1>5, <2>1, <2>2 DEF Unbounded
  <2> QED
    BY <2>3 DEF c, l
<1>7. ResolveLimit(p, s) \in Nat
  BY <1>1, <1>3, <1>4 DEF ResolveLimit, Clamp
<1>8. ResolveMode(p) = "concurrent" /\ p.asr.declared /\ p.tts.declared =>
        p.asr.max # 1 /\ p.tts.max # 1
  BY DEF ResolveMode, ParallelOk
<1>9. p.tts.declared /\ p.tts.max # Unbounded => ResolveExecutor(p, s) <= p.tts.max
  BY <1>1, <1>5 DEF ResolveExecutor
<1>10. \A l, c, m \in Nat : l <= c /\ c <= m => l <= m
  OBVIOUS
<1> QED
  BY <1>1, <1>4, <1>6, <1>7, <1>8, <1>9, <1>10

\* The invariant implies the property.
LEMMA SettingsAsStated == SettingsInv => SettingsHold
<1> SUFFICES ASSUME SettingsInv PROVE EnvFollowsProfile /\ LimitsHold
  BY DEF SettingsHold
<1>1. EnvFollowsProfile
  <2> SUFFICES ASSUME ~uTorn, NEW k \in Keys
               PROVE  \/ uEnv[k] = Worth(k, ProfileOf(uCurrent), Shell)
                      \/ uEnv[k] = Given(Shell, k) /\ Worth(k, ProfileOf(uCurrent), Shell) = Unset
                      \/ k \in uExported /\ uEnv[k] = EnginePath(ProfileOf(uFirst), k)
    BY DEF EnvFollowsProfile
  <2> DEFINE p == ProfileOf(uCurrent)
             s == Shell
             raw == [j \in Keys |-> Given(s, j)]
             own == k \in OwnKeys(s)
  <2>1. Worth(k, p, s) =
          IF own THEN s.env[k]
          ELSE IF p = NoProfile THEN Unset
          ELSE IF k \in DOMAIN Derived(p) THEN Derived(p)[k]
          ELSE IF k \in DOMAIN p.env THEN Expand(p, k, raw)
          ELSE Unset
    BY DEF Worth
  <2>6. CASE Exported(k)
    BY <2>6 DEF Exported
  <2>2. own <=> k \in uOperator
    BY DEF SettingsInv, ProfileTypes
  <2>3. CASE own
    BY <2>1, <2>2, <2>3, <2>6 DEF SettingsInv, OperatorKept
  <2>4. CASE ~own /\ uCurrent = None /\ ~Exported(k)
    <3>1. p = NoProfile /\ uEnv[k] \in {Unset, Given(Shell, k)}
      BY <2>2, <2>4, NameFinds DEF SettingsInv, AppliedKept
    <3> QED
      BY <2>1, <2>4, <3>1
  <2>5. CASE ~own /\ uCurrent # None /\ ~Exported(k)
    <3>1. p \in Catalog /\ p # NoProfile
      BY <2>5, NameFinds DEF SettingsInv, ProfileTypes
    <3>2. /\ uApplied = Sets(p) \ uOperator
          /\ k \in uApplied => uEnv[k] = Gives(p, s, k)
          /\ k \notin uApplied => uEnv[k] \in {Unset, Given(s, k)}
      BY <2>2, <2>5 DEF SettingsInv, AppliedKept
    <3>3. Gives(p, s, k) = IF k \in DOMAIN Derived(p) THEN Derived(p)[k] ELSE Expand(p, k, raw)
      BY DEF Gives
    <3>4. k \in uApplied <=> k \in DOMAIN Derived(p) \/ k \in DOMAIN p.env
      BY <2>2, <2>5, <3>2 DEF Sets
    <3> HIDE DEF p, s, raw, own
    <3>5. uEnv[k] = Worth(k, p, s) \/ (uEnv[k] = Given(s, k) /\ Worth(k, p, s) = Unset)
      BY <2>1, <2>5, <3>1, <3>2, <3>3, <3>4
    <3> QED
      BY <3>5 DEF p, s
  <2> QED
    BY <2>3, <2>4, <2>5, <2>6
<1>2. LimitsHold
  <2> DEFINE p == ProfileOf(uFirst)
  <2> SUFFICES ASSUME uBoot.at = "up"
               PROVE  /\ uLimit > 0
                      /\ p.asr.declared /\ p.asr.max # Unbounded => uLimit <= p.asr.max
                      /\ p.tts.declared /\ p.tts.max # Unbounded => uLimit <= p.tts.max
                      /\ uMode = "concurrent" /\ p.asr.declared /\ p.tts.declared =>
                           p.asr.max # 1 /\ p.tts.max # 1
                      /\ uLeft = MaxApplies /\ p.tts.declared /\ p.tts.max # Unbounded =>
                           uWorkers.n <= p.tts.max
    BY DEF LimitsHold
  <2>1. p \in Catalog \cup {NoProfile} /\ Shell \in Shells
    BY NameFinds DEF SettingsInv, ProfileTypes, Shell
  <2>2. /\ uLimit = ResolveLimit(p, Shell) /\ uMode = ResolveMode(p)
        /\ uLeft = MaxApplies => uWorkers.n \in {0, ResolveExecutor(p, Shell)}
    BY DEF SettingsInv, LimitsKept
  <2>3. p.tts.max \in Nat
    BY <2>1, CatalogFacts DEF NoProfile, NoBackend
  <2> HIDE DEF p
  <2> QED
    BY <2>1, <2>2, <2>3, LimitsOf
<1> QED
  BY <1>1, <1>2

\* The process starts with the operator's environment and no profile.
LEMMA SettingsStart == UInit(Shells) => SettingsInv
<1> SUFFICES ASSUME UInit(Shells) PROVE SettingsInv
  OBVIOUS
<1>1. PICK s \in Shells :
        /\ uEnv = [k \in Keys |-> Given(s, k)]
        /\ uOperator = OwnKeys(s)
        /\ uApplied = {} /\ uCurrent = None /\ uFirst = None /\ uExported = {}
        /\ uRef = [m \in Managers |-> None]
        /\ uBoot = [at |-> "import", shell |-> s, manager |-> None, to |-> None, old |-> None]
        /\ uLimit = 0 /\ uMode = "none" /\ uWorkers = [n |-> 0, resolved |-> FALSE]
        /\ uTorn = FALSE /\ uLeft = MaxApplies
  BY DEF UInit
<1>2. Shell = s /\ uBoot.at = "import"
  BY <1>1 DEF Shell
<1>3. None \in Names
  BY DEF Names
<1>4. ProfileTypes
  <2>1. uBoot \in [at : {"import", "engines", "up", "refused", "build", "rollback"}, shell : Shells,
                   manager : Managers \cup {None}, to : Names, old : Names]
    BY <1>1, <1>3
  <2>2. uRef \in [Managers -> Names] /\ uLeft \in 0 .. MaxApplies
    BY <1>1, <1>3, ShellFacts
  <2> QED
    BY <1>1, <1>2, <1>3, <2>1, <2>2 DEF ProfileTypes
<1>5. DOMAIN s.env \subseteq Keys
  BY DEF Keys
<1>8. \A k \in OwnKeys(s) : k \in DOMAIN s.env
  BY DEF OwnKeys
<1>6. OperatorKept /\ AppliedKept
  BY <1>1, <1>2, <1>5, <1>8 DEF OperatorKept, AppliedKept, Given
<1>7. LimitsKept
  BY <1>1, <1>2 DEF LimitsKept
<1> QED
  BY <1>4, <1>6, <1>7 DEF SettingsInv

\* The record of a reload that goes on elsewhere.
LEMMA BootMoves ==
  ASSUME SettingsInv, NEW l \in {"import", "engines", "up", "refused", "build", "rollback"}
  PROVE  /\ [uBoot EXCEPT !.at = l].shell = Shell /\ [uBoot EXCEPT !.at = l].at = l
         /\ [uBoot EXCEPT !.at = l] \in
              [at : {"import", "engines", "up", "refused", "build", "rollback"}, shell : Shells,
               manager : Managers \cup {None}, to : Names, old : Names]
         /\ BackUp.shell = Shell /\ BackUp.at = "up"
         /\ BackUp \in
              [at : {"import", "engines", "up", "refused", "build", "rollback"}, shell : Shells,
               manager : Managers \cup {None}, to : Names, old : Names]
  BY DEF SettingsInv, ProfileTypes, Shell, BackUp, Names

\* Every step of the start-up, of a reload and of its rollback keeps the invariant.
LEMMA SettingsStep ==
  ASSUME SettingsInv, OwnReferences, [UNext]_uVars
  PROVE  SettingsInv'
<1> DEFINE Boots == [at : {"import", "engines", "up", "refused", "build", "rollback"},
                     shell : Shells,
                     manager : Managers \cup {None}, to : Names, old : Names]
<1>0. /\ uBoot \in Boots /\ uCurrent \in Names /\ uFirst \in Names /\ uRef \in [Managers -> Names]
      /\ uTorn \in BOOLEAN /\ uLeft \in 0 .. MaxApplies /\ MaxApplies \in Nat
      /\ uOperator = OwnKeys(Shell) /\ uExported \subseteq DOMAIN ProfileOf(uFirst).engines
      /\ OperatorKept /\ AppliedKept /\ LimitsKept
  BY ShellFacts DEF SettingsInv, ProfileTypes
<1>1. \A p \in Catalog : p.name \in Names /\ ProfileOf(p.name) = p
  BY NameFinds DEF Names
<1>2. ASSUME Shell' = Shell, UNCHANGED <<uEnvVars, uOperator, uTorn, uExported>>,
             uExported # {} => uFirst' = uFirst
      PROVE  OperatorKept' /\ AppliedKept'
  <2>1. \A k : Exported(k) => Exported(k)'
    BY <1>2 DEF Exported, uEnvVars, EnginePath
  <2> QED
    BY <1>0, <1>2, <2>1 DEF OperatorKept, AppliedKept, uEnvVars
<1>3. CASE UNCHANGED uVars
  <2>1. UNCHANGED <<uEnv, uOperator, uApplied, uCurrent, uRef, uBoot, uFirst, uExported, uLimit,
                    uMode, uWorkers, uTorn, uLeft>> /\ Shell' = Shell
    BY <1>3 DEF uVars, Shell
  <2>2. ProfileTypes'
    BY <1>0, <2>1 DEF ProfileTypes
  <2>3. LimitsKept'
    BY <1>0, <2>1 DEF LimitsKept
  <2> QED
    BY <1>2, <2>1, <2>2, <2>3 DEF SettingsInv, uEnvVars
<1>4. CASE Startup
  <2>1. PICK p \in SelectRef(Shell) :
          /\ Apply(p) /\ Serve(p)
          /\ uRef' = [m \in Managers |-> IF Shell.ref = "none" THEN None ELSE p.name]
    BY <1>4 DEF Startup
  <2>2. p \in Catalog
    BY <2>1 DEF SelectRef, PresetProfile
  <2>3. /\ uFirst' = p.name /\ uLimit' = ResolveLimit(p, Shell) /\ uMode' = ResolveMode(p)
        /\ uBoot' = [uBoot EXCEPT !.at = "engines"]
        /\ UNCHANGED <<uOperator, uWorkers, uLeft, uExported>> /\ uBoot.at = "import"
    BY <1>4, <2>1 DEF Serve, Startup
  <2>4. uBoot' \in Boots /\ Shell' = Shell /\ uBoot'.at = "engines"
    BY <2>3, BootMoves DEF Shell
  <2>8. uExported = {}
    BY <1>0, <2>3 DEF LimitsKept
  <2>5. OperatorKept' /\ AppliedKept' /\ uCurrent' = p.name /\ uTorn' = uTorn
    BY <2>1, <2>2, <2>3, <2>4, <2>8, ApplyKeeps
  <2>6. ProfileTypes'
    BY <1>0, <1>1, <2>1, <2>2, <2>3, <2>4, <2>5, <2>8 DEF ProfileTypes, Names
  <2>7. LimitsKept'
    BY <1>0, <1>1, <2>2, <2>3, <2>4, <2>5, <2>8 DEF LimitsKept
  <2> QED
    BY <2>5, <2>6, <2>7 DEF SettingsInv
<1>5. CASE StartupBare
  <2>1. /\ uFirst' = None /\ uLimit' = ResolveLimit(NoProfile, Shell)
           /\ uMode' = ResolveMode(NoProfile)
        /\ uBoot' = [uBoot EXCEPT !.at = "engines"] /\ uBoot.at = "import"
        /\ UNCHANGED <<uEnvVars, uOperator, uRef, uTorn, uWorkers, uLeft, uExported>>
        /\ uExported = {}
    BY <1>0, <1>5, NameFinds DEF StartupBare, Serve, LimitsKept
  <2>2. uBoot' \in Boots /\ Shell' = Shell /\ uBoot'.at = "engines"
    BY <2>1, BootMoves DEF Shell
  <2>3. ProfileTypes'
    BY <1>0, <2>1, <2>2 DEF ProfileTypes, uEnvVars, Names
  <2>4. LimitsKept'
    BY <1>0, <2>1, <2>2, NameFinds DEF LimitsKept, uEnvVars
  <2> QED
    BY <1>2, <2>1, <2>2, <2>3, <2>4 DEF SettingsInv
<1>11. CASE ResolveEngines
  <2> DEFINE p == ProfileOf(uCurrent)
  <2>1. /\ uBoot.at = "engines" /\ uExported' \in SUBSET DOMAIN p.engines
        /\ uEnv' = [k \in Keys |-> IF k \in uExported' THEN EnginePath(p, k) ELSE uEnv[k]]
        /\ uBoot' = [uBoot EXCEPT !.at = "up"] \/ uBoot' = [uBoot EXCEPT !.at = "refused"]
        /\ UNCHANGED <<uOperator, uApplied, uCurrent, uRef, uFirst, uLimit, uMode, uWorkers,
                       uTorn, uLeft>>
    BY <1>11 DEF ResolveEngines
  <2>2. uBoot' \in Boots /\ Shell' = Shell /\ uBoot'.at \in {"up", "refused"}
    BY <2>1, BootMoves DEF Shell
  <2>3. uCurrent = uFirst /\ uWorkers.n = 0 /\ uExported = {}
    BY <1>0, <2>1 DEF LimitsKept
  <2>4. ASSUME NEW k \in Keys PROVE Exported(k)' \/ (k \notin uExported' /\ uEnv'[k] = uEnv[k])
    BY <2>1, <2>3 DEF Exported, EnginePath
  <2>5. \A k : ~Exported(k)
    BY <2>3 DEF Exported
  <2>6. uOperator \subseteq Keys
    BY <1>0 DEF OwnKeys, Keys, Shell
  <2>9. uApplied \subseteq Keys
    <3>1. \A q \in Catalog : Sets(q) \subseteq Keys
      BY DEF Sets, Keys, Derived
    <3> QED
      BY <1>0, <3>1 DEF OperatorKept
  <2>7. OperatorKept'
    BY <1>0, <2>1, <2>2, <2>4, <2>5, <2>6 DEF OperatorKept
  <2>8. AppliedKept'
    BY <1>0, <2>1, <2>2, <2>4, <2>5, <2>9 DEF AppliedKept
  <2>10. ProfileTypes'
    BY <1>0, <2>1, <2>2, <2>3 DEF ProfileTypes
  <2>11. LimitsKept'
    BY <1>0, <2>1, <2>2, <2>3 DEF LimitsKept
  <2> QED
    BY <2>7, <2>8, <2>10, <2>11 DEF SettingsInv
<1>6. CASE StartupRaises
  <2>1. /\ uBoot' = [uBoot EXCEPT !.at = "refused"] /\ UNCHANGED <<uOperator, uRef, uServe,
           uWorkers, uLeft>>
        /\ UNCHANGED <<uEnvVars, uTorn>> \/ \E p \in SelectRef(Shell) : ApplyRaises(p)
    BY <1>6 DEF StartupRaises
  <2>6. UNCHANGED <<uFirst, uExported>>
    BY <2>1 DEF uServe
  <2>2. uBoot' \in Boots /\ Shell' = Shell /\ uBoot'.at = "refused"
    BY <2>1, BootMoves DEF Shell
  <2>3. OperatorKept' /\ AppliedKept' /\ uCurrent' = uCurrent /\ uTorn' \in BOOLEAN
    <3>1. CASE UNCHANGED <<uEnvVars, uTorn>>
      BY <1>0, <1>2, <2>1, <2>2, <2>6, <3>1 DEF uEnvVars
    <3>2. ASSUME NEW p \in SelectRef(Shell), ApplyRaises(p)
          PROVE  OperatorKept' /\ AppliedKept' /\ uCurrent' = uCurrent /\ uTorn' \in BOOLEAN
      <4>1. p \in Catalog
        BY DEF SelectRef, PresetProfile
      <4> QED
        BY <2>1, <2>2, <2>6, <3>2, <4>1, RaiseKeeps DEF ApplyRaises
    <3> QED
      BY <2>1, <3>1, <3>2
  <2>4. ProfileTypes'
    BY <1>0, <2>1, <2>2, <2>3 DEF ProfileTypes, uServe
  <2>5. LimitsKept'
    BY <2>2 DEF LimitsKept
  <2> QED
    BY <2>3, <2>4, <2>5 DEF SettingsInv
<1>7. ASSUME NEW ready \in BOOLEAN, SizeExecutor(ready) PROVE SettingsInv'
  <2>1. /\ uBoot.at = "up" /\ uWorkers' = [n |-> ResolveExecutor(ProfileOf(uCurrent), Shell),
           resolved |-> ready]
        /\ UNCHANGED <<uEnvVars, uOperator, uRef, uBoot, uServe, uTorn, uLeft>>
    BY <1>7 DEF SizeExecutor
  <2>2. Shell' = Shell /\ uWorkers'.n = ResolveExecutor(ProfileOf(uCurrent), Shell)
    BY <2>1 DEF Shell
  <2>3. ProfileTypes'
    BY <1>0, <2>1, <2>2 DEF ProfileTypes, uEnvVars, uServe
  <2>4. LimitsKept'
    BY <1>0, <2>1, <2>2 DEF LimitsKept, uEnvVars, uServe
  <2> QED
    BY <1>2, <2>1, <2>2, <2>3, <2>4 DEF SettingsInv, uServe
<1>8. ASSUME NEW m \in Managers, NEW p \in Catalog, ReloadProfile(m, p) PROVE SettingsInv'
  <2> DEFINE back == IF uRef[m] # None THEN uRef[m] ELSE uCurrent
             noted(at) == [uBoot EXCEPT !.at = at, !.manager = m, !.to = p.name, !.old = back]
  <2>1. /\ uBoot.at = "up" /\ uLeft > 0 /\ uLeft' = uLeft - 1
        /\ \/ Apply(p) /\ uBoot' = noted("build")
           \/ ApplyRaises(p) /\ uBoot' = noted("rollback")
        /\ UNCHANGED <<uOperator, uRef, uServe, uWorkers>>
    BY <1>8 DEF ReloadProfile
  <2>2. back \in Names /\ p.name \in Names
    BY <1>0, <1>1
  <2>3. uBoot' \in Boots /\ Shell' = Shell /\ uBoot'.at \in {"build", "rollback"}
    <3> HIDE DEF back
    <3> QED
      BY <1>0, <2>1, <2>2 DEF Shell
  <2>4. OperatorKept' /\ AppliedKept' /\ uCurrent' \in Names /\ uTorn' \in BOOLEAN
    <3>3. UNCHANGED <<uFirst, uExported>>
      BY <2>1 DEF uServe
    <3>1. CASE Apply(p)
      BY <1>0, <2>1, <2>2, <2>3, <3>1, <3>3, ApplyKeeps
    <3>2. CASE ApplyRaises(p)
      BY <1>0, <2>1, <2>3, <3>2, <3>3, RaiseKeeps DEF ApplyRaises
    <3> QED
      BY <2>1, <3>1, <3>2
  <2>5. uLeft' \in 0 .. MaxApplies /\ uLeft' # MaxApplies
    BY <1>0, <2>1
  <2>6. ProfileTypes'
    BY <1>0, <2>1, <2>3, <2>4, <2>5 DEF ProfileTypes, uServe
  <2>7. LimitsKept'
    BY <1>0, <2>1, <2>3, <2>5 DEF LimitsKept, uServe
  <2> QED
    BY <2>4, <2>6, <2>7 DEF SettingsInv
<1>9. CASE Build
  <2>1. /\ uBoot.at = "build" /\ UNCHANGED <<uEnvVars, uOperator, uServe, uWorkers, uTorn, uLeft>>
        /\ \/ uRef' = [uRef EXCEPT ![uBoot.manager] = uBoot.to] /\ uBoot' = BackUp
           \/ uRef' = uRef /\ uBoot' = [uBoot EXCEPT !.at = "rollback"]
    BY <1>9 DEF Build
  <2>2. uBoot' \in Boots /\ Shell' = Shell /\ uBoot'.at \in {"up", "rollback"}
    BY <2>1, BootMoves DEF Shell
  <2>3. uRef' \in [Managers -> Names]
    BY <1>0, <2>1
  <2>4. ProfileTypes'
    BY <1>0, <2>1, <2>2, <2>3 DEF ProfileTypes, uEnvVars, uServe
  <2>5. LimitsKept'
    BY <1>0, <2>1, <2>2 DEF LimitsKept, uEnvVars, uServe
  <2> QED
    BY <1>2, <2>1, <2>2, <2>4, <2>5 DEF SettingsInv, uServe
<1>10. CASE RollsBack
  <2>1. /\ uBoot.at = "rollback" /\ uBoot' = BackUp /\ UNCHANGED <<uOperator, uRef, uServe,
           uWorkers, uLeft>>
        /\ IF uBoot.old = None THEN UNCHANGED <<uEnvVars, uTorn>> ELSE Apply(ProfileOf(uBoot.old))
    BY <1>10 DEF RollsBack
  <2>2. uBoot' \in Boots /\ Shell' = Shell /\ uBoot'.at = "up"
    BY <2>1, BootMoves DEF Shell
  <2>3. OperatorKept' /\ AppliedKept' /\ uCurrent' \in Names /\ uTorn' \in BOOLEAN
    <3>3. UNCHANGED <<uFirst, uExported>>
      BY <2>1 DEF uServe
    <3>1. CASE uBoot.old = None
      BY <1>0, <1>2, <2>1, <2>2, <3>1, <3>3 DEF uEnvVars
    <3>2. CASE uBoot.old # None
      <4>1. ProfileOf(uBoot.old) \in Catalog /\ ProfileOf(uBoot.old).name = uBoot.old
        BY <1>0, <3>2, NameFinds
      <4> QED
        BY <1>0, <2>1, <2>2, <3>2, <3>3, <4>1, ApplyKeeps
    <3> QED
      BY <3>1, <3>2
  <2>4. ProfileTypes'
    BY <1>0, <2>1, <2>2, <2>3 DEF ProfileTypes, uServe
  <2>5. LimitsKept'
    BY <1>0, <2>1, <2>2 DEF LimitsKept, uServe
  <2> QED
    BY <2>3, <2>4, <2>5 DEF SettingsInv
<1> QED
  BY <1>3, <1>4, <1>5, <1>6, <1>7, <1>8, <1>9, <1>10, <1>11 DEF UNext

\* Whatever profiles are applied, reloaded and rolled back to, the environment is the
\* operator's and the current profile's, but for the exported paths of engines and the
\* keys that the loader does not take for the operator's, and the limits are within what
\* the backends bear: profile_loader.py apply_profile() and capability_resolver.py, if no
\* profile refers to a key that only another one sets.
THEOREM SettingsCorrect == OwnReferences => (USpec => []SettingsHold)
<1> SUFFICES ASSUME OwnReferences PROVE USpec => []SettingsHold
  OBVIOUS
<1>1. SettingsInv /\ [UNext]_uVars => SettingsInv'
  BY SettingsStep
<1> QED
  BY SettingsStart, SettingsAsStated, <1>1, PTL DEF USpec

-----------------------------------------------------------------------------
(* TextBuffers *)

CharTexts == Seq(Chars)

\* How many characters of s up to place n are spoken, and how many in all.
UpTo(s, n) == {m \in Solid(s) : m <= n}
Shifted(S, k) == {k + m : m \in S}

\* Two texts that say the same.
Says(s, t) == Spoken(s) = Spoken(t) /\ Cardinality(Solid(s)) = Cardinality(Solid(t))

-----------------------------------------------------------------------------
\* The places of a text that are spoken are finitely many.
LEMMA SolidFinite ==
  ASSUME NEW s \in CharTexts
  PROVE  /\ Solid(s) = {n \in 1 .. Len(s) : s[n] # "b"} /\ Len(s) \in Nat
         /\ IsFiniteSet(Solid(s)) /\ Cardinality(Solid(s)) \in Nat
         /\ \A n \in Nat : IsFiniteSet(UpTo(s, n)) /\ Cardinality(UpTo(s, n)) \in Nat
<1>1. Len(s) \in Nat /\ DOMAIN s = 1 .. Len(s)
  BY LenProperties DEF CharTexts
<1>2. Solid(s) = {n \in 1 .. Len(s) : s[n] # "b"}
  BY <1>1 DEF Solid
<1>3. IsFiniteSet(1 .. Len(s))
  BY <1>1, FS_Interval
<1>4. ASSUME NEW T \in SUBSET Solid(s) PROVE IsFiniteSet(T) /\ Cardinality(T) \in Nat
  <2>1. T \in SUBSET (1 .. Len(s))
    BY <1>2
  <2> QED
    BY <1>3, <2>1, FS_Subset, FS_CardinalityType
<1>5. \A n \in Nat : UpTo(s, n) \in SUBSET Solid(s)
  BY DEF UpTo
<1> QED
  BY <1>1, <1>2, <1>4, <1>5

\* Shifting a set of numbers keeps its size.
LEMMA ShiftKeeps ==
  ASSUME NEW S \in SUBSET Nat, IsFiniteSet(S), NEW k \in Nat
  PROVE  IsFiniteSet(Shifted(S, k)) /\ Cardinality(Shifted(S, k)) = Cardinality(S)
<1> DEFINE f == [m \in S |-> k + m]
<1>1. f \in [S -> Shifted(S, k)]
  BY DEF Shifted
<1>2. \A a, b \in S : f[a] = f[b] => a = b
  OBVIOUS
<1>3. \A t \in Shifted(S, k) : \E m \in S : f[m] = t
  BY DEF Shifted
<1> HIDE DEF f
<1>4. f \in Bijection(S, Shifted(S, k))
  BY <1>1, <1>2, <1>3 DEF Bijection, Injection, Surjection, IsInjective
<1>5. ExistsBijection(S, Shifted(S, k))
  BY <1>4 DEF ExistsBijection
<1> QED
  BY <1>5, FS_Bijection

\* Two disjoint finite sets.
LEMMA DisjointUnion ==
  ASSUME NEW S, NEW T, IsFiniteSet(S), IsFiniteSet(T), S \cap T = {}
  PROVE  Cardinality(S \cup T) = Cardinality(S) + Cardinality(T)
<1>1. Cardinality(S) \in Nat /\ Cardinality(T) \in Nat
  BY FS_CardinalityType
<1>2. Cardinality(S \cup T) = Cardinality(S) + Cardinality(T) - Cardinality(S \cap T)
  BY FS_Union
<1>3. Cardinality(S \cap T) = 0
  BY FS_EmptySet
<1> QED
  BY <1>1, <1>2, <1>3

\* What two texts say one after the other.
LEMMA SpokenConcat ==
  ASSUME NEW a \in CharTexts, NEW b \in CharTexts
  PROVE  /\ a \o b \in CharTexts
         /\ Cardinality(Solid(a \o b)) = Cardinality(Solid(a)) + Cardinality(Solid(b))
         /\ Spoken(a \o b) = Spoken(a) \cup {<<Cardinality(Solid(a)) + x[1],
            x[2]>> : x \in Spoken(b)}
<1> DEFINE c == a \o b
           la == Len(a)
           wa == Cardinality(Solid(a))
<1>1. /\ c \in CharTexts /\ Len(c) = la + Len(b) /\ la \in Nat /\ Len(b) \in Nat
      /\ \A i \in 1 .. la + Len(b) : c[i] = IF i <= la THEN a[i] ELSE b[i - la]
  BY ConcatProperties, LenProperties DEF CharTexts
<1>2. /\ Solid(a) = {n \in 1 .. la : a[n] # "b"} /\ Solid(b) = {n \in 1 .. Len(b) : b[n] # "b"}
      /\ Solid(c) = {n \in 1 .. Len(c) : c[n] # "b"}
      /\ IsFiniteSet(Solid(a)) /\ IsFiniteSet(Solid(b)) /\ wa \in Nat
  BY <1>1, SolidFinite
<1> HIDE DEF c
<1>3. /\ \A n \in 1 .. la : n \in Solid(c) <=> n \in Solid(a)
      /\ \A m \in 1 .. Len(b) : la + m \in Solid(c) <=> m \in Solid(b)
      /\ \A n \in 1 .. la : c[n] = a[n]
      /\ \A m \in 1 .. Len(b) : c[la + m] = b[m]
  <2>1. ASSUME NEW n \in 1 .. la PROVE c[n] = a[n] /\ n \in 1 .. Len(c)
    BY <1>1
  <2>2. ASSUME NEW m \in 1 .. Len(b) PROVE c[la + m] = b[m] /\ la + m \in 1 .. Len(c)
    <3> HIDE DEF la
    <3>1. la + m \in 1 .. la + Len(b) /\ ~(la + m <= la) /\ (la + m) - la = m
      BY <1>1
    <3> QED
      BY <1>1, <3>1
  <2> QED
    BY <1>2, <2>1, <2>2
<1>4. \A n \in Solid(c) : n \in 1 .. la \/ \E m \in 1 .. Len(b) : n = la + m
  <2> TAKE n \in Solid(c)
  <2>1. n \in 1 .. la + Len(b)
    BY <1>1, <1>2
  <2>2. CASE n <= la
    BY <1>1, <2>1, <2>2
  <2>3. CASE n > la
    <3> DEFINE m == n - la
    <3>1. m \in 1 .. Len(b) /\ n = la + m
      BY <1>1, <2>1, <2>3
    <3> QED
      BY <3>1
  <2> QED
    BY <1>1, <2>1, <2>2, <2>3
<1>5. Solid(c) = Solid(a) \cup Shifted(Solid(b), la) /\ Solid(a) \cap Shifted(Solid(b), la) = {}
  <2>1. \A n \in Solid(a) : n \in 1 .. la
    BY <1>2
  <2>2. \A m \in Solid(b) : m \in 1 .. Len(b) /\ ~(la + m <= la)
    BY <1>1, <1>2
  <2>3. Solid(c) = Solid(a) \cup Shifted(Solid(b), la)
    BY <1>3, <1>4, <2>1, <2>2 DEF Shifted
  <2>4. Solid(a) \cap Shifted(Solid(b), la) = {}
    BY <1>1, <2>1, <2>2 DEF Shifted
  <2> QED
    BY <2>3, <2>4
<1>6. Solid(b) \in SUBSET Nat /\ \A T \in SUBSET Solid(b) : T \in SUBSET Nat /\ IsFiniteSet(T)
  <2>1. \A T \in SUBSET Solid(b) : IsFiniteSet(T)
    BY <1>2, FS_Subset
  <2> QED
    BY <1>2, <2>1
<1>7. Cardinality(Solid(c)) = wa + Cardinality(Solid(b))
  <2>1. IsFiniteSet(Shifted(Solid(b), la)) /\ Cardinality(Shifted(Solid(b),
        la)) = Cardinality(Solid(b))
    BY <1>1, <1>2, <1>6, ShiftKeeps
  <2>2. Cardinality(Solid(a) \cup Shifted(Solid(b), la)) = wa + Cardinality(Shifted(Solid(b), la))
    BY <1>2, <1>5, <2>1, DisjointUnion
  <2> QED
    BY <1>5, <2>1, <2>2
<1>8. \A n \in Solid(a) : UpTo(c, n) = UpTo(a, n) /\ c[n] = a[n]
  <2> TAKE n \in Solid(a)
  <2>1. n \in 1 .. la
    BY <1>2
  <2>2. \A m \in Nat : ~(la + m <= n) \/ m = 0
    BY <1>1, <2>1
  <2>3. \A m \in Solid(b) : m \in Nat /\ m # 0
    BY <1>2
  <2>4. UpTo(c, n) = UpTo(a, n)
    BY <1>5, <2>2, <2>3 DEF UpTo, Shifted
  <2> QED
    BY <1>3, <2>1, <2>4
<1>9. \A m \in Solid(b) : /\ UpTo(c, la + m) = Solid(a) \cup Shifted(UpTo(b, m), la)
                          /\ c[la + m] = b[m]
                          /\ Cardinality(UpTo(c, la + m)) = wa + Cardinality(UpTo(b, m))
  <2> TAKE m \in Solid(b)
  <2>1. m \in 1 .. Len(b) /\ \A n \in Solid(a) : n <= la + m
    BY <1>1, <1>2
  <2>2. \A n \in Solid(b) : la + n <= la + m <=> n <= m
    BY <1>1, <1>2
  <2>3. UpTo(c, la + m) = Solid(a) \cup Shifted(UpTo(b, m), la)
    BY <1>5, <2>1, <2>2 DEF UpTo, Shifted
  <2>4. UpTo(b, m) \in SUBSET Solid(b)
    BY DEF UpTo
  <2>5. Solid(a) \cap Shifted(UpTo(b, m), la) = {}
    BY <1>5, <2>4 DEF Shifted
  <2>6. IsFiniteSet(Shifted(UpTo(b, m), la)) /\ Cardinality(Shifted(UpTo(b, m),
        la)) = Cardinality(UpTo(b, m))
    BY <1>1, <1>6, <2>4, ShiftKeeps
  <2>7. Cardinality(UpTo(c, la + m)) = wa + Cardinality(UpTo(b, m))
    BY <1>2, <2>3, <2>5, <2>6, DisjointUnion
  <2> QED
    BY <1>3, <2>1, <2>3, <2>7
<1>10. /\ \A s : Spoken(s) = {<<Cardinality(UpTo(s, n)), s[n]>> : n \in Solid(s)}
  BY DEF Spoken, UpTo
<1>11. Spoken(c) = Spoken(a) \cup {<<wa + x[1], x[2]>> : x \in Spoken(b)}
  <2>1. ASSUME NEW x \in Spoken(c) PROVE x \in Spoken(a) \cup {<<wa + y[1],
               y[2]>> : y \in Spoken(b)}
    <3>1. PICK n \in Solid(c) : x = <<Cardinality(UpTo(c, n)), c[n]>>
      BY <1>10
    <3>2. CASE n \in Solid(a)
      BY <1>8, <1>10, <3>1, <3>2
    <3>3. CASE n \in Shifted(Solid(b), la)
      <4>1. PICK m \in Solid(b) : n = la + m
        BY <3>3 DEF Shifted
      <4> DEFINE y == <<Cardinality(UpTo(b, m)), b[m]>>
      <4>2. y \in Spoken(b)
        BY <1>10
      <4>3. x = <<wa + y[1], y[2]>>
        BY <1>9, <3>1, <4>1
      <4> QED
        BY <4>2, <4>3
    <3> QED
      BY <1>5, <3>2, <3>3
  <2>2. ASSUME NEW x \in Spoken(a) PROVE x \in Spoken(c)
    <3>1. PICK n \in Solid(a) : x = <<Cardinality(UpTo(a, n)), a[n]>>
      BY <1>10
    <3>2. n \in Solid(c) /\ x = <<Cardinality(UpTo(c, n)), c[n]>>
      BY <1>5, <1>8, <3>1
    <3> QED
      BY <1>10, <3>2
  <2>3. ASSUME NEW y \in Spoken(b) PROVE <<wa + y[1], y[2]>> \in Spoken(c)
    <3>1. PICK m \in Solid(b) : y = <<Cardinality(UpTo(b, m)), b[m]>>
      BY <1>10
    <3>2. la + m \in Solid(c)
      BY <1>5 DEF Shifted
    <3>3. <<wa + y[1], y[2]>> = <<Cardinality(UpTo(c, la + m)), c[la + m]>>
      BY <1>9, <3>1
    <3> QED
      BY <1>10, <3>2, <3>3
  <2> QED
    BY <2>1, <2>2, <2>3
<1> QED
  BY <1>1, <1>7, <1>11 DEF c

\* Texts that say the same, one after the other.
LEMMA SaysConcat ==
  ASSUME NEW a \in CharTexts, NEW b \in CharTexts, NEW c \in CharTexts, NEW d \in CharTexts,
         Says(a, c), Says(b, d)
  PROVE  a \o b \in CharTexts /\ c \o d \in CharTexts /\ Says(a \o b, c \o d)
<1>1. /\ a \o b \in CharTexts /\ c \o d \in CharTexts
      /\ Cardinality(Solid(a \o b)) = Cardinality(Solid(a)) + Cardinality(Solid(b))
      /\ Cardinality(Solid(c \o d)) = Cardinality(Solid(c)) + Cardinality(Solid(d))
      /\ Spoken(a \o b) = Spoken(a) \cup {<<Cardinality(Solid(a)) + x[1], x[2]>> : x \in Spoken(b)}
      /\ Spoken(c \o d) = Spoken(c) \cup {<<Cardinality(Solid(c)) + x[1], x[2]>> : x \in Spoken(d)}
  BY SpokenConcat
<1>2. /\ Spoken(a) = Spoken(c) /\ Cardinality(Solid(a)) = Cardinality(Solid(c))
      /\ Spoken(b) = Spoken(d) /\ Cardinality(Solid(b)) = Cardinality(Solid(d))
  BY DEF Says
<1>3. Spoken(a \o b) = Spoken(c \o d) /\ Cardinality(Solid(a \o b)) = Cardinality(Solid(c \o d))
  BY <1>1, <1>2, Zenon
<1> QED
  BY <1>1, <1>3 DEF Says

\* Blanks say nothing.
LEMMA BlankSaysNothing ==
  ASSUME NEW a \in CharTexts, NEW b \in CharTexts, Solid(b) = {}
  PROVE  Says(a, a \o b) /\ Says(a, b \o a) /\ Says(<<>>, b)
<1>1. <<>> \in CharTexts /\ Solid(<<>>) = {}
  <2>1. <<>> \in CharTexts /\ Len(<<>>) = 0
    BY EmptySeq DEF CharTexts
  <2> QED
    BY <2>1, SolidFinite
<1>2. Says(<<>>, b) /\ Says(a, a)
  BY <1>1 DEF Says, Spoken
<1>3. Says(a \o <<>>, a \o b) /\ Says(<<>> \o a, b \o a)
  BY <1>1, <1>2, SaysConcat
<1>4. a \o <<>> = a /\ <<>> \o a = a
  BY ConcatEmptySeq DEF CharTexts
<1> QED
  BY <1>2, <1>3, <1>4

\* A text cut in two.
LEMMA CutInTwo ==
  ASSUME NEW s \in CharTexts, NEW n \in 0 .. Len(s)
  PROVE  /\ Prefix(s, n) \in CharTexts /\ From(s, n + 1) \in CharTexts
         /\ s = Prefix(s, n) \o From(s, n + 1)
         /\ Len(Prefix(s, n)) = n /\ Len(From(s, n + 1)) = Len(s) - n
         /\ \A i \in 1 .. n : Prefix(s, n)[i] = s[i]
         /\ \A i \in 1 .. Len(s) - n : From(s, n + 1)[i] = s[n + i]
<1>1. Len(s) \in Nat /\ \A i \in 1 .. Len(s) : s[i] \in Chars
  BY LenProperties, ElementOfSeq DEF CharTexts
<1> DEFINE l == Len(s)
<1>2. l \in Nat /\ n \in 0 .. l /\ l = Len(s)
  BY <1>1
<1> HIDE DEF l
<1>3. /\ SubSeq(s, 1, n) \in Seq(Chars)
      /\ Len(SubSeq(s, 1, n)) = IF 1 <= n THEN n - 1 + 1 ELSE 0
      /\ \A i \in 1 .. n - 1 + 1 : SubSeq(s, 1, n)[i] = s[1 + i - 1]
  <2>1. 1 \in Int /\ n \in Int /\ \A i \in 1 .. n : s[i] \in Chars
    BY <1>1, <1>2
  <2> QED
    BY <2>1, SubSeqProperties
<1>4. /\ SubSeq(s, n + 1, l) \in Seq(Chars)
      /\ Len(SubSeq(s, n + 1, l)) = IF n + 1 <= l THEN l - (n + 1) + 1 ELSE 0
      /\ \A i \in 1 .. l - (n + 1) + 1 : SubSeq(s, n + 1, l)[i] = s[(n + 1) + i - 1]
  <2>1. n + 1 \in Int /\ l \in Int /\ \A i \in n + 1 .. l : s[i] \in Chars
    BY <1>1, <1>2
  <2> QED
    BY <2>1, SubSeqProperties
<1>5. s = SubSeq(s, 1, n) \o SubSeq(s, n + 1, l)
  <2>1. 1 \in 1 .. l + 1 /\ n \in 1 - 1 .. l /\ l \in n .. l
    BY <1>2
  <2>2. SubSeq(s, 1, n) \o SubSeq(s, n + 1, l) = SubSeq(s, 1, l)
    BY <1>2, <2>1, ConcatAdjacentSubSeq DEF CharTexts
  <2> QED
    BY <1>2, <2>2, SubSeqFull DEF CharTexts
<1>6. \A i \in 1 .. n : SubSeq(s, 1, n)[i] = s[i]
  <2>1. \A i \in 1 .. n : i \in 1 .. n - 1 + 1 /\ 1 + i - 1 = i
    BY <1>2
  <2> QED
    BY <1>3, <2>1
<1>7. \A i \in 1 .. l - n : SubSeq(s, n + 1, l)[i] = s[n + i]
  <2>1. \A i \in 1 .. l - n : i \in 1 .. l - (n + 1) + 1 /\ (n + 1) + i - 1 = n + i
    BY <1>2
  <2> QED
    BY <1>4, <2>1
<1>8. Len(SubSeq(s, 1, n)) = n /\ Len(SubSeq(s, n + 1, l)) = l - n
  BY <1>2, <1>3, <1>4
<1> QED
  BY <1>2, <1>3, <1>4, <1>5, <1>6, <1>7, <1>8 DEF Prefix, From, CharTexts

\* A set of numbers has a least member, and a greatest one if it is bounded.
LEMMA LeastExists ==
  ASSUME NEW S \in SUBSET Nat, S # {}
  PROVE  Min(S) \in S /\ \A y \in S : Min(S) <= y
<1>1. PICK x \in S : \A y \in S : ~ (<<y, x>> \in OpToRel(<, Nat))
  BY NatLessThanWellFounded, WFMin
<1>2. \A y \in S : ~(y < x)
  BY <1>1 DEF OpToRel
<1>3. \A y \in S : x <= y
  BY <1>2
<1> QED
  BY <1>3 DEF Min

\* The first and the last place of a text that are spoken.
LEMMA SolidEnds ==
  ASSUME NEW s \in CharTexts, Solid(s) # {}
  PROVE  /\ Min(Solid(s)) \in Solid(s) /\ \A n \in Solid(s) : Min(Solid(s)) <= n
         /\ Max(Solid(s)) \in Solid(s) /\ \A n \in Solid(s) : n <= Max(Solid(s))
         /\ Min(Solid(s)) \in 1 .. Len(s) /\ Max(Solid(s)) \in 1 .. Len(s)
<1> DEFINE S == Solid(s)
           l == Len(s)
           T == {l - n : n \in S}
<1>1. S \in SUBSET (1 .. l) /\ S # {} /\ l \in Nat
  BY SolidFinite
<1> HIDE DEF S, l
<1>2. T \in SUBSET Nat /\ T # {}
  <2>1. \A n \in S : l - n \in Nat
    BY <1>1
  <2>2. PICK n \in S : TRUE
    BY <1>1
  <2>3. l - n \in T
    OBVIOUS
  <2> QED
    BY <2>1, <2>3
<1>3. PICK m \in T : \A y \in T : m <= y
  BY <1>2, LeastExists
<1>4. PICK n \in S : m = l - n
  BY <1>3
<1>5. ASSUME NEW k \in S PROVE n >= k
  <2>1. l - k \in T
    OBVIOUS
  <2>2. m <= l - k
    BY <1>3, <2>1
  <2> HIDE DEF T
  <2> QED
    BY <1>1, <1>4, <2>2
<1>6. Max(S) \in S /\ \A k \in S : k <= Max(S)
  BY <1>1, <1>5 DEF Max
<1>7. Min(S) \in S /\ \A k \in S : Min(S) <= k
  BY <1>1, LeastExists
<1> QED
  BY <1>1, <1>6, <1>7 DEF S, l

\* str.strip() and lstrip() take away blanks only.
LEMMA StripSays ==
  ASSUME NEW s \in CharTexts
  PROVE  /\ Strip(s) \in CharTexts /\ Says(Strip(s), s)
         /\ LStrip(s) \in CharTexts /\ Says(LStrip(s), s)
<1>1. CASE Solid(s) = {}
  <2>1. <<>> \in CharTexts
    BY EmptySeq DEF CharTexts
  <2> QED
    BY <1>1, <2>1, BlankSaysNothing DEF Strip, LStrip
<1>2. CASE Solid(s) # {}
  <2> DEFINE l == Len(s)
  <2>0. PICK a \in Nat, z \in Nat :
          /\ a = Min(Solid(s)) /\ z = Max(Solid(s))
          /\ \A n \in Solid(s) : a <= n /\ n <= z
          /\ 1 <= a /\ a <= z /\ z <= l
    <3>1. Min(Solid(s)) \in 1 .. l /\ Max(Solid(s)) \in 1 .. l /\ l \in Nat
          /\ Min(Solid(s)) <= Max(Solid(s))
          /\ \A n \in Solid(s) : Min(Solid(s)) <= n /\ n <= Max(Solid(s))
      BY <1>2, SolidEnds, SolidFinite
    <3> QED
      BY <3>1
  <2>1. l \in Nat /\ \A n \in 1 .. l : s[n] # "b" => a <= n /\ n <= z
    BY <2>0, SolidFinite
  <2>2. a - 1 \in 0 .. l /\ (a - 1) + 1 = a /\ z \in 0 .. l
    BY <2>0, <2>1
  <2> DEFINE f == Prefix(s, a - 1)
             g == From(s, a)
             k == z - (a - 1)
  <2>3. /\ f \in CharTexts /\ g \in CharTexts /\ s = f \o g
        /\ Len(f) = a - 1 /\ Len(g) = l - (a - 1)
        /\ \A i \in 1 .. a - 1 : f[i] = s[i]
        /\ \A i \in 1 .. l - (a - 1) : g[i] = s[(a - 1) + i]
    <3>1. /\ f \in CharTexts /\ From(s, (a - 1) + 1) \in CharTexts /\ s = f \o From(s, (a - 1) + 1)
          /\ Len(f) = a - 1 /\ Len(From(s, (a - 1) + 1)) = l - (a - 1)
          /\ \A i \in 1 .. a - 1 : f[i] = s[i]
          /\ \A i \in 1 .. l - (a - 1) : From(s, (a - 1) + 1)[i] = s[(a - 1) + i]
      BY <2>2, CutInTwo
    <3> QED
      BY <2>2, <3>1
  <2>4. Solid(f) = {}
    <3>1. \A i \in 1 .. a - 1 : i \in 1 .. l /\ ~(a <= i)
      BY <2>0, <2>1
    <3>2. \A i \in 1 .. a - 1 : f[i] = "b"
      BY <2>1, <2>3, <3>1
    <3> QED
      BY <2>3, <3>2, SolidFinite
  <2>5. Says(g, s)
    BY <2>3, <2>4, BlankSaysNothing
  <2>6. k \in 0 .. Len(g) /\ (a - 1) + k = z
    <3>1. k \in 0 .. l - (a - 1) /\ (a - 1) + k = z
      BY <2>0, <2>1
    <3>2. Len(g) = l - (a - 1)
      BY <2>3
    <3> QED
      BY <3>1, <3>2, Zenon
  <2> DEFINE h == Prefix(g, k)
             e == From(g, k + 1)
  <2>7. /\ h \in CharTexts /\ e \in CharTexts /\ g = h \o e /\ Len(h) = k /\ Len(e) = Len(g) - k
        /\ \A i \in 1 .. k : h[i] = g[i]
        /\ \A i \in 1 .. Len(g) - k : e[i] = g[k + i]
    BY <2>3, <2>6, CutInTwo
  <2>8. Solid(e) = {}
    <3>1. Len(g) - k = l - z
      <4>1. \A n \in Nat : (n - (a - 1)) - (z - (a - 1)) = n - z
        BY <2>0
      <4>2. (l - (a - 1)) - (z - (a - 1)) = l - z
        BY <2>1, <4>1
      <4> QED
        BY <2>3, <4>2
    <3>2. \A i \in 1 .. l - z : k + i \in 1 .. l - (a - 1) /\ (a - 1) + (k + i) = z + i
      BY <2>0, <2>1
    <3>3. \A i \in 1 .. l - z : z + i \in 1 .. l /\ ~(z + i <= z)
      BY <2>0, <2>1
    <3> HIDE DEF f, g, h, e, k
    <3>4. \A i \in 1 .. l - z : e[i] = s[z + i]
      <4> TAKE i \in 1 .. l - z
      <4>1. e[i] = g[k + i]
        BY <2>7, <3>1
      <4>2. g[k + i] = s[(a - 1) + (k + i)]
        BY <2>3, <3>2
      <4> QED
        BY <3>2, <4>1, <4>2
    <3>5. \A i \in 1 .. l - z : e[i] = "b"
      BY <2>1, <3>3, <3>4
    <3> QED
      <4>1. Len(e) = l - z
        BY <2>7, <3>1
      <4>2. Solid(e) = {n \in 1 .. Len(e) : e[n] # "b"}
        BY <2>7, SolidFinite
      <4> QED
        BY <3>5, <4>1, <4>2
  <2>9. Says(h, g)
    BY <2>7, <2>8, BlankSaysNothing
  <2>10. h = Strip(s)
    <3>1. Strip(s) = SubSeq(s, a, z) /\ SubSeq(s, a, z) \in CharTexts /\ Len(SubSeq(s, a,
          z)) = z - a + 1
          /\ \A i \in 1 .. z - a + 1 : SubSeq(s, a, z)[i] = s[a + i - 1]
      <4>1. Strip(s) = SubSeq(s, a, z)
        BY <1>2, <2>0 DEF Strip
      <4>2. \A i \in a .. z : i \in 1 .. l
        BY <2>0, <2>1
      <4>3. \A i \in a .. z : s[i] \in Chars
        BY <4>2, ElementOfSeq DEF CharTexts
      <4>4. a \in Int /\ z \in Int /\ a <= z
        BY <2>0
      <4> QED
        BY <4>1, <4>3, <4>4, SubSeqProperties DEF CharTexts
    <3>2. k = z - a + 1
      BY <2>0
    <3>3. \A i \in 1 .. k : i \in 1 .. l - (a - 1) /\ (a - 1) + i = a + i - 1
      BY <2>0, <2>1
    <3> HIDE DEF f, g, h, e, k
    <3>4. \A i \in 1 .. k : h[i] = SubSeq(s, a, z)[i]
      <4> TAKE i \in 1 .. k
      <4>1. h[i] = g[i] /\ g[i] = s[(a - 1) + i]
        BY <2>3, <2>7, <3>3
      <4>2. i \in 1 .. z - a + 1 /\ (a - 1) + i = a + i - 1
        BY <3>2, <3>3
      <4>3. SubSeq(s, a, z)[i] = s[a + i - 1]
        BY <3>1, <4>2
      <4>4. h[i] = s[a + i - 1]
        BY <4>1, <4>2
      <4> QED
        BY <4>3, <4>4
    <3> QED
      BY <2>7, <3>1, <3>2, <3>4, SeqEqual DEF CharTexts
  <2>11. g = LStrip(s)
    BY <1>2, <2>0 DEF LStrip, From
  <2>12. Says(h, s)
    BY <2>5, <2>9 DEF Says
  <2> QED
    BY <2>3, <2>5, <2>7, <2>10, <2>11, <2>12
<1> QED
  BY <1>1, <1>2

\* A piece and what stays in the buffer say what was in it, and both are texts.
Keeps(p, s) == p.out \in CharTexts /\ p.rest \in CharTexts /\ Says(p.out \o p.rest, s)

\* A cut at a place of the text.
LEMMA TakeKeeps ==
  ASSUME NEW s \in CharTexts, NEW n \in 0 .. Len(s)
  PROVE  Keeps(Take(s, n), s) /\ Keeps(Piece(Strip(Prefix(s, n)), From(s, n + 1)), s)
<1>1. /\ Prefix(s, n) \in CharTexts /\ From(s, n + 1) \in CharTexts
      /\ s = Prefix(s, n) \o From(s, n + 1)
  BY CutInTwo
<1> DEFINE f == Prefix(s, n)
           g == From(s, n + 1)
<1>2. /\ Strip(f) \in CharTexts /\ Says(Strip(f), f) /\ LStrip(g) \in CharTexts /\ Says(LStrip(g),
         g) /\ Says(g, g)
  BY <1>1, StripSays DEF Says
<1> HIDE DEF f, g
<1>3. Says(Strip(f) \o LStrip(g), f \o g) /\ Says(Strip(f) \o g, f \o g)
  BY <1>1, <1>2, SaysConcat DEF f, g
<1> QED
  BY <1>1, <1>2, <1>3 DEF Keeps, Take, Piece, f, g

\* Nothing is cut, or everything.
LEMMA WholeKeeps ==
  ASSUME NEW s \in CharTexts, NEW t \in CharTexts, Says(t, s)
  PROVE  Keeps(Nothing(t), s) /\ Keeps(Piece(Strip(s), <<>>), s)
<1>1. <<>> \in CharTexts
  BY EmptySeq DEF CharTexts
<1>2. <<>> \o t = t /\ Strip(s) \o <<>> = Strip(s) /\ Strip(s) \in CharTexts /\ Says(Strip(s), s)
  BY StripSays, ConcatEmptySeq DEF CharTexts
<1> QED
  BY <1>1, <1>2 DEF Keeps, Nothing, Piece

\* SentenceBuffer cuts at the end of a sentence.
LEMMA SentenceKeeps ==
  ASSUME NEW s \in CharTexts
  PROVE  Keeps(NextSentence(s), s)
<1> DEFINE ends == {n \in SentenceEnds(s) : Len(Strip(Prefix(s, n))) >= MinSentence}
<1>1. CASE ends # {}
  <2>1. ends \in SUBSET (1 .. Len(s)) /\ Len(s) \in Nat
    BY LenProperties DEF SentenceEnds, CharTexts
  <2>2. Min(ends) \in 0 .. Len(s)
    <3> HIDE DEF ends
    <3>1. ends \in SUBSET Nat
      BY <2>1
    <3>2. Min(ends) \in ends
      BY <1>1, <3>1, LeastExists
    <3>3. \A n \in 1 .. Len(s) : n \in 0 .. Len(s)
      BY <2>1
    <3> QED
      BY <2>1, <3>2, <3>3
  <2> QED
    BY <1>1, <2>2, TakeKeeps DEF NextSentence
<1>2. CASE ends = {}
  <2>1. Says(s, s)
    BY DEF Says
  <2>2. Keeps(Nothing(s), s) /\ Keeps(Piece(Strip(s), <<>>), s)
    BY <2>1, WholeKeeps
  <2> QED
    BY <1>2, <2>2 DEF NextSentence
<1> QED
  BY <1>1, <1>2

\* The last of some places of a text, and the first.
LEMMA PlacesOf ==
  ASSUME NEW s \in CharTexts, NEW S \in SUBSET DOMAIN s, S # {}
  PROVE  Min(S) \in 0 .. Len(s) /\ Max(S) \in 0 .. Len(s)
<1> DEFINE l == Len(s)
           T == {l - n : n \in S}
<1>1. l \in Nat /\ S \in SUBSET (1 .. l) /\ S \in SUBSET Nat
  BY LenProperties DEF CharTexts
<1>2. Min(S) \in S
  BY <1>1, LeastExists
<1> HIDE DEF l
<1>3. T \in SUBSET Nat /\ T # {}
  <2>1. \A n \in S : l - n \in Nat
    BY <1>1
  <2>2. PICK n \in S : TRUE
    OBVIOUS
  <2>3. l - n \in T
    OBVIOUS
  <2> QED
    BY <2>1, <2>3
<1>4. PICK m \in T : \A y \in T : m <= y
  BY <1>3, LeastExists
<1>5. PICK n \in S : m = l - n
  BY <1>4
<1>6. ASSUME NEW k \in S PROVE n >= k
  <2>1. l - k \in T
    OBVIOUS
  <2>2. m <= l - k
    BY <1>4, <2>1
  <2> HIDE DEF T
  <2> QED
    BY <1>1, <1>5, <2>2
<1>7. Max(S) \in S
  BY <1>6 DEF Max
<1>8. \A k \in 1 .. l : k \in 0 .. l
  BY <1>1
<1> QED
  BY <1>1, <1>2, <1>7, <1>8 DEF l

\* LowLatencyTTSBuffer cuts at a break, at a blank, or at a length.
LEMMA ChunkKeeps ==
  ASSUME NEW buf \in CharTexts
  PROVE  Keeps(NextChunk(buf), buf)
<1> DEFINE s == LStrip(buf)
           hard == Breaks(s, "h")
           soft == Breaks(s, "c")
           size == Len(Strip(s))
<1>1. s \in CharTexts /\ Says(s, buf) /\ Len(s) \in Nat
  BY StripSays, LenProperties DEF CharTexts
<1> HIDE DEF s
<1>2. \A n \in 0 .. Len(s) : Keeps(Take(s, n), buf)
  BY <1>1, TakeKeeps DEF Keeps, Says
<1>3. \A c : Breaks(s, c) \in SUBSET DOMAIN s
  BY DEF Breaks
<1>4. /\ hard # {} => Min(hard) \in 0 .. Len(s)
      /\ soft # {} => Max(soft) \in 0 .. Len(s)
      /\ Len(s) \in 0 .. Len(s)
  BY <1>1, <1>3, PlacesOf
<1>6. Keeps(Nothing(s), buf)
  BY <1>1, WholeKeeps
<1>7. LengthCut(s) \in 0 .. Len(s)
  <2> DEFINE limit == IF Len(s) < MaxChars THEN Len(s) ELSE MaxChars
             nearSoft == {n \in Breaks(s, "c") : MinChars <= n /\ n <= limit}
             nearBlank == {n \in Breaks(s, "b") : MinChars <= n /\ n <= limit}
             target == IF Len(s) < TargetChars THEN Len(s) ELSE TargetChars
  <2>1. nearSoft \in SUBSET DOMAIN s /\ nearBlank \in SUBSET DOMAIN s
    BY <1>3
  <2>2. limit \in 0 .. Len(s) /\ target \in 0 .. Len(s)
    BY <1>1, BufferSizes, TextSizes
  <2>3. LengthCut(s) = IF xCjk THEN IF nearSoft # {} THEN Max(nearSoft) ELSE limit
                               ELSE IF nearBlank # {} THEN Max(nearBlank) ELSE target
    BY DEF LengthCut
  <2> HIDE DEF nearSoft, nearBlank, limit, target
  <2> QED
    BY <1>1, <2>1, <2>2, <2>3, PlacesOf
<1>8. NextChunk(buf) =
        IF hard # {} /\ Len(Strip(Prefix(s, Min(hard)))) >= MinSentence THEN Take(s, Min(hard))
        ELSE IF soft # {} /\ Len(Strip(Prefix(s, Max(soft)))) >= MinChars THEN Take(s, Max(soft))
        ELSE IF soft # {} /\ size >= TargetChars THEN Take(s, Len(s))
        ELSE IF s = <<>> \/ size < (IF xCjk THEN MaxChars ELSE TargetChars) THEN Nothing(s)
        ELSE Take(s, LengthCut(s))
  BY DEF NextChunk, s
<1> HIDE DEF hard, soft, size
<1> QED
  BY <1>2, <1>4, <1>6, <1>7, <1>8

\* What went out and what is in the buffer say what came in.
TextInv ==
  /\ xBuf \in CharTexts /\ xIn \in CharTexts /\ xOut \in CharTexts
  /\ Says(xOut \o xBuf, xIn)

\* Every call of add() and flush(), in every step, keeps that.
LEMMA TextStep ==
  ASSUME TextInv, [XNext]_xVars
  PROVE  TextInv'
<1>0. xBuf \in CharTexts /\ xIn \in CharTexts /\ xOut \in CharTexts /\ Says(xOut \o xBuf, xIn)
      /\ xOut \o xBuf \in CharTexts
  BY ConcatProperties DEF TextInv, CharTexts
<1>1. CASE AddText
  <2>1. PICK t \in UNION {[1 .. n -> Chars] : n \in 1 .. 2} : xBuf' = xBuf \o t /\ xIn' = xIn \o t
    BY <1>1 DEF AddText
  <2>2. t \in CharTexts /\ Says(t, t)
    <3>1. PICK n \in 1 .. 2 : t \in [1 .. n -> Chars]
      OBVIOUS
    <3>2. n \in Nat
      OBVIOUS
    <3>3. t \in Seq(Chars)
      BY <3>1, <3>2, SeqDef
    <3> QED
      BY <3>3 DEF CharTexts, Says
  <2>3. xBuf \o t \in CharTexts /\ xIn \o t \in CharTexts /\ Says((xOut \o xBuf) \o t, xIn \o t)
    BY <1>0, <2>2, SaysConcat, ConcatProperties DEF CharTexts
  <2>4. (xOut \o xBuf) \o t = xOut \o (xBuf \o t)
    <3>1. xOut \in Seq(Chars) /\ xBuf \in Seq(Chars) /\ t \in Seq(Chars)
      BY <1>0, <2>2 DEF CharTexts
    <3> QED
      BY ONLY <3>1, ConcatAssociative
  <2>5. xOut' = xOut
    BY <1>1 DEF AddText
  <2> QED
    BY <1>0, <2>1, <2>3, <2>4, <2>5 DEF TextInv
<1>2. ASSUME NEW p, Keeps(p, xBuf), xBuf' = p.rest, xOut' = xOut \o p.out, xIn' = xIn PROVE TextInv'
  <2> DEFINE o == p.out
             t == p.rest
  <2>1. o \in CharTexts /\ t \in CharTexts /\ Says(o \o t, xBuf) /\ Says(xOut, xOut)
    BY <1>2 DEF Keeps, Says
  <2>2. xBuf' = t /\ xOut' = xOut \o o
    BY <1>2
  <2> HIDE DEF o, t
  <2>3. xOut \o o \in CharTexts /\ o \o t \in CharTexts
    BY <1>0, <2>1, ConcatProperties DEF CharTexts
  <2>4. Says(xOut \o (o \o t), xOut \o xBuf)
    BY <1>0, <2>1, <2>3, SaysConcat
  <2>5. (xOut \o o) \o t = xOut \o (o \o t)
    <3>1. xOut \in Seq(Chars) /\ o \in Seq(Chars) /\ t \in Seq(Chars)
      BY <1>0, <2>1 DEF CharTexts
    <3> QED
      BY ONLY <3>1, ConcatAssociative
  <2>6. Says((xOut \o o) \o t, xIn)
    BY <1>0, <2>4, <2>5 DEF Says
  <2> QED
    BY <1>0, <1>2, <2>1, <2>2, <2>3, <2>6 DEF TextInv
<1>3. CASE Emit
  <2>1. LET p == IF xKind = "regex" THEN NextSentence(xBuf) ELSE NextChunk(xBuf)
        IN  xBuf' = p.rest /\ xOut' = xOut \o p.out /\ xIn' = xIn /\ Keeps(p, xBuf)
    BY <1>0, <1>3, SentenceKeeps, ChunkKeeps DEF Emit
  <2> QED
    BY <1>2, <2>1
<1>4. CASE FlushText
  <2> DEFINE p == Piece(Strip(xBuf), <<>>)
  <2>1. Keeps(p, xBuf)
    BY <1>0, WholeKeeps DEF Says
  <2>2. xBuf' = p.rest /\ xOut' = xOut \o p.out /\ xIn' = xIn
    BY <1>4 DEF FlushText, Piece
  <2> HIDE DEF p
  <2> QED
    BY <1>2, <2>1, <2>2
<1>5. CASE Segment
  <2>1. ASSUME NEW n \in 1 .. Len(xBuf) - 1,
               Yield(Strip(Prefix(xBuf, n))), xBuf' = From(xBuf, n + 1)
        PROVE  TextInv'
    <3> DEFINE p == Piece(Strip(Prefix(xBuf, n)), From(xBuf, n + 1))
    <3>1. n \in 0 .. Len(xBuf)
      BY <1>0, LenProperties DEF CharTexts
    <3>2. Keeps(p, xBuf)
      BY <1>0, <3>1, TakeKeeps
    <3>3. xBuf' = p.rest /\ xOut' = xOut \o p.out /\ xIn' = xIn
      BY <1>5, <2>1 DEF Segment, Yield, Piece
    <3> HIDE DEF p
    <3> QED
      BY <1>2, <3>2, <3>3
  <2>2. ASSUME NEW p, p \in {Piece(Strip(xBuf), <<>>), Nothing(xBuf)},
               xBuf' = p.rest, xOut' = xOut \o p.out
        PROVE  TextInv'
    <3>1. Keeps(p, xBuf)
      BY <1>0, <2>2, WholeKeeps DEF Says
    <3>2. xIn' = xIn
      BY <1>5 DEF Segment
    <3> QED
      BY <1>2, <2>2, <3>1, <3>2
  <2> QED
    BY <1>5, <2>1, <2>2 DEF Segment
<1>6. CASE UNCHANGED xVars
  BY <1>6 DEF xVars, TextInv
<1> QED
  BY <1>1, <1>3, <1>4, <1>5, <1>6 DEF XNext

\* Only pysbd's short sentences are swallowed.
SwallowedInv ==
  /\ xKind # "pysbd" => xSwallowed = {}
  /\ \A p \in xSwallowed : p[2] - p[1] + 1 < MinSentence

LEMMA SwallowedStep ==
  ASSUME TextInv, SwallowedInv, [XNext]_xVars
  PROVE  SwallowedInv'
<1>1. CASE AddText \/ Emit \/ FlushText \/ UNCHANGED xVars
  BY <1>1 DEF AddText, Emit, FlushText, xVars, SwallowedInv
<1>2. CASE Segment
  <2>1. xKind' = xKind /\ xKind = "pysbd"
    BY <1>2 DEF Segment
  <2>2. ASSUME NEW n \in 1 .. Len(xBuf) - 1, Yield(Strip(Prefix(xBuf, n)))
        PROVE  \A p \in xSwallowed' : p[2] - p[1] + 1 < MinSentence
    <3> DEFINE s == Strip(Prefix(xBuf, n))
    <3>1. n \in 0 .. Len(xBuf) /\ xBuf \in CharTexts /\ xOut \in CharTexts
      BY LenProperties DEF TextInv, CharTexts
    <3>2. s \in CharTexts
      BY <3>1, CutInTwo, StripSays
    <3>3. Len(s) \in Nat /\ Len(xOut) \in Nat
      BY <3>1, <3>2, LenProperties DEF CharTexts
    <3> HIDE DEF s
    <3>4. Len(s) < MinSentence => (Len(xOut) + Len(s)) - (Len(xOut) + 1) + 1 < MinSentence
      BY <3>3, TextSizes
    <3>5. xSwallowed' = IF s = <<>> \/ Len(s) >= MinSentence THEN xSwallowed
                        ELSE xSwallowed \cup {<<Len(xOut) + 1, Len(xOut) + Len(s)>>}
      BY <2>2 DEF Yield, s
    <3>6. Len(s) >= MinSentence \/ Len(s) < MinSentence
      BY <3>3, TextSizes
    <3> QED
      BY <3>4, <3>5, <3>6 DEF SwallowedInv
  <2>3. CASE xSwallowed' = xSwallowed
    BY <2>1, <2>3 DEF SwallowedInv
  <2> QED
    BY <1>2, <2>1, <2>2, <2>3 DEF Segment, SwallowedInv
<1> QED
  BY <1>1, <1>2 DEF XNext

\* Whatever the chunks of the text, the sizes of the buffers and pysbd's sentences, the
\* text leaves the buffer once and in order, and all of it is yielded but the short
\* sentences of the pysbd path: core/v2v.py SentenceBuffer and LowLatencyTTSBuffer.
THEOREM TextCorrect == XSpec => []TextSpokenOnce
<1>1. XInit => TextInv /\ SwallowedInv
  <2> SUFFICES ASSUME XInit PROVE TextInv /\ SwallowedInv
    OBVIOUS
  <2>1. <<>> \in CharTexts /\ xBuf = <<>> /\ xIn = <<>> /\ xOut = <<>> /\ xSwallowed = {}
    BY EmptySeq DEF CharTexts, XInit
  <2>2. xOut \o xBuf = xIn
    BY <2>1, ConcatEmptySeq DEF CharTexts
  <2> QED
    BY <2>1, <2>2 DEF TextInv, SwallowedInv, Says
<1>2. TextInv /\ SwallowedInv => TextSpokenOnce
  BY DEF TextInv, SwallowedInv, TextSpokenOnce, Says
<1>3. TextInv /\ SwallowedInv /\ [XNext]_xVars => TextInv' /\ SwallowedInv'
  BY TextStep, SwallowedStep
<1> QED
  BY <1>1, <1>2, <1>3, PTL DEF XSpec

-----------------------------------------------------------------------------
(* V2VTts *)

\* Sentence numbers go up.
Rising(q) == \A m, n \in 1 .. Len(q) : m < n => q[m] < q[n]
Below(q, k) == \A n \in 1 .. Len(q) : q[n] < k

\* Where tts_out_task and its drain() are.
OutInv ==
  /\ yOut = "drain" <=> yCur # 0
  /\ yOut = "drain" <=> yDrain # "none"
  /\ yMain = "closed" => Finished
  /\ yOut \in {"loop", "drain", "done", "raised", "cancelled"}

\* The sentences that have ended, that are on the thread, that drain() is at and that are
\* queued have numbers in this order.
OrderInv ==
  /\ Rising(yQ) /\ Below(yQ, yMade + 1)
  /\ Rising(yJobs) /\ Below(yJobs, yMade + 1) /\ \A e \in yEnded : e <= yMade
  /\ \A e \in yEnded : \A n \in 1 .. Len(yJobs) : e < yJobs[n]
  /\ \A n \in 1 .. Len(yQ) :
       /\ Below(yJobs, yQ[n]) /\ yCur < yQ[n] /\ \A e \in yEnded : e < yQ[n]
  /\ yDrain = "acquire" => Below(yJobs, yCur) /\ \A e \in yEnded : e < yCur

\* A thread that drain() does not listen to has been told to stop.
StopInv ==
  \A n \in 1 .. Len(yJobs) : yJobs[n] \in yStop \/ (yDrain = "play" /\ yJobs[n] = yCur)

\* Sentences are numbered from 1 on, as the buffer emits them.
OutTypes ==
  /\ yMade \in Nat /\ yCur \in 0 .. yMade
  /\ yQ \in Seq(Nat \ {0}) /\ yJobs \in Seq(Nat \ {0}) /\ yEnded \subseteq Nat

SpeakInv == OutTypes /\ OutInv /\ OrderInv /\ StopInv

\* A larger number at the end keeps a queue rising.
LEMMA RisingAppend ==
  ASSUME NEW q \in Seq(Nat \ {0}), Rising(q), NEW k \in Nat \ {0}, Below(q, k)
  PROVE  /\ Append(q, k) \in Seq(Nat \ {0}) /\ Rising(Append(q, k))
         /\ Len(Append(q, k)) = Len(q) + 1 /\ Append(q, k)[Len(q) + 1] = k
         /\ \A n \in 1 .. Len(q) : Append(q, k)[n] = q[n]
         /\ \A b \in Nat : Below(q, b) /\ k < b => Below(Append(q, k), b)
<1> DEFINE r == Append(q, k)
<1>1. /\ r \in Seq(Nat \ {0}) /\ Len(r) = Len(q) + 1 /\ r[Len(q) + 1] = k
      /\ \A n \in 1 .. Len(q) : r[n] = q[n]
      /\ Len(q) \in Nat
  BY AppendProperties, LenProperties
<1> HIDE DEF r
<1>2. \A n \in 1 .. Len(r) : n \in 1 .. Len(q) \/ n = Len(q) + 1
  BY <1>1
<1>3. \A n \in 1 .. Len(q) : q[n] \in Nat
  BY ElementOfSeq
<1>4. Rising(r)
  <2> SUFFICES ASSUME NEW m \in 1 .. Len(r), NEW n \in 1 .. Len(r), m < n PROVE r[m] < r[n]
    BY DEF Rising
  <2>1. m \in 1 .. Len(q)
    BY <1>1
  <2>2. CASE n \in 1 .. Len(q)
    BY <1>1, <2>1, <2>2 DEF Rising
  <2>3. CASE n = Len(q) + 1
    BY <1>1, <2>1, <2>3 DEF Below
  <2> QED
    BY <1>2, <2>2, <2>3
<1>5. \A b \in Nat : Below(q, b) /\ k < b => Below(r, b)
  BY <1>1, <1>2, <1>3 DEF Below
<1> QED
  BY <1>1, <1>4, <1>5 DEF r

\* The head of a rising queue is below the rest, which still rises.
LEMMA RisingTail ==
  ASSUME NEW q \in Seq(Nat \ {0}), Rising(q), q # <<>>
  PROVE  /\ Tail(q) \in Seq(Nat \ {0}) /\ Head(q) \in Nat \ {0} /\ Rising(Tail(q))
         /\ Head(q) = q[1] /\ 1 \in 1 .. Len(q)
         /\ \A n \in 1 .. Len(Tail(q)) :
              n + 1 \in 1 .. Len(q) /\ Tail(q)[n] = q[n + 1] /\ Head(q) < Tail(q)[n]
         /\ \A b : Below(q, b) => Below(Tail(q), b)
<1> DEFINE r == Tail(q)
<1>1. /\ r \in Seq(Nat \ {0}) /\ Len(r) = Len(q) - 1 /\ \A n \in 1 .. Len(r) : r[n] = q[n + 1]
      /\ Head(q) = q[1] /\ Len(q) \in Nat /\ Len(q) > 0 /\ Head(q) \in Nat \ {0}
  BY HeadTailProperties, EmptySeq, LenProperties
<1> HIDE DEF r
<1>2. \A n \in 1 .. Len(r) : n + 1 \in 1 .. Len(q) /\ 1 < n + 1
  BY <1>1
<1>3. 1 \in 1 .. Len(q)
  BY <1>1
<1>4. \A n \in 1 .. Len(r) : Head(q) < r[n]
  BY <1>1, <1>2, <1>3 DEF Rising
<1>5. Rising(r)
  <2> SUFFICES ASSUME NEW m \in 1 .. Len(r), NEW n \in 1 .. Len(r), m < n PROVE r[m] < r[n]
    BY DEF Rising
  <2>1. m + 1 \in 1 .. Len(q) /\ n + 1 \in 1 .. Len(q) /\ m + 1 < n + 1
    BY <1>2
  <2>2. q[m + 1] < q[n + 1]
    BY <2>1 DEF Rising
  <2> QED
    BY <1>1, <2>2
<1>6. \A b : Below(q, b) => Below(r, b)
  BY <1>1, <1>2 DEF Below
<1> QED
  BY <1>1, <1>2, <1>3, <1>4, <1>5, <1>6 DEF r

\* A queue that stays or is emptied.
LEMMA QueueStays ==
  ASSUME SpeakInv, yQ' \in {yQ, <<>>}
  PROVE  /\ yQ' \in Seq(Nat \ {0}) /\ Rising(yQ') /\ Below(yQ', yMade + 1)
         /\ \A n \in 1 .. Len(yQ') : n \in 1 .. Len(yQ) /\ yQ'[n] = yQ[n]
<1>1. CASE yQ' = yQ
  BY <1>1 DEF SpeakInv, OutTypes, OrderInv
<1>2. CASE yQ' = <<>>
  <2>1. yQ' \in Seq(Nat \ {0}) /\ Len(yQ') = 0
    BY <1>2, EmptySeq
  <2> QED
    BY <2>1 DEF Rising, Below
<1> QED
  BY <1>1, <1>2

\* Steps that move no sentence.
LEMMA SentencesStay ==
  ASSUME SpeakInv, yMade' = yMade, yQ' \in {yQ, <<>>}, yCur' = yCur, yDrain' = yDrain,
         yOut' = yOut \/ (yOut = "loop" /\ yOut' \in {"done", "cancelled"}),
         yStop \subseteq yStop', yJobs' = yJobs, yEnded' = yEnded,
         yMain' = yMain \/ yMain' # "closed" \/ Finished
  PROVE  SpeakInv'
<1>1. OutTypes' /\ OutInv'
  BY QueueStays DEF SpeakInv, OutTypes, OutInv, Finished
<1>2. OrderInv'
  BY QueueStays DEF SpeakInv, OrderInv, Rising, Below
<1>3. StopInv'
  BY DEF SpeakInv, StopInv
<1> QED
  BY <1>1, <1>2, <1>3 DEF SpeakInv

\* A new sentence goes to the end of the queue.
LEMMA TextArrives ==
  ASSUME SpeakInv, yMade' = yMade + 1, yQ' = Append(yQ, yMade'), yCur' = yCur, yDrain' = yDrain,
         yOut' = yOut, yStop' = yStop, yJobs' = yJobs, yEnded' = yEnded, yMain' = yMain
  PROVE  SpeakInv'
<1>0. yMade + 1 \in Nat \ {0} /\ Below(yQ, yMade + 1) /\ yQ \in Seq(Nat \ {0}) /\ Rising(yQ)
      /\ Len(yQ) \in Nat
  BY LenProperties DEF SpeakInv, OutTypes, OrderInv
<1>1. /\ yQ' \in Seq(Nat \ {0}) /\ Rising(yQ') /\ Len(yQ') = Len(yQ) + 1
      /\ yQ'[Len(yQ) + 1] = yMade + 1 /\ \A n \in 1 .. Len(yQ) : yQ'[n] = yQ[n]
      /\ \A b \in Nat : Below(yQ, b) /\ yMade + 1 < b => Below(yQ', b)
  BY <1>0, RisingAppend
<1>2. OutTypes' /\ OutInv' /\ StopInv'
  BY <1>1 DEF SpeakInv, OutTypes, OutInv, StopInv, Finished
<1>3. \A n \in 1 .. Len(yJobs) : yJobs[n] \in Nat
  BY ElementOfSeq DEF SpeakInv, OutTypes
<1>4. \A n \in 1 .. Len(yQ) : yQ[n] \in Nat
  BY ElementOfSeq DEF SpeakInv, OutTypes
<1>5. Below(yQ', yMade' + 1) /\ Below(yJobs', yMade' + 1) /\ \A e \in yEnded' : e <= yMade'
  <2>1. Below(yQ, yMade + 2) /\ Below(yJobs, yMade + 2)
    BY <1>3, <1>4 DEF SpeakInv, OrderInv, OutTypes, Below
  <2>2. \A e \in yEnded : e <= yMade + 1
    BY DEF SpeakInv, OrderInv, OutTypes
  <2>3. yMade + 2 \in Nat /\ yMade + 1 < yMade + 2 /\ (yMade + 1) + 1 = yMade + 2
    BY DEF SpeakInv, OutTypes
  <2> QED
    BY <1>1, <2>1, <2>2, <2>3
<1>6. ASSUME NEW n \in 1 .. Len(yQ')
      PROVE  Below(yJobs, yQ'[n]) /\ yCur < yQ'[n] /\ \A e \in yEnded : e < yQ'[n]
  <2>1. CASE n \in 1 .. Len(yQ)
    BY <1>1, <2>1 DEF SpeakInv, OrderInv
  <2>2. CASE n = Len(yQ) + 1
    BY <1>1, <2>2 DEF SpeakInv, OrderInv, OutTypes
  <2> QED
    BY <1>0, <1>1, <2>1, <2>2
<1>7. OrderInv'
  BY <1>1, <1>5, <1>6 DEF SpeakInv, OrderInv, Below
<1> QED
  BY <1>2, <1>7 DEF SpeakInv

\* A sentence is given up or is over; its thread has ended or is told to stop.
LEMMA SentenceLeft ==
  ASSUME SpeakInv, yMade' = yMade, yQ' = yQ, yCur' = 0, yDrain' = "none", yOut = "drain",
         yOut' \in {"loop", "raised"}, yStop \subseteq yStop', yJobs' = yJobs, yEnded' = yEnded,
         yDrain = "play" => yCur \in yStop', yMain' = yMain
  PROVE  SpeakInv'
<1>1. OutTypes' /\ OutInv'
  BY DEF SpeakInv, OutTypes, OutInv, Finished
<1>2. OrderInv'
  <2>1. \A n \in 1 .. Len(yQ) : 0 < yQ[n]
    BY ElementOfSeq DEF SpeakInv, OutTypes
  <2> QED
    BY <2>1 DEF SpeakInv, OrderInv, Rising, Below
<1>3. StopInv'
  BY DEF SpeakInv, StopInv
<1> QED
  BY <1>1, <1>2, <1>3 DEF SpeakInv

\* drain() goes on to a point that is not before its job.
LEMMA DrainMoves ==
  ASSUME SpeakInv, yMade' = yMade, yQ' \in {yQ, <<>>}, yCur' = yCur, yOut' = yOut,
         yDrain \in {"acquire", "play"}, yDrain' \in {"done", "cancelled", "raised"},
         yStop \subseteq yStop', yJobs' = yJobs, yEnded' = yEnded,
         yDrain = "play" => yCur \in yStop' \/ yCur \in yEnded, yMain' = yMain
  PROVE  SpeakInv'
<1>1. OutTypes' /\ OutInv'
  BY QueueStays DEF SpeakInv, OutTypes, OutInv, Finished
<1>2. OrderInv'
  BY QueueStays DEF SpeakInv, OrderInv, Rising, Below
<1>3. StopInv'
  <2>1. \A n \in 1 .. Len(yJobs) : yJobs[n] \notin yEnded
    <3>1. \A n \in 1 .. Len(yJobs) : yJobs[n] \in Nat /\ yJobs[n] \in yEnded => yJobs[n] < yJobs[n]
      BY ElementOfSeq DEF SpeakInv, OrderInv, OutTypes
    <3>2. \A n \in 1 .. Len(yJobs) : yJobs[n] \in Nat
      BY ElementOfSeq DEF SpeakInv, OutTypes
    <3> QED
      BY <3>1, <3>2
  <2> QED
    BY <2>1 DEF SpeakInv, StopInv
<1> QED
  BY <1>1, <1>2, <1>3 DEF SpeakInv

\* A session starts with nothing queued and nothing on the thread.
LEMMA SpeakStart == YInit => SpeakInv
<1> SUFFICES ASSUME YInit PROVE SpeakInv
  OBVIOUS
<1>1. /\ yMade = 0 /\ yQ = <<>> /\ yJobs = <<>> /\ yEnded = {} /\ yCur = 0 /\ yDrain = "none"
      /\ yOut = "loop" /\ yMain = "gather" /\ <<>> \in Seq(Nat \ {0}) /\ Len(<<>>) = 0
  BY EmptySeq DEF YInit
<1>2. OutTypes /\ OutInv
  BY <1>1 DEF OutTypes, OutInv, Finished
<1>3. OrderInv /\ StopInv
  BY <1>1 DEF OrderInv, StopInv, Rising, Below
<1> QED
  BY <1>2, <1>3 DEF SpeakInv

\* tts_out_task takes the next sentence.
LEMMA TakesNext ==
  ASSUME SpeakInv, OutTakes
  PROVE  SpeakInv'
<1>0. /\ yOut = "loop" /\ yQ # <<>> /\ yCur' = Head(yQ) /\ yQ' = Tail(yQ) /\ yDrain' = "acquire"
      /\ yOut' = "drain" /\ yMade' = yMade /\ yJobs' = yJobs /\ yEnded' = yEnded /\ yStop' = yStop
      /\ yMain' = yMain
  BY DEF OutTakes, ySynth, yRest
<1>1. yQ \in Seq(Nat \ {0}) /\ Rising(yQ) /\ Below(yQ, yMade + 1) /\ yMade \in Nat
  BY DEF SpeakInv, OutTypes, OrderInv
<1>2. /\ yQ' \in Seq(Nat \ {0}) /\ yCur' \in Nat \ {0} /\ Rising(yQ')
      /\ yCur' = yQ[1] /\ 1 \in 1 .. Len(yQ)
      /\ \A n \in 1 .. Len(yQ') :
           n + 1 \in 1 .. Len(yQ) /\ yQ'[n] = yQ[n + 1] /\ yCur' < yQ'[n]
      /\ \A b : Below(yQ, b) => Below(yQ', b)
  BY <1>0, <1>1, RisingTail
<1>3. yCur' <= yMade
  BY <1>1, <1>2 DEF Below
<1>4. OutTypes' /\ Below(yQ', yMade + 1)
  BY <1>0, <1>1, <1>2, <1>3 DEF SpeakInv, OutTypes
<1>5. yMain # "closed"
  BY <1>0 DEF OutTakes, SpeakInv, OutInv, Finished
<1>6. OutInv'
  BY <1>0, <1>2, <1>5 DEF OutInv, Finished
<1>7. OrderInv'
  BY <1>0, <1>2, <1>4 DEF SpeakInv, OrderInv, Below, Rising
<1>8. StopInv'
  BY <1>0 DEF SpeakInv, StopInv, OutInv
<1> QED
  BY <1>4, <1>6, <1>7, <1>8 DEF SpeakInv

\* The job of a sentence goes to the executor.
LEMMA JobSubmitted ==
  ASSUME SpeakInv, DrainStarts
  PROVE  SpeakInv'
<1>0. /\ yDrain = "acquire" /\ yDrain' = "play" /\ yJobs' = Append(yJobs, yCur) /\ yCur' = yCur
      /\ yOut' = yOut /\ yMade' = yMade /\ yQ' = yQ /\ yEnded' = yEnded /\ yStop' = yStop
      /\ yMain' = yMain
  BY DEF DrainStarts, yText, yRest
<1>1. /\ yJobs \in Seq(Nat \ {0}) /\ Rising(yJobs) /\ yCur \in Nat \ {0} /\ Below(yJobs, yCur)
      /\ yMade \in Nat /\ yCur <= yMade /\ Len(yJobs) \in Nat
  BY <1>0, LenProperties DEF SpeakInv, OutTypes, OutInv, OrderInv
<1>2. /\ yJobs' \in Seq(Nat \ {0}) /\ Rising(yJobs') /\ Len(yJobs') = Len(yJobs) + 1
      /\ yJobs'[Len(yJobs) + 1] = yCur /\ \A n \in 1 .. Len(yJobs) : yJobs'[n] = yJobs[n]
      /\ \A b \in Nat : Below(yJobs, b) /\ yCur < b => Below(yJobs', b)
  BY <1>0, <1>1, RisingAppend
<1>3. OutTypes' /\ OutInv'
  BY <1>0, <1>2 DEF SpeakInv, OutTypes, OutInv, Finished
<1>4. \A n \in 1 .. Len(yJobs') : n \in 1 .. Len(yJobs) \/ n = Len(yJobs) + 1
  BY <1>1, <1>2
<1>5. Below(yJobs', yMade + 1)
  <2>1. yMade + 1 \in Nat /\ yCur < yMade + 1 /\ Below(yJobs, yMade + 1)
    BY <1>1 DEF SpeakInv, OrderInv
  <2> QED
    BY <1>2, <2>1
<1>6. \A e \in yEnded : \A n \in 1 .. Len(yJobs') : e < yJobs'[n]
  BY <1>0, <1>2, <1>4 DEF SpeakInv, OrderInv
<1>7. \A n \in 1 .. Len(yQ) : Below(yJobs', yQ[n])
  <2> TAKE n \in 1 .. Len(yQ)
  <2>1. yQ[n] \in Nat /\ Below(yJobs, yQ[n]) /\ yCur < yQ[n]
    BY ElementOfSeq DEF SpeakInv, OutTypes, OrderInv
  <2> QED
    BY <1>2, <2>1
<1>8. OrderInv'
  BY <1>0, <1>2, <1>5, <1>6, <1>7 DEF SpeakInv, OrderInv, Below, Rising
<1>9. StopInv'
  BY <1>0, <1>2, <1>4 DEF SpeakInv, StopInv
<1> QED
  BY <1>3, <1>8, <1>9 DEF SpeakInv

\* The first job is done.
LEMMA JobEnds ==
  ASSUME SpeakInv, SynthEnds
  PROVE  SpeakInv'
<1>0. /\ yJobs # <<>> /\ yEnded' = yEnded \cup {Head(yJobs)} /\ yJobs' = Tail(yJobs)
      /\ yCur' = yCur /\ yOut' = yOut /\ yMade' = yMade /\ yQ' = yQ /\ yStop' = yStop
      /\ yDrain' = yDrain /\ yMain' = yMain
  BY DEF SynthEnds, yText, yTasks, yRest
<1>1. yJobs \in Seq(Nat \ {0}) /\ Rising(yJobs) /\ Below(yJobs, yMade + 1) /\ yMade \in Nat
  BY DEF SpeakInv, OutTypes, OrderInv
<1>2. /\ yJobs' \in Seq(Nat \ {0}) /\ Head(yJobs) \in Nat \ {0} /\ Rising(yJobs')
      /\ Head(yJobs) = yJobs[1] /\ 1 \in 1 .. Len(yJobs)
      /\ \A n \in 1 .. Len(yJobs') :
           n + 1 \in 1 .. Len(yJobs) /\ yJobs'[n] = yJobs[n + 1] /\ Head(yJobs) < yJobs'[n]
      /\ \A b : Below(yJobs, b) => Below(yJobs', b)
  BY <1>0, <1>1, RisingTail
<1> DEFINE h == Head(yJobs)
<1> HIDE DEF h
<1>3. h \in Nat /\ h <= yMade /\ \A b : Below(yJobs, b) => h < b
  BY <1>1, <1>2 DEF Below, h
<1>4. OutTypes' /\ OutInv'
  BY <1>0, <1>2 DEF SpeakInv, OutTypes, OutInv, Finished
<1>5. \A e \in yEnded' : e \in yEnded \/ e = h
  BY <1>0 DEF h
<1>6. /\ \A e \in yEnded' : e <= yMade
      /\ \A e \in yEnded' : \A n \in 1 .. Len(yJobs') : e < yJobs'[n]
  BY <1>2, <1>3, <1>5 DEF SpeakInv, OrderInv, h
<1>7. \A n \in 1 .. Len(yQ) : Below(yJobs', yQ[n]) /\ \A e \in yEnded' : e < yQ[n]
  BY <1>2, <1>3, <1>5 DEF SpeakInv, OrderInv
<1>8. yDrain = "acquire" => Below(yJobs', yCur) /\ \A e \in yEnded' : e < yCur
  BY <1>2, <1>3, <1>5 DEF SpeakInv, OrderInv
<1>9. OrderInv'
  BY <1>0, <1>1, <1>2, <1>6, <1>7, <1>8 DEF SpeakInv, OrderInv, Below, Rising
<1>10. StopInv'
  BY <1>0, <1>2 DEF SpeakInv, StopInv
<1> QED
  BY <1>4, <1>9, <1>10 DEF SpeakInv

\* Every step keeps the invariant.
LEMMA SpeakStep ==
  ASSUME SpeakInv, [YNext]_yVars
  PROVE  SpeakInv'
<1> USE DEF yText, yFlags, yTasks, ySynth, yRest
<1>1. CASE OnText \/ OnFlush
  <2>1. /\ yCur' = yCur /\ yDrain' = yDrain /\ yOut' = yOut /\ yStop' = yStop
        /\ yJobs' = yJobs /\ yEnded' = yEnded /\ yMain' = yMain
        /\ \/ yMade' = yMade /\ yQ' = yQ
           \/ yMade' = yMade + 1 /\ yQ' = Append(yQ, yMade')
    BY <1>1 DEF OnText, OnFlush
  <2> QED
    BY <2>1, TextArrives, SentencesStay
<1>2. CASE OnAbort \/ OnSpeechStart
  <2>1. /\ yMade' = yMade /\ yQ' \in {yQ, <<>>} /\ yCur' = yCur /\ yOut' = yOut
        /\ yDrain' = IF yDrain \in {"acquire", "play"} THEN "cancelled" ELSE yDrain
        /\ yStop' = yStop \cup ({yCur} \ {0}) /\ yJobs' = yJobs /\ yEnded' = yEnded
        /\ yMain' = yMain
    BY <1>2 DEF OnAbort, OnSpeechStart, CancelDrain
  <2>2. CASE yDrain \in {"acquire", "play"}
    <3>1. yCur # 0
      BY <2>2 DEF SpeakInv, OutInv
    <3> QED
      BY <2>1, <2>2, <3>1, DrainMoves
  <2>3. CASE yDrain \notin {"acquire", "play"}
    BY <2>1, <2>3, SentencesStay
  <2> QED
    BY <2>2, <2>3
<1>3. CASE OnEos \/ SocketBreaks \/ OnDisconnect \/ Kick \/ AsrOver
  BY <1>3, SentencesStay DEF OnEos, SocketBreaks, OnDisconnect, Kick, AsrOver
<1>4. CASE OutLeaves \/ OutFlushed \/ OutCancelled
  BY <1>4, SentencesStay DEF OutLeaves, OutFlushed, OutCancelled, Sending
<1>5. CASE OutTakes
  BY <1>5, TakesNext
<1>6. CASE OutDeadline \/ OutBargeIn
  <2>1. /\ yMade' = yMade /\ yQ' = yQ /\ yCur' = 0 /\ yDrain' = "none" /\ yOut = "drain"
        /\ yOut' = "loop" /\ yStop' = yStop \cup {yCur} /\ yJobs' = yJobs /\ yEnded' = yEnded
        /\ yMain' = yMain
    BY <1>6 DEF OutDeadline, OutBargeIn, SentenceOver
  <2> QED
    BY <2>1, SentenceLeft
<1>7. CASE OutNext \/ OutRaises
  <2>1. /\ yMade' = yMade /\ yQ' = yQ /\ yCur' = 0 /\ yDrain' = "none" /\ yOut = "drain"
        /\ yOut' \in {"loop", "raised"} /\ yStop' = yStop /\ yJobs' = yJobs /\ yEnded' = yEnded
        /\ yMain' = yMain /\ yDrain # "play"
    BY <1>7 DEF OutNext, OutRaises, SentenceOver
  <2> QED
    BY <2>1, SentenceLeft
<1>8. CASE DrainStarts
  BY <1>8, JobSubmitted
<1>9. CASE DrainRefused \/ DrainEnds
  <2>1. /\ yMade' = yMade /\ yQ' = yQ /\ yCur' = yCur /\ yOut' = yOut
        /\ yDrain \in {"acquire", "play"} /\ yDrain' \in {"done", "raised"}
        /\ yStop \subseteq yStop' /\ yJobs' = yJobs /\ yEnded' = yEnded
        /\ yDrain = "play" => yCur \in yStop' \/ yCur \in yEnded
        /\ yMain' = yMain
    BY <1>9 DEF DrainRefused, DrainEnds
  <2> QED
    BY <2>1, DrainMoves
<1>10. CASE SynthEnds
  BY <1>10, JobEnds
<1>11. CASE TeardownTts
  BY <1>11, SentencesStay DEF TeardownTts
<1>12. CASE CloseTts
  BY <1>12, SentencesStay DEF CloseTts
<1>13. CASE UNCHANGED yVars
  BY <1>13, SentencesStay DEF yVars
<1> QED
  BY <1>1, <1>2, <1>3, <1>4, <1>5, <1>6, <1>7, <1>8, <1>9, <1>10, <1>11, <1>12, <1>13
  DEF YNext, OutStep, DrainStep, MainStep

\* The invariant implies both properties.
LEMMA SpeakHolds == SpeakInv => LeftBehindStops /\ SynthOrder
<1> SUFFICES ASSUME SpeakInv PROVE LeftBehindStops /\ SynthOrder
  OBVIOUS
<1>1. DOMAIN yJobs = 1 .. Len(yJobs)
  BY LenProperties DEF SpeakInv, OutTypes
<1>2. yMain = "closed" => yDrain = "none"
  BY DEF SpeakInv, OutInv, Finished
<1>3. LeftBehindStops
  BY <1>1, <1>2 DEF SpeakInv, StopInv, LeftBehindStops
<1>4. SynthOrder
  BY <1>1 DEF SpeakInv, OrderInv, Rising, SynthOrder
<1> QED
  BY <1>3, <1>4

\* A thread that is left behind by a barge-in, a deadline or a teardown of /v2v/stream has
\* its stop event set, for any number of sentences and however long the threads take.
THEOREM LeftBehindCorrect == YSpec => []LeftBehindStops
<1>1. SpeakInv /\ [YNext]_yVars => SpeakInv'
  BY SpeakStep
<1> QED
  BY SpeakStart, SpeakHolds, <1>1, PTL DEF YSpec

\* The executor gets each sentence once and in order: main.py, tts_out_task() and drain().
THEOREM SynthOrderCorrect == YSpec => []SynthOrder
<1>1. SpeakInv /\ [YNext]_yVars => SpeakInv'
  BY SpeakStep
<1> QED
  BY SpeakStart, SpeakHolds, <1>1, PTL DEF YSpec
=============================================================================
