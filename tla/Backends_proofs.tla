--------------------------- MODULE Backends_proofs ---------------------------
(***************************************************************************)
(* TLAPS proofs about CtxPool, EngineStreams, Moss, Watchdog, Speakers and *)
(* RkLlm: the backends that synthesise and their helpers, for any threads, *)
(* streams, slots, speakers and chats.                                     *)
(***************************************************************************)
EXTENDS CtxPool, EngineStreams, Moss, Watchdog, Speakers, RkLlm,
        SequenceTheorems, WellFoundedInduction, TLAPS

-----------------------------------------------------------------------------
(* CtxPool *)

\* A thread holds a slot exactly between get() and put().
Holding(c) == gPc[c] \in {"run", "sync", "unwind", "put", "putraise"}
HeldOf(c) ==
  /\ gSlot[c] # NoSlot <=> Holding(c)
  /\ gSlot[c] <= gMade
  /\ \A d \in GThreads : gSlot[d] = gSlot[c] /\ Holding(c) => d = c
HeldInv == \A c \in GThreads : HeldOf(c)

\* The stages still to run and the segments that are left.
StageOf(c) ==
  /\ gPc[c] = "sync" => gStage[c] # <<>>
  /\ gKind = "matcha" => gStage[c] \in Seq({"sync"})
  /\ gPc[c] \in {"check", "get", "oneoff", "run", "sync", "unwind", "put", "putraise", "next"}
       => gLeft[c] # 0
StageInv ==
  /\ gKind = "matcha" => gMode \in MatchaModes \cup {"none"}
  /\ \A c \in GThreads : StageOf(c)

\* A slot is dirty only in the hands of a thread that will still reset it, and Matcha,
\* which does not wait before the reset, leaves a kernel running only where it waits.
DirtyOf(s) ==
  /\ gUsed[s] # 0 \/ gOver[s] # 0 =>
       \E c \in GThreads : gSlot[c] = s /\ gPc[c] \in {"run", "sync", "unwind"}
  /\ s \in gBusy =>
       \E c \in GThreads : gSlot[c] = s /\ \/ gPc[c] = "sync"
                                           \/ gKind = "kokoro" /\ gPc[c] \in {"run", "unwind"}
DirtyInv == \A s \in SlotIds : DirtyOf(s)

\* The slots in the queue, which are in it once and in nobody's hands.
QueueInv ==
  \A i \in 1 .. Len(gQueue) :
    /\ gQueue[i] <= gMade
    /\ \A c \in GThreads : gSlot[c] # gQueue[i]
    /\ \A j \in 1 .. Len(gQueue) : gQueue[j] = gQueue[i] => j = i
SlotsThere ==
  \A s \in gSlots : /\ s <= gMade
                    /\ \/ \E c \in GThreads : gSlot[c] = s
                       \/ \E i \in 1 .. Len(gQueue) : gQueue[i] = s

PoolInv == GTypeOK /\ HeldInv /\ StageInv /\ DirtyInv /\ QueueInv /\ SlotsThere

-----------------------------------------------------------------------------
\* The invariant implies the property.
LEMMA PoolInvClean == PoolInv => SlotsClean
<1> SUFFICES ASSUME PoolInv PROVE SlotsClean
  OBVIOUS
<1>1. ASSUME NEW i \in 1 .. Len(gQueue)
      PROVE  gQueue[i] \notin gBusy /\ gUsed[gQueue[i]] = 0 /\ gOver[gQueue[i]] = 0
  <2>1. gQueue[i] \in SlotIds
    BY ElementOfSeq DEF PoolInv, GTypeOK
  <2>2. \A c \in GThreads : gSlot[c] # gQueue[i]
    BY DEF PoolInv, QueueInv
  <2> QED
    BY <2>1, <2>2 DEF PoolInv, DirtyInv, DirtyOf
<1>2. \A i \in 1 .. Len(gQueue) : /\ \A c \in GThreads : gSlot[c] # gQueue[i]
                                  /\ \A j \in 1 .. Len(gQueue) : gQueue[j] = gQueue[i] => j = i
  BY DEF PoolInv, QueueInv
<1>3. \A s \in gSlots : \/ \E c \in GThreads : gSlot[c] = s
                        \/ \E i \in 1 .. Len(gQueue) : gQueue[i] = s
  BY DEF PoolInv, SlotsThere
<1> QED
  BY <1>1, <1>2, <1>3 DEF SlotsClean

\* A backend that is not loaded has an empty pool.
LEMMA PoolInit == GInit({"kokoro", "matcha"}) => PoolInv
<1> SUFFICES ASSUME GInit({"kokoro", "matcha"}) PROVE PoolInv
  OBVIOUS
<1> USE PoolBounds DEF GInit, NoSlot, SlotIds
<1>1. <<>> \in Seq(SlotIds) /\ <<>> \in Seq({"sync"}) /\ Len(<<>>) = 0
      /\ <<>> \in Seq({"free", "sync", "async"})
  BY EmptySeq
<1>2. GTypeOK
  <2>1. /\ gKind \in {"kokoro", "matcha"} /\ gMode \in KokoroModes \cup MatchaModes \cup {"none"}
        /\ gLoaded \in BOOLEAN /\ gReady \in BOOLEAN
    OBVIOUS
  <2>2. gSlots \subseteq SlotIds /\ gMade \in 0 .. MaxSlots /\ gBusy \subseteq SlotIds
    OBVIOUS
  <2>3. gQueue \in Seq(SlotIds) /\ gStage \in [GThreads -> Seq({"free", "sync", "async"})]
    BY <1>1
  <2>4. gUsed \in [SlotIds -> 0 .. Arena] /\ gOver \in [SlotIds -> Nat]
        /\ gLeft \in [GThreads -> 0 .. 2] /\ gSlot \in [GThreads -> SlotIds \cup {NoSlot}]
    OBVIOUS
  <2> QED
    BY <2>1, <2>2, <2>3, <2>4 DEF GTypeOK
<1>3. HeldInv
  BY DEF HeldInv, HeldOf, Holding
<1>4. StageInv
  BY <1>1 DEF StageInv, StageOf
<1>5. DirtyInv /\ QueueInv /\ SlotsThere
  BY <1>1 DEF DirtyInv, DirtyOf, QueueInv, SlotsThere
<1> QED
  BY <1>2, <1>3, <1>4, <1>5 DEF PoolInv

\* The stages of a mode.
LEMMA StagesType ==
  /\ StagesOf(gMode) \in Seq({"free", "sync", "async"})
  /\ gMode \in MatchaModes \cup {"none"} => StagesOf(gMode) \in Seq({"sync"})
<1>1. AcousticStages \o VocosStages \in Seq({"sync"})
  <2>1. <<"sync">> \in Seq({"sync"})
    OBVIOUS
  <2> QED
    BY <2>1, ConcatProperties DEF AcousticStages, VocosStages
<1>2. ASSUME NEW t \in Seq({"sync"}) PROVE t \in Seq({"free", "sync", "async"})
  OBVIOUS
<1>3. CASE gMode = "engine"
  BY <1>3 DEF StagesOf, EngineStages, MatchaModes
<1>4. CASE gMode = "hybrid"
  BY <1>4 DEF StagesOf, HybridStages, MatchaModes
<1>5. CASE gMode = "split"
  BY <1>5 DEF StagesOf, SplitStages, MatchaModes
<1>6. CASE gMode = "split_cpu_source"
  BY <1>6 DEF StagesOf, SplitStages, MatchaModes
<1>7. CASE gMode \notin {"engine", "hybrid", "split", "split_cpu_source"}
  <2>1. StagesOf(gMode) \in {AcousticStages \o VocosStages, VocosStages, <<>>}
    BY <1>7 DEF StagesOf
  <2>2. VocosStages \in Seq({"sync"}) /\ <<>> \in Seq({"sync"})
    BY DEF VocosStages
  <2> QED
    BY <1>1, <1>2, <2>1, <2>2
<1> QED
  BY <1>3, <1>4, <1>5, <1>6, <1>7

\* A thread moves outside the slots.
LEMMA OutsideKeeps ==
  ASSUME PoolInv, NEW c \in GThreads, ~Holding(c),
         NEW p \in {"idle", "check", "get", "oneoff", "next", "end", "raised"}, GGoto(c, p),
         UNCHANGED <<gKind, gMode, gSlots, gMade, gQueue, gDevice, gSlot, gStage>>,
         gLoaded' \in BOOLEAN, gReady' \in BOOLEAN,
         NEW n \in 0 .. 2, gLeft' = [gLeft EXCEPT ![c] = n],
         p \in {"check", "get", "oneoff", "next"} => n # 0
  PROVE  PoolInv'
<1>1. GTypeOK'
  BY DEF PoolInv, GTypeOK, GGoto, gDevice
<1>2. HeldInv'
  BY DEF PoolInv, GTypeOK, GGoto, HeldInv, HeldOf, Holding
<1>3. StageInv'
  BY DEF PoolInv, GTypeOK, GGoto, StageInv, StageOf
<1>4. DirtyInv'
  <2>1. ASSUME NEW s \in SlotIds PROVE DirtyOf(s)'
    <3>1. DirtyOf(s)
      BY DEF PoolInv, DirtyInv
    <3>2. \A d \in GThreads : Holding(d) => gPc'[d] = gPc[d]
      BY DEF PoolInv, GTypeOK, GGoto
    <3> QED
      BY <3>1, <3>2 DEF DirtyOf, gDevice, Holding
  <2> QED
    BY <2>1 DEF DirtyInv
<1>5. QueueInv' /\ SlotsThere'
  BY DEF PoolInv, QueueInv, SlotsThere
<1> QED
  BY <1>1, <1>2, <1>3, <1>4, <1>5 DEF PoolInv

\* The steps of a thread that touch no slot.
LEMMA OutsideSteps ==
  ASSUME PoolInv, NEW c \in GThreads,
         \/ KokoroTokenless(c) \/ CheckSlots(c) \/ OneOff(c) \/ NextSegment(c)
         \/ Synthesize(c)
         \/ c = Owner /\ (PreloadReturns \/ PreloadRaises)
  PROVE  PoolInv'
<1>1. /\ gPc[c] \in {"idle", "check", "get", "oneoff", "next", "end", "raised"}
      /\ UNCHANGED <<gKind, gMode, gSlots, gMade, gQueue, gDevice, gSlot, gStage>>
      /\ gLoaded' \in BOOLEAN /\ gReady' \in BOOLEAN
  BY DEF KokoroTokenless, CheckSlots, OneOff, NextSegment, Synthesize, PreloadReturns,
         PreloadRaises,
     gBackend, PoolInv, GTypeOK
<1>2. gLeft[c] \in 0 .. 2 /\ (gPc[c] \in {"check", "oneoff", "next"} => gLeft[c] # 0)
      /\ gLeft = [gLeft EXCEPT ![c] = gLeft[c]]
  BY DEF PoolInv, GTypeOK, StageInv, StageOf
<1>3. \E p \in {"idle", "check", "get", "oneoff", "next", "end", "raised"}, n \in 0 .. 2 :
        /\ GGoto(c, p) /\ gLeft' = [gLeft EXCEPT ![c] = n]
        /\ p \in {"check", "get", "oneoff", "next"} => n # 0
  <2>1. CASE KokoroTokenless(c)
    BY <1>2, <2>1 DEF KokoroTokenless
  <2>2. CASE CheckSlots(c)
    BY <1>2, <2>2 DEF CheckSlots
  <2>3. CASE OneOff(c)
    BY <1>2, <2>3 DEF OneOff, Raised
  <2>4. CASE NextSegment(c)
    <3>1. gLeft[c] - 1 \in 0 .. 2 /\ (gLeft[c] > 1 => gLeft[c] - 1 # 0)
          /\ gLeft' = [gLeft EXCEPT ![c] = gLeft[c] - 1]
      BY <1>2, <2>4 DEF NextSegment
    <3> QED
      BY <2>4, <3>1 DEF NextSegment
  <2>5. CASE Synthesize(c)
    <3>1. PICK n \in TextSegments : gLeft' = [gLeft EXCEPT ![c] = n]
      BY <2>5 DEF Synthesize
    <3>2. n \in 0 .. 2 /\ n # 0
      BY <3>1 DEF TextSegments
    <3> QED
      BY <2>5, <3>1, <3>2 DEF Synthesize
  <2>6. CASE c = Owner /\ (PreloadReturns \/ PreloadRaises)
    BY <1>2, <2>6 DEF PreloadReturns, PreloadRaises
  <2> QED
    BY <2>1, <2>2, <2>3, <2>4, <2>5, <2>6
<1>4. ~Holding(c)
  BY <1>1 DEF Holding
<1> QED
  BY <1>1, <1>3, <1>4, OutsideKeeps

\* A thread moves on with its slot: who holds what is as before.
LEMMA InsideKeeps ==
  ASSUME PoolInv, NEW c \in GThreads, Holding(c),
         NEW p \in {"run", "sync", "unwind", "put", "putraise"}, GGoto(c, p),
         UNCHANGED <<gKind, gSlots, gMade, gQueue, gSlot, gLeft>>
  PROVE  /\ HeldInv' /\ QueueInv' /\ SlotsThere'
         /\ gPc'[c] = p /\ \A d \in GThreads \ {c} : gPc'[d] = gPc[d]
         /\ gSlot[c] \in SlotIds /\ \A d \in GThreads : gSlot[d] = gSlot[c] => d = c
<1>1. gPc'[c] = p /\ \A d \in GThreads \ {c} : gPc'[d] = gPc[d]
  BY DEF PoolInv, GTypeOK, GGoto
<1>2. HeldInv'
  BY <1>1 DEF PoolInv, HeldInv, HeldOf, Holding
<1>3. QueueInv' /\ SlotsThere'
  BY DEF PoolInv, QueueInv, SlotsThere
<1>4. gSlot[c] \in SlotIds /\ \A d \in GThreads : gSlot[d] = gSlot[c] => d = c
  BY DEF PoolInv, HeldInv, HeldOf, GTypeOK
<1> QED
  BY <1>1, <1>2, <1>3, <1>4

\* _run_stage() copies the inputs in and launches on the slot of the thread.
LEMMA LaunchKeeps ==
  ASSUME PoolInv, NEW c \in GThreads, Launch(c)
  PROVE  PoolInv'
<1>1. /\ gPc[c] = "run" /\ gStage[c] # <<>> /\ Holding(c)
      /\ UNCHANGED <<gKind, gMode, gLoaded, gReady, gSlots, gMade, gQueue, gSlot, gLeft>>
      /\ gBusy' = gBusy \cup {gSlot[c]}
  BY DEF Launch, Holding, gBackend
<1>2. gStage[c] \in Seq({"free", "sync", "async"})
  BY DEF PoolInv, GTypeOK
<1>3. gKind = "matcha" => Head(gStage[c]) = "sync"
  <2>1. gKind = "matcha" => gStage[c] \in Seq({"sync"})
    BY DEF PoolInv, StageInv, StageOf
  <2> QED
    BY <1>1, <2>1, HeadTailProperties
<1>4. \/ /\ gKind # "matcha" /\ gStage' = [gStage EXCEPT ![c] = Tail(gStage[c])] /\ GGoto(c, "run")
      \/ GGoto(c, "sync") /\ gStage' = gStage
  <2>1. gPc = [gPc EXCEPT ![c] = "run"]
    BY <1>1 DEF PoolInv, GTypeOK
  <2> QED
    BY <1>3, <2>1 DEF Launch, GGoto
<1>5. PICK p \in {"run", "sync"} :
        /\ GGoto(c, p)
        /\ p = "sync" => gStage' = gStage
        /\ p = "run" => gKind # "matcha" /\ gStage' = [gStage EXCEPT ![c] = Tail(gStage[c])]
  BY <1>4
<1>6. /\ HeldInv' /\ QueueInv' /\ SlotsThere'
      /\ gPc'[c] = p /\ \A d \in GThreads \ {c} : gPc'[d] = gPc[d]
      /\ gSlot[c] \in SlotIds /\ \A d \in GThreads : gSlot[d] = gSlot[c] => d = c
  <2>1. p \in {"run", "sync", "unwind", "put", "putraise"}
    OBVIOUS
  <2> QED
    BY <1>1, <1>5, <2>1, InsideKeeps
<1>7. gStage' \in [GThreads -> Seq({"free", "sync", "async"})]
  <2>1. Tail(gStage[c]) \in Seq({"free", "sync", "async"})
    BY <1>1, <1>2, HeadTailProperties
  <2> QED
    BY <1>5, <2>1 DEF PoolInv, GTypeOK
<1>8. /\ gUsed' \in [SlotIds -> 0 .. Arena] /\ gOver' \in [SlotIds -> Nat]
      /\ \A s \in SlotIds \ {gSlot[c]} : gUsed'[s] = gUsed[s] /\ gOver'[s] = gOver[s]
  <2>1. gUsed[gSlot[c]] \in 0 .. Arena /\ gOver[gSlot[c]] \in Nat
    BY <1>6 DEF PoolInv, GTypeOK
  <2>2. gUsed \in [SlotIds -> 0 .. Arena] /\ gOver \in [SlotIds -> Nat]
    BY DEF PoolInv, GTypeOK
  <2>3. CASE gUsed[gSlot[c]] < Arena
    <3>1. gUsed' = [gUsed EXCEPT ![gSlot[c]] = gUsed[gSlot[c]] + 1] /\ gOver' = gOver
      BY <2>3 DEF Launch, Allocate
    <3>2. gUsed[gSlot[c]] + 1 \in 0 .. Arena
      BY <2>1, <2>3, PoolBounds
    <3> QED
      BY <1>6, <2>2, <3>1, <3>2
  <2>4. CASE ~(gUsed[gSlot[c]] < Arena)
    <3>1. gOver' = [gOver EXCEPT ![gSlot[c]] = gOver[gSlot[c]] + 1] /\ gUsed' = gUsed
      BY <2>4 DEF Launch, Allocate
    <3>2. gOver[gSlot[c]] + 1 \in Nat
      BY <2>1
    <3> QED
      BY <1>6, <2>2, <3>1, <3>2
  <2> QED
    BY <2>3, <2>4
<1>9. GTypeOK'
  <2>1. gPc' \in [GThreads -> {"idle", "check", "get", "oneoff", "run", "sync", "unwind",
                           "put", "putraise", "next", "end", "raised"}]
    BY <1>5 DEF PoolInv, GTypeOK, GGoto
  <2>2. gBusy' \subseteq SlotIds
    BY <1>1, <1>6 DEF PoolInv, GTypeOK
  <2> QED
    BY <1>1, <1>7, <1>8, <2>1, <2>2 DEF PoolInv, GTypeOK
<1>10. StageInv'
  <2>1. gStage'[c] = gStage[c] \/ (gKind # "matcha" /\ gPc'[c] # "sync")
    BY <1>5, <1>6
  <2>2. \A d \in GThreads \ {c} : gStage'[d] = gStage[d]
    BY <1>5 DEF PoolInv, GTypeOK
  <2> QED
    BY <1>1, <1>5, <1>6, <2>1, <2>2 DEF PoolInv, StageInv, StageOf
<1>11. DirtyInv'
  <2>1. ASSUME NEW s \in SlotIds PROVE DirtyOf(s)'
    <3>1. CASE s = gSlot[c]
      <4>1. gSlot'[c] = s /\ gPc'[c] \in {"run", "sync"} /\ (gPc'[c] = "sync" \/ gKind' = "kokoro")
        BY <1>1, <1>5, <1>6, <3>1 DEF PoolInv, GTypeOK
      <4> QED
        BY <4>1 DEF DirtyOf
    <3>2. CASE s # gSlot[c]
      <4>1. DirtyOf(s)
        BY DEF PoolInv, DirtyInv
      <4> QED
        BY <1>1, <1>6, <1>8, <3>2, <4>1 DEF DirtyOf
    <3> QED
      BY <3>1, <3>2
  <2> QED
    BY <2>1 DEF DirtyInv
<1> QED
  BY <1>6, <1>9, <1>10, <1>11 DEF PoolInv

\* synchronize(), an error and the fallback to CPU ORT: no slot becomes dirty.
LEMMA StageStepKeeps ==
  ASSUME PoolInv, NEW c \in GThreads, Synchronize(c) \/ StageRaises(c) \/ ShapeMismatch(c)
  PROVE  PoolInv'
<1>1. /\ gPc[c] \in {"run", "sync"} /\ gStage[c] # <<>> /\ Holding(c)
      /\ UNCHANGED <<gKind, gReady, gSlots, gMade, gQueue, gBusy, gSlot, gLeft>>
      /\ gPc[c] = "sync" => gSlot[c] \notin gBusy
  BY DEF Synchronize, StageRaises, ShapeMismatch, Holding, gBackend, gDevice, PoolInv,
         StageInv, StageOf
<1>2. gStage[c] \in Seq({"free", "sync", "async"}) /\ (gKind = "matcha"
      => gStage[c] \in Seq({"sync"}))
  BY DEF PoolInv, GTypeOK, StageInv, StageOf
<1>3. \E p \in {"run", "unwind"} : GGoto(c, p)
  <2>1. gPc[c] = "run" => gPc = [gPc EXCEPT ![c] = "run"]
    BY DEF PoolInv, GTypeOK
  <2> QED
    BY <2>1 DEF Synchronize, StageRaises, ShapeMismatch, GGoto
<1>4. PICK p \in {"run", "unwind"} : GGoto(c, p)
  BY <1>3
<1>5. /\ HeldInv' /\ QueueInv' /\ SlotsThere'
      /\ gPc'[c] = p /\ \A d \in GThreads \ {c} : gPc'[d] = gPc[d]
      /\ gSlot[c] \in SlotIds /\ \A d \in GThreads : gSlot[d] = gSlot[c] => d = c
  <2>1. p \in {"run", "sync", "unwind", "put", "putraise"}
    OBVIOUS
  <2> QED
    BY <1>1, <1>4, <2>1, InsideKeeps
<1>6. \E t \in Seq({"free", "sync", "async"}) :
        gStage' = [gStage EXCEPT ![c] = t] /\ (gKind = "matcha" => t \in Seq({"sync"}))
  <2>1. /\ Tail(gStage[c]) \in Seq({"free", "sync", "async"})
        /\ gKind = "matcha" => Tail(gStage[c]) \in Seq({"sync"})
    BY <1>1, <1>2, HeadTailProperties
  <2>2. <<>> \in Seq({"free", "sync", "async"}) /\ <<>> \in Seq({"sync"})
    BY EmptySeq
  <2>3. gStage' = [gStage EXCEPT ![c] = Tail(gStage[c])] \/ gStage' = [gStage EXCEPT ![c] = <<>>]
    BY DEF Synchronize, StageRaises, ShapeMismatch
  <2> QED
    BY <2>1, <2>2, <2>3
<1>7. PICK t \in Seq({"free", "sync", "async"}) :
        gStage' = [gStage EXCEPT ![c] = t] /\ (gKind = "matcha" => t \in Seq({"sync"}))
  BY <1>6
<1>8. /\ gUsed' \in [SlotIds -> 0 .. Arena] /\ gOver' \in [SlotIds -> Nat]
      /\ \A s \in SlotIds : gUsed'[s] \in {0, gUsed[s]} /\ gOver'[s] \in {0, gOver[s]}
  <2>1. gUsed \in [SlotIds -> 0 .. Arena] /\ gOver \in [SlotIds -> Nat] /\ 0 \in 0 .. Arena
    BY PoolBounds DEF PoolInv, GTypeOK
  <2>2. FreeAll(gSlot[c]) \/ (gUsed' = gUsed /\ gOver' = gOver)
    BY DEF Synchronize, StageRaises, ShapeMismatch, gDevice
  <2>3. CASE FreeAll(gSlot[c])
    BY <1>5, <2>1, <2>3 DEF FreeAll
  <2>4. CASE gUsed' = gUsed /\ gOver' = gOver
    BY <2>1, <2>4
  <2> QED
    BY <2>2, <2>3, <2>4
<1>9. /\ gMode' \in KokoroModes \cup MatchaModes \cup {"none"} /\ gLoaded' \in BOOLEAN
      /\ gKind = "matcha" => gMode' \in MatchaModes \cup {"none"}
  BY DEF Synchronize, StageRaises, ShapeMismatch, LoadOrt, gBackend, PoolInv, GTypeOK, StageInv,
     KokoroModes, MatchaModes
<1>10. GTypeOK'
  <2>1. gPc' \in [GThreads -> {"idle", "check", "get", "oneoff", "run", "sync", "unwind",
                           "put", "putraise", "next", "end", "raised"}]
    BY <1>4 DEF PoolInv, GTypeOK, GGoto
  <2>2. gStage' \in [GThreads -> Seq({"free", "sync", "async"})]
    BY <1>7 DEF PoolInv, GTypeOK
  <2> QED
    BY <1>1, <1>8, <1>9, <2>1, <2>2 DEF PoolInv, GTypeOK
<1>11. StageInv'
  <2>1. gStage'[c] = t /\ \A d \in GThreads \ {c} : gStage'[d] = gStage[d]
    BY <1>7 DEF PoolInv, GTypeOK
  <2> QED
    BY <1>1, <1>5, <1>7, <1>9, <2>1 DEF PoolInv, StageInv, StageOf
<1>12. DirtyInv'
  <2>1. ASSUME NEW s \in SlotIds PROVE DirtyOf(s)'
    <3>1. DirtyOf(s)
      BY DEF PoolInv, DirtyInv
    <3>2. s = gSlot[c] => gSlot'[c] = s /\ gPc'[c] \in {"run", "unwind"}
      BY <1>1, <1>5
    <3>3. CASE s = gSlot[c]
      <4>1. s \in gBusy => gKind' = "kokoro"
        BY <1>1, <1>5, <3>1, <3>3 DEF DirtyOf
      <4> QED
        BY <1>1, <3>2, <3>3, <4>1 DEF DirtyOf
    <3>4. CASE s # gSlot[c]
      BY <1>1, <1>5, <1>8, <3>1, <3>4 DEF DirtyOf
    <3> QED
      BY <3>3, <3>4
  <2> QED
    BY <2>1 DEF DirtyInv
<1> QED
  BY <1>5, <1>10, <1>11, <1>12 DEF PoolInv

\* reset_per_request() leaves the slot clean.
LEMMA ResetKeeps ==
  ASSUME PoolInv, NEW c \in GThreads, Reset(c)
  PROVE  PoolInv'
<1>1. /\ gPc[c] \in {"run", "unwind"} /\ Holding(c) /\ FreeAll(gSlot[c])
      /\ UNCHANGED <<gKind, gMode, gLoaded, gReady, gSlots, gMade, gQueue, gBusy, gSlot,
         gStage, gLeft>>
      /\ gKind = "kokoro" => gSlot[c] \notin gBusy
  BY DEF Reset, Holding, gBackend
<1>2. PICK p \in {"put", "putraise"} : GGoto(c, p)
  BY DEF Reset
<1>3. /\ HeldInv' /\ QueueInv' /\ SlotsThere'
      /\ gPc'[c] = p /\ \A d \in GThreads \ {c} : gPc'[d] = gPc[d]
      /\ gSlot[c] \in SlotIds /\ \A d \in GThreads : gSlot[d] = gSlot[c] => d = c
  <2>1. p \in {"run", "sync", "unwind", "put", "putraise"}
    OBVIOUS
  <2> QED
    BY <1>1, <1>2, <2>1, InsideKeeps
<1>4. gSlot[c] \notin gBusy
  BY <1>1, <1>3 DEF PoolInv, GTypeOK, DirtyInv, DirtyOf
<1>5. /\ gUsed' \in [SlotIds -> 0 .. Arena] /\ gOver' \in [SlotIds -> Nat]
      /\ gUsed'[gSlot[c]] = 0 /\ gOver'[gSlot[c]] = 0
      /\ \A s \in SlotIds \ {gSlot[c]} : gUsed'[s] = gUsed[s] /\ gOver'[s] = gOver[s]
  BY <1>1, <1>3, PoolBounds DEF FreeAll, PoolInv, GTypeOK
<1>6. GTypeOK'
  <2>1. gPc' \in [GThreads -> {"idle", "check", "get", "oneoff", "run", "sync", "unwind",
                           "put", "putraise", "next", "end", "raised"}]
    BY <1>2 DEF PoolInv, GTypeOK, GGoto
  <2> QED
    BY <1>1, <1>5, <2>1 DEF PoolInv, GTypeOK
<1>7. StageInv'
  BY <1>1, <1>3 DEF PoolInv, StageInv, StageOf
<1>8. DirtyInv'
  <2>1. ASSUME NEW s \in SlotIds PROVE DirtyOf(s)'
    <3>1. DirtyOf(s)
      BY DEF PoolInv, DirtyInv
    <3>2. CASE s = gSlot[c]
      BY <1>1, <1>4, <1>5, <3>2 DEF DirtyOf
    <3>3. CASE s # gSlot[c]
      BY <1>1, <1>3, <1>5, <3>1, <3>3 DEF DirtyOf
    <3> QED
      BY <3>2, <3>3
  <2> QED
    BY <2>1 DEF DirtyInv
<1> QED
  BY <1>3, <1>6, <1>7, <1>8 DEF PoolInv

\* get(): the first slot of the queue goes into the hands of the thread.
LEMMA GetKeeps ==
  ASSUME PoolInv, NEW c \in GThreads, Get(c)
  PROVE  PoolInv'
<1> DEFINE s == Head(gQueue)
<1>1. /\ gPc[c] = "get" /\ gQueue # <<>> /\ gQueue' = Tail(gQueue)
         /\ gPc' = [gPc EXCEPT ![c] = "run"]
      /\ gSlot' = [gSlot EXCEPT ![c] = s]
      /\ UNCHANGED <<gKind, gMode, gLoaded, gReady, gSlots, gMade, gBusy, gUsed, gOver, gLeft>>
  BY DEF Get, GGoto, gBackend, gDevice
<1>2. gQueue \in Seq(SlotIds) /\ Len(gQueue) \in Nat
  BY LenProperties DEF PoolInv, GTypeOK
<1>3. /\ s = gQueue[1] /\ s \in SlotIds /\ gQueue' \in Seq(SlotIds) /\ Len(gQueue) > 0
      /\ Len(gQueue') = Len(gQueue) - 1 /\ \A i \in 1 .. Len(gQueue') : gQueue'[i] = gQueue[i + 1]
  BY <1>1, <1>2, HeadTailProperties, EmptySeq
<1>4. 1 \in 1 .. Len(gQueue) /\ \A i \in 1 .. Len(gQueue') : i + 1 \in 1 .. Len(gQueue) /\ i + 1 # 1
  BY <1>2, <1>3
<1>5. s <= gMade /\ \A d \in GThreads : gSlot[d] # s
  BY <1>3, <1>4 DEF PoolInv, QueueInv
<1>6. /\ gPc'[c] = "run" /\ \A d \in GThreads \ {c} : gPc'[d] = gPc[d]
      /\ gSlot'[c] = s /\ \A d \in GThreads \ {c} : gSlot'[d] = gSlot[d]
      /\ gSlot[c] = NoSlot /\ s # NoSlot
  <2>1. gSlot[c] = NoSlot
    BY <1>1 DEF PoolInv, HeldInv, HeldOf, Holding
  <2> QED
    BY <1>1, <1>3, <2>1 DEF PoolInv, GTypeOK, NoSlot, SlotIds
<1>7. PICK st \in Seq({"free", "sync", "async"}) :
        gStage' = [gStage EXCEPT ![c] = st] /\ (gKind = "matcha" => st \in Seq({"sync"}))
  <2>1. PICK st \in {StagesOf(gMode)} \cup MatchaTokenless : gStage' = [gStage EXCEPT ![c] = st]
    BY DEF Get
  <2>2. st = StagesOf(gMode) \/ st = <<>>
    BY <2>1 DEF MatchaTokenless
  <2>3. <<>> \in Seq({"free", "sync", "async"}) /\ <<>> \in Seq({"sync"})
    BY EmptySeq
  <2>4. gKind = "matcha" => gMode \in MatchaModes \cup {"none"}
    BY DEF PoolInv, StageInv
  <2> QED
    BY <2>1, <2>2, <2>3, <2>4, StagesType
<1> HIDE DEF s
<1>8. GTypeOK'
  <2>1. gPc' \in [GThreads -> {"idle", "check", "get", "oneoff", "run", "sync", "unwind",
                           "put", "putraise", "next", "end", "raised"}]
    BY <1>1 DEF PoolInv, GTypeOK
  <2>2. gStage' \in [GThreads -> Seq({"free", "sync", "async"})]
    BY <1>7 DEF PoolInv, GTypeOK
  <2>3. gSlot' \in [GThreads -> SlotIds \cup {NoSlot}]
    BY <1>1, <1>3 DEF PoolInv, GTypeOK
  <2> QED
    BY <1>1, <1>3, <2>1, <2>2, <2>3 DEF PoolInv, GTypeOK
<1>9. HeldInv'
  BY <1>1, <1>5, <1>6 DEF PoolInv, HeldInv, HeldOf, Holding
<1>10. StageInv'
  <2>1. gStage'[c] = st /\ \A d \in GThreads \ {c} : gStage'[d] = gStage[d]
    BY <1>7 DEF PoolInv, GTypeOK
  <2> QED
    BY <1>1, <1>6, <1>7, <2>1 DEF PoolInv, StageInv, StageOf
<1>11. DirtyInv'
  <2>1. ASSUME NEW x \in SlotIds PROVE DirtyOf(x)'
    <3>1. DirtyOf(x)
      BY DEF PoolInv, DirtyInv
    <3>2. x # gSlot[c]
      BY <1>6 DEF NoSlot, SlotIds
    <3> QED
      BY <1>1, <1>6, <3>1, <3>2 DEF DirtyOf
  <2> QED
    BY <2>1 DEF DirtyInv
<1>12. QueueInv'
  <2>1. ASSUME NEW i \in 1 .. Len(gQueue')
        PROVE  /\ gQueue'[i] <= gMade'
               /\ \A d \in GThreads : gSlot'[d] # gQueue'[i]
               /\ \A j \in 1 .. Len(gQueue') : gQueue'[j] = gQueue'[i] => j = i
    <3>1. /\ gQueue[i + 1] <= gMade /\ \A d \in GThreads : gSlot[d] # gQueue[i + 1]
          /\ \A j \in 1 .. Len(gQueue) : gQueue[j] = gQueue[i + 1] => j = i + 1
      BY <1>4 DEF PoolInv, QueueInv
    <3>2. gQueue[i + 1] # s
      BY <1>3, <1>4, <3>1
    <3>3. \A j \in 1 .. Len(gQueue') : gQueue[j + 1] = gQueue[i + 1] => j + 1 = i + 1
      BY <1>4, <3>1
    <3>4. \A j \in 1 .. Len(gQueue') : j + 1 = i + 1 => j = i
      BY <1>2, <1>3
    <3> QED
      BY <1>1, <1>3, <1>6, <3>1, <3>2, <3>3, <3>4
  <2> QED
    BY <2>1 DEF QueueInv
<1>13. SlotsThere'
  <2>1. ASSUME NEW x \in gSlots
        PROVE  \/ \E d \in GThreads : gSlot'[d] = x
               \/ \E i \in 1 .. Len(gQueue') : gQueue'[i] = x
    <3>1. CASE \E d \in GThreads : gSlot[d] = x
      <4>1. PICK d \in GThreads : gSlot[d] = x
        BY <3>1
      <4>2. d # c
        BY <1>6, <4>1 DEF PoolInv, GTypeOK, NoSlot, SlotIds
      <4> QED
        BY <1>6, <4>1, <4>2
    <3>2. CASE \E i \in 1 .. Len(gQueue) : gQueue[i] = x
      <4>1. PICK i \in 1 .. Len(gQueue) : gQueue[i] = x
        BY <3>2
      <4>2. CASE i = 1
        BY <1>3, <1>6, <4>1, <4>2
      <4>3. CASE i # 1
        <5>1. i - 1 \in 1 .. Len(gQueue') /\ (i - 1) + 1 = i
          BY <1>2, <1>3, <4>3
        <5>2. gQueue'[i - 1] = gQueue[i]
          BY <1>3, <5>1
        <5> QED
          BY <4>1, <5>1, <5>2
      <4> QED
        BY <4>2, <4>3
    <3> QED
      BY <3>1, <3>2 DEF PoolInv, SlotsThere
  <2> QED
    BY <1>1, <2>1 DEF PoolInv, SlotsThere
<1> QED
  BY <1>8, <1>9, <1>10, <1>11, <1>12, <1>13 DEF PoolInv

\* put(): the slot, clean by then, goes to the end of the queue.
LEMMA PutKeeps ==
  ASSUME PoolInv, NEW c \in GThreads, Put(c)
  PROVE  PoolInv'
<1> DEFINE s == gSlot[c]
<1>1. /\ gPc[c] \in {"put", "putraise"} /\ Holding(c) /\ gQueue' = Append(gQueue, s)
      /\ gSlot' = [gSlot EXCEPT ![c] = NoSlot]
      /\ UNCHANGED <<gKind, gMode, gLoaded, gReady, gSlots, gMade, gBusy, gUsed, gOver, gStage>>
  BY DEF Put, Holding, gBackend, gDevice
<1>2. /\ s \in SlotIds /\ s # NoSlot /\ s <= gMade
      /\ \A d \in GThreads : gSlot[d] = s => d = c
  BY <1>1 DEF PoolInv, GTypeOK, HeldInv, HeldOf
<1>3. PICK p \in {"next", "end", "raised"} : gPc' = [gPc EXCEPT ![c] = p]
  BY DEF Put, Raised, GGoto
<1>4. gLeft' = gLeft \/ (gLeft' = [gLeft EXCEPT ![c] = 0] /\ p # "next")
  <2>1. CASE gPc[c] = "put"
    BY <2>1 DEF Put
  <2>2. CASE gPc[c] # "put"
    <3>1. gLeft' = [gLeft EXCEPT ![c] = 0] /\ \E q \in {"raised",
          "end"} : gPc' = [gPc EXCEPT ![c] = q]
      BY <2>2 DEF Put, Raised, GGoto
    <3>2. p # "next"
      BY <1>3, <3>1 DEF PoolInv, GTypeOK
    <3> QED
      BY <3>1, <3>2
  <2> QED
    BY <2>1, <2>2
<1>5. gQueue \in Seq(SlotIds) /\ Len(gQueue) \in Nat
  BY LenProperties DEF PoolInv, GTypeOK
<1>6. /\ gQueue' \in Seq(SlotIds) /\ Len(gQueue') = Len(gQueue) + 1
      /\ gQueue'[Len(gQueue) + 1] = s /\ \A i \in 1 .. Len(gQueue) : gQueue'[i] = gQueue[i]
  BY <1>1, <1>2, <1>5, AppendProperties
<1>7. /\ gPc'[c] = p /\ \A d \in GThreads \ {c} : gPc'[d] = gPc[d]
      /\ gSlot'[c] = NoSlot /\ \A d \in GThreads \ {c} : gSlot'[d] = gSlot[d]
  BY <1>1, <1>3 DEF PoolInv, GTypeOK
<1> HIDE DEF s
<1>8. GTypeOK'
  <2>1. gPc' \in [GThreads -> {"idle", "check", "get", "oneoff", "run", "sync", "unwind",
                           "put", "putraise", "next", "end", "raised"}]
    BY <1>3 DEF PoolInv, GTypeOK
  <2>2. gSlot' \in [GThreads -> SlotIds \cup {NoSlot}]
    BY <1>1 DEF PoolInv, GTypeOK
  <2>3. gLeft \in [GThreads -> 0 .. 2] /\ 0 \in 0 .. 2
    BY DEF PoolInv, GTypeOK
  <2>4. gLeft' \in [GThreads -> 0 .. 2]
    BY <1>4, <2>3
  <2> QED
    BY <1>1, <1>6, <2>1, <2>2, <2>4 DEF PoolInv, GTypeOK
<1>9. HeldInv'
  <2>1. 0 <= gMade
    BY DEF PoolInv, GTypeOK
  <2> QED
    BY <1>1, <1>7, <2>1 DEF PoolInv, HeldInv, HeldOf, Holding, NoSlot
<1>10. StageInv'
  <2>1. \A d \in GThreads \ {c} : gLeft'[d] = gLeft[d]
    BY <1>4 DEF PoolInv, GTypeOK
  <2>2. p = "next" => gLeft'[c] # 0
    BY <1>1, <1>4 DEF PoolInv, StageInv, StageOf
  <2> QED
    BY <1>1, <1>7, <2>1, <2>2 DEF PoolInv, StageInv, StageOf
<1>11. DirtyInv'
  <2>1. ASSUME NEW x \in SlotIds PROVE DirtyOf(x)'
    <3>1. DirtyOf(x)
      BY DEF PoolInv, DirtyInv
    <3> QED
      BY <1>1, <1>7, <3>1 DEF DirtyOf
  <2> QED
    BY <2>1 DEF DirtyInv
<1>12. QueueInv'
  <2>0. ASSUME NEW i \in 1 .. Len(gQueue)
        PROVE  /\ gQueue[i] <= gMade /\ \A d \in GThreads : gSlot[d] # gQueue[i] /\ gQueue[i] # s
               /\ gQueue[i] # NoSlot
               /\ \A j \in 1 .. Len(gQueue) : gQueue[j] = gQueue[i] => j = i
    <3>1. gQueue[i] \in SlotIds
      BY <1>5, ElementOfSeq
    <3> QED
      BY <3>1 DEF PoolInv, QueueInv, s, SlotIds, NoSlot
  <2>1. ASSUME NEW i \in 1 .. Len(gQueue')
        PROVE  /\ gQueue'[i] <= gMade'
               /\ \A d \in GThreads : gSlot'[d] # gQueue'[i]
               /\ \A j \in 1 .. Len(gQueue') : gQueue'[j] = gQueue'[i] => j = i
    <3>1. CASE i \in 1 .. Len(gQueue)
      <4>1. ASSUME NEW j \in 1 .. Len(gQueue'), gQueue'[j] = gQueue'[i] PROVE j = i
        <5>1. CASE j \in 1 .. Len(gQueue)
          BY <1>6, <2>0, <3>1, <4>1, <5>1
        <5>2. CASE j = Len(gQueue) + 1
          BY <1>6, <2>0, <3>1, <4>1, <5>2
        <5> QED
          BY <1>5, <1>6, <5>1, <5>2
      <4>2. \A d \in GThreads : gSlot'[d] # gQueue[i]
        BY <1>7, <2>0, <3>1
      <4> QED
        BY <1>1, <1>6, <2>0, <3>1, <4>1, <4>2
    <3>2. CASE i = Len(gQueue) + 1
      <4>1. ASSUME NEW j \in 1 .. Len(gQueue'), gQueue'[j] = gQueue'[i] PROVE j = i
        <5>1. CASE j \in 1 .. Len(gQueue)
          BY <1>6, <2>0, <3>2, <4>1, <5>1
        <5> QED
          BY <1>5, <1>6, <3>2, <5>1
      <4>2. \A d \in GThreads : gSlot'[d] # s
        BY <1>2, <1>7
      <4> QED
        BY <1>1, <1>2, <1>6, <3>2, <4>1, <4>2
    <3> QED
      BY <1>5, <1>6, <3>1, <3>2
  <2> QED
    BY <2>1 DEF QueueInv
<1>13. SlotsThere'
  <2>1. ASSUME NEW x \in gSlots
        PROVE  \/ \E d \in GThreads : gSlot'[d] = x
               \/ \E i \in 1 .. Len(gQueue') : gQueue'[i] = x
    <3>1. \/ \E d \in GThreads : gSlot[d] = x
          \/ \E i \in 1 .. Len(gQueue) : gQueue[i] = x
      BY DEF PoolInv, SlotsThere
    <3>2. Len(gQueue) + 1 \in 1 .. Len(gQueue')
          /\ \A i \in 1 .. Len(gQueue) : i \in 1 .. Len(gQueue')
      BY <1>5, <1>6
    <3> QED
      BY <1>6, <1>7, <3>1, <3>2 DEF s
  <2> QED
    BY <1>1, <2>1 DEF PoolInv, SlotsThere
<1> QED
  BY <1>8, <1>9, <1>10, <1>11, <1>12, <1>13 DEF PoolInv

\* The members of a concatenation.
LEMMA ConcatAt ==
  ASSUME NEW S, NEW t \in Seq(S), NEW u \in Seq(S)
  PROVE  /\ t \o u \in Seq(S) /\ Len(t \o u) = Len(t) + Len(u)
         /\ \A i \in 1 .. (Len(t) + Len(u)) :
               (t \o u)[i] = IF i <= Len(t) THEN t[i] ELSE u[i - Len(t)]
BY ConcatProperties

\* A pool is built: new slots behind what is left in the queue, or instead of it.
LEMMA BuildKeeps ==
  ASSUME PoolInv, ~Holding(Owner), NEW old, old \in {<<>>, gQueue},
         gMade + PoolSize <= MaxSlots, gSlots' = NewSlots, gMade' = gMade + PoolSize,
         gQueue' = BuiltQueue(old), GGoto(Owner, "check"), gLeft' = [gLeft EXCEPT ![Owner] = 1],
         UNCHANGED <<gKind, gReady, gSlot, gStage>>, gLoaded' \in BOOLEAN,
         gMode' \in KokoroModes \cup MatchaModes \cup {"none"},
         gKind = "matcha" => gMode' \in MatchaModes \cup {"none"},
         gBusy' \subseteq gBusy,
         gUsed' \in [SlotIds -> 0 .. Arena], gOver' \in [SlotIds -> Nat],
         \A s \in SlotIds : gUsed'[s] \in {0, gUsed[s]} /\ gOver'[s] \in {0, gOver[s]}
  PROVE  PoolInv'
<1> DEFINE new == [i \in 1 .. PoolSize |-> gMade + i]
<1> USE PoolBounds
<1>0. Owner \in GThreads /\ gMade \in Nat /\ gMade <= MaxSlots /\ gMade' \in Nat /\ gMade <= gMade'
  BY DEF GThreads, PoolInv, GTypeOK
<1>1. new \in Seq(SlotIds) /\ Len(new) = PoolSize /\ \A i \in 1 .. PoolSize : new[i] = gMade + i
  BY <1>0 DEF SlotIds
<1>2. old \in Seq(SlotIds) /\ Len(old) \in Nat
      /\ \A i \in 1 .. Len(old) : Len(old) = Len(gQueue) /\ old[i] = gQueue[i]
  <2>1. CASE old = <<>>
    BY <2>1, EmptySeq
  <2>2. CASE old = gQueue
    BY <2>2, LenProperties DEF PoolInv, GTypeOK
  <2> QED
    BY <2>1, <2>2
<1> HIDE DEF new
<1>3. /\ gQueue' \in Seq(SlotIds) /\ Len(gQueue') = Len(old) + PoolSize
      /\ \A i \in 1 .. (Len(old) + PoolSize) :
           gQueue'[i] = IF i <= Len(old) THEN old[i] ELSE new[i - Len(old)]
  <2>1. gQueue' = old \o new
    BY DEF BuiltQueue, new
  <2>2. /\ old \o new \in Seq(SlotIds) /\ Len(old \o new) = Len(old) + Len(new)
        /\ \A i \in 1 .. (Len(old) + Len(new)) :
             (old \o new)[i] = IF i <= Len(old) THEN old[i] ELSE new[i - Len(old)]
    <3>1. old \in Seq(SlotIds) /\ new \in Seq(SlotIds)
      BY <1>1, <1>2
    <3> QED
      BY ONLY <3>1, ConcatAt, Zenon
  <2> QED
    BY <1>1, <2>1, <2>2
<1>4. ASSUME NEW i \in 1 .. Len(gQueue')
      PROVE  \/ i \in 1 .. Len(old) /\ gQueue'[i] = gQueue[i] /\ i \in 1 .. Len(gQueue)
             \/ i > Len(old) /\ gQueue'[i] = gMade + (i - Len(old))
                /\ gQueue'[i] <= gMade + PoolSize
                /\ gQueue'[i] > gMade
  <2>0. i \in 1 .. (Len(old) + PoolSize)
    BY <1>3
  <2>1. CASE i <= Len(old)
    <3>1. i \in 1 .. Len(old) /\ gQueue'[i] = old[i]
      BY <1>2, <1>3, <2>0, <2>1
    <3> QED
      BY <1>2, <3>1
  <2>2. CASE ~(i <= Len(old))
    <3>1. i - Len(old) \in 1 .. PoolSize /\ gQueue'[i] = new[i - Len(old)] /\ i > Len(old)
      <4>1. gQueue'[i] = new[i - Len(old)]
        BY <1>3, <2>0, <2>2
      <4>2. i - Len(old) \in 1 .. PoolSize /\ i > Len(old)
        BY <1>2, <2>0, <2>2
      <4> QED
        BY <4>1, <4>2
    <3>2. gQueue'[i] = gMade + (i - Len(old))
      BY <1>1, <3>1
    <3>3. gMade + (i - Len(old)) <= gMade + PoolSize /\ gMade + (i - Len(old)) > gMade
      BY <1>0, <3>1
    <3> QED
      BY <3>1, <3>2, <3>3
  <2> QED
    BY <2>1, <2>2
<1>5. ASSUME NEW i \in 1 .. Len(gQueue)
      PROVE  /\ gQueue[i] \in SlotIds /\ gQueue[i] <= gMade
                /\ \A d \in GThreads : gSlot[d] # gQueue[i]
             /\ \A j \in 1 .. Len(gQueue) : gQueue[j] = gQueue[i] => j = i
  <2>1. gQueue[i] \in SlotIds
    BY ElementOfSeq DEF PoolInv, GTypeOK
  <2> QED
    BY <2>1 DEF PoolInv, QueueInv
<1>6. \A d \in GThreads : gSlot[d] \in Nat /\ gSlot[d] <= gMade
  <2>1. ASSUME NEW d \in GThreads PROVE gSlot[d] \in SlotIds \cup {NoSlot} /\ gSlot[d] <= gMade
    BY DEF PoolInv, GTypeOK, HeldInv, HeldOf
  <2> QED
    BY <2>1 DEF SlotIds, NoSlot
<1>7. QueueInv'
  <2>1. ASSUME NEW i \in 1 .. Len(gQueue') PROVE gQueue'[i] <= gMade'
    <3>1. CASE i \in 1 .. Len(gQueue) /\ gQueue'[i] = gQueue[i]
      BY <1>0, <1>5, <3>1 DEF SlotIds
    <3> QED
      BY <1>4, <3>1
  <2>2. ASSUME NEW i \in 1 .. Len(gQueue'), NEW d \in GThreads PROVE gSlot'[d] # gQueue'[i]
    <3>1. CASE i \in 1 .. Len(gQueue) /\ gQueue'[i] = gQueue[i]
      BY <1>5, <3>1
    <3>2. CASE gQueue'[i] > gMade
      BY <1>0, <1>6, <3>2
    <3> QED
      BY <1>4, <3>1, <3>2
  <2>3. ASSUME NEW i \in 1 .. Len(gQueue'), NEW j \in 1 .. Len(gQueue'), gQueue'[j] = gQueue'[i]
        PROVE  j = i
    <3>1. \A k \in 1 .. Len(gQueue) : gQueue[k] <= gMade /\ gQueue[k] \in Nat
      BY <1>5 DEF SlotIds
    <3>2. CASE i \in 1 .. Len(gQueue) /\ gQueue'[i] = gQueue[i]
      <4>1. ~(gQueue'[j] > gMade)
        BY <1>0, <2>3, <3>1, <3>2
      <4>2. j \in 1 .. Len(gQueue) /\ gQueue'[j] = gQueue[j]
        BY <1>4, <4>1
      <4> QED
        BY <1>5, <2>3, <3>2, <4>2
    <3>3. CASE i > Len(old) /\ gQueue'[i] = gMade + (i - Len(old)) /\ gQueue'[i] > gMade
      <4>1. ~(j \in 1 .. Len(gQueue) /\ gQueue'[j] = gQueue[j])
        BY <1>0, <2>3, <3>1, <3>3
      <4>2. gQueue'[j] = gMade + (j - Len(old))
        BY <1>4, <4>1
      <4>3. gMade + (j - Len(old)) = gMade + (i - Len(old))
        BY <2>3, <3>3, <4>2
      <4> QED
        BY <1>0, <1>2, <1>3, <4>3
    <3> QED
      BY <1>4, <3>2, <3>3
  <2> QED
    BY <2>1, <2>2, <2>3 DEF QueueInv
<1>8. SlotsThere'
  <2>1. ASSUME NEW s \in gSlots'
        PROVE  s <= gMade' /\ \E i \in 1 .. Len(gQueue') : gQueue'[i] = s
    <3>1. s \in (gMade + 1) .. (gMade + PoolSize)
      BY DEF NewSlots
    <3>2. /\ Len(old) + (s - gMade) \in 1 .. (Len(old) + PoolSize)
          /\ ~(Len(old) + (s - gMade) <= Len(old))
             /\ (Len(old) + (s - gMade)) - Len(old) = s - gMade
          /\ s - gMade \in 1 .. PoolSize /\ gMade + (s - gMade) = s
      BY <1>0, <1>2, <3>1
    <3>3. gQueue'[Len(old) + (s - gMade)] = s
      BY <1>1, <1>3, <3>2
    <3>4. s <= gMade'
      BY <1>0, <3>1
    <3> QED
      BY <1>3, <3>2, <3>3, <3>4
  <2> QED
    BY <2>1 DEF SlotsThere
<1>9. gPc'[Owner] = "check" /\ \A d \in GThreads \ {Owner} : gPc'[d] = gPc[d]
  BY <1>0 DEF PoolInv, GTypeOK, GGoto
<1>10. HeldInv'
  <2>1. \A d \in GThreads : gSlot[d] <= gMade'
    BY <1>0, <1>6
  <2> QED
    BY <1>9, <2>1 DEF PoolInv, HeldInv, HeldOf, Holding
<1>11. StageInv'
  <2>1. gLeft'[Owner] = 1 /\ \A d \in GThreads \ {Owner} : gLeft'[d] = gLeft[d]
    BY <1>0 DEF PoolInv, GTypeOK
  <2> QED
    BY <1>9, <2>1 DEF PoolInv, StageInv, StageOf
<1>12. DirtyInv'
  <2>1. ASSUME NEW x \in SlotIds PROVE DirtyOf(x)'
    <3>1. DirtyOf(x)
      BY DEF PoolInv, DirtyInv
    <3>2. \A d \in GThreads : Holding(d) => gPc'[d] = gPc[d]
      BY <1>9
    <3>3. gUsed'[x] \in {0, gUsed[x]} /\ gOver'[x] \in {0, gOver[x]}
      OBVIOUS
    <3> QED
      BY <3>1, <3>2, <3>3 DEF DirtyOf, Holding
  <2> QED
    BY <2>1 DEF DirtyInv
<1>13. GTypeOK'
  <2>1. gPc' \in [GThreads -> {"idle", "check", "get", "oneoff", "run", "sync", "unwind",
                           "put", "putraise", "next", "end", "raised"}]
    BY DEF PoolInv, GTypeOK, GGoto
  <2>2. gLeft' \in [GThreads -> 0 .. 2]
    <3>1. gLeft \in [GThreads -> 0 .. 2] /\ 1 \in 0 .. 2
      BY DEF PoolInv, GTypeOK
    <3> QED
      BY <3>1
  <2>3. gSlots' \subseteq SlotIds /\ gMade' \in 0 .. MaxSlots
    BY <1>0 DEF NewSlots, SlotIds
  <2>4. gBusy' \subseteq SlotIds
    BY DEF PoolInv, GTypeOK
  <2> QED
    BY <1>3, <2>1, <2>2, <2>3, <2>4 DEF PoolInv, GTypeOK
<1> QED
  BY <1>7, <1>8, <1>10, <1>11, <1>12, <1>13 DEF PoolInv

\* The slots of the old pool, destroyed: nothing runs on them and their memory is free.
LEMMA FreedSlots ==
  ASSUME PoolInv, gBusy' = gBusy \ gSlots,
         gUsed' = [s \in SlotIds |-> IF s \in gSlots THEN 0 ELSE gUsed[s]],
         gOver' = [s \in SlotIds |-> IF s \in gSlots THEN 0 ELSE gOver[s]]
  PROVE  /\ gBusy' \subseteq gBusy /\ gUsed' \in [SlotIds -> 0 .. Arena]
            /\ gOver' \in [SlotIds -> Nat]
         /\ \A s \in SlotIds : gUsed'[s] \in {0, gUsed[s]} /\ gOver'[s] \in {0, gOver[s]}
<1>1. gUsed \in [SlotIds -> 0 .. Arena] /\ gOver \in [SlotIds -> Nat] /\ 0 \in 0 .. Arena
  BY PoolBounds DEF PoolInv, GTypeOK
<1> QED
  BY <1>1

\* preload() begins on a backend with no context.
LEMMA PreloadKeeps ==
  ASSUME PoolInv, KokoroPreload \/ MatchaPreload \/ FallBackToOrt
  PROVE  PoolInv'
<1>1. /\ gPc[Owner] \in {"idle", "raised"} /\ gMade + PoolSize <= MaxSlots /\ gSlots' = NewSlots
      /\ gMade' = gMade + PoolSize /\ GGoto(Owner, "check") /\ gLeft' = [gLeft EXCEPT ![Owner] = 1]
      /\ UNCHANGED <<gKind, gReady, gSlot, gStage>> /\ gLoaded' \in BOOLEAN
  BY DEF KokoroPreload, MatchaPreload, FallBackToOrt, BuildAndWarm, LoadEngine, LoadHybrid,
     LoadSplitGenerator, LoadOrt, LoadEngines
<1>2. \E old \in {<<>>, gQueue} : gQueue' = BuiltQueue(old)
  BY DEF KokoroPreload, MatchaPreload, FallBackToOrt, BuildAndWarm, QueueBefore
<1>3. /\ gMode' \in KokoroModes \cup MatchaModes \cup {"none"}
      /\ gKind = "matcha" => gMode' \in MatchaModes \cup {"none"}
  BY DEF KokoroPreload, MatchaPreload, FallBackToOrt, LoadEngine, LoadHybrid, LoadSplitGenerator,
     LoadOrt, LoadAcoustic, KokoroModes, MatchaModes, PoolInv, GTypeOK, StageInv
<1>4. /\ gBusy' \subseteq gBusy /\ gUsed' \in [SlotIds -> 0 .. Arena] /\ gOver' \in [SlotIds -> Nat]
      /\ \A s \in SlotIds : gUsed'[s] \in {0, gUsed[s]} /\ gOver'[s] \in {0, gOver[s]}
  <2>1. CASE KokoroPreload \/ MatchaPreload
    <3>1. UNCHANGED <<gBusy, gUsed, gOver>>
      BY <2>1 DEF KokoroPreload, MatchaPreload, BuildAndWarm, gDevice
    <3> QED
      BY <3>1 DEF PoolInv, GTypeOK
  <2>2. CASE FallBackToOrt
    BY <2>2, FreedSlots DEF FallBackToOrt
  <2> QED
    BY <2>1, <2>2
<1>5. ~Holding(Owner)
  BY <1>1 DEF Holding
<1> QED
  BY <1>1, <1>2, <1>3, <1>4, <1>5, BuildKeeps

\* unload(): no pool and an empty queue; a thread may hold a slot that is no more.
LEMMA UnloadKeeps ==
  ASSUME PoolInv, KokoroUnload \/ MatchaUnload
  PROVE  PoolInv'
<1>1. /\ UNCHANGED <<gKind, gMode, gMade, gPc, gSlot, gStage, gLeft>> /\ gLoaded' \in BOOLEAN
      /\ gReady' \in BOOLEAN /\ gQueue' = <<>> /\ gSlots' = {}
  BY DEF KokoroUnload, MatchaUnload, Destroyed
<1>2. /\ gBusy' \subseteq gBusy /\ gUsed' \in [SlotIds -> 0 .. Arena] /\ gOver' \in [SlotIds -> Nat]
      /\ \A s \in SlotIds : gUsed'[s] \in {0, gUsed[s]} /\ gOver'[s] \in {0, gOver[s]}
  BY FreedSlots DEF KokoroUnload, MatchaUnload, Destroyed
<1>3. gQueue' \in Seq(SlotIds) /\ Len(gQueue') = 0
  BY <1>1, EmptySeq
<1>4. GTypeOK'
  BY <1>1, <1>2, <1>3 DEF PoolInv, GTypeOK
<1>5. HeldInv' /\ StageInv'
  BY <1>1 DEF PoolInv, HeldInv, HeldOf, Holding, StageInv, StageOf
<1>6. DirtyInv'
  <2>1. ASSUME NEW x \in SlotIds PROVE DirtyOf(x)'
    <3>1. DirtyOf(x)
      BY DEF PoolInv, DirtyInv
    <3>2. gUsed'[x] \in {0, gUsed[x]} /\ gOver'[x] \in {0, gOver[x]}
      BY <1>2
    <3> QED
      BY <1>1, <1>2, <3>1, <3>2 DEF DirtyOf
  <2> QED
    BY <2>1 DEF DirtyInv
<1>7. QueueInv' /\ SlotsThere'
  BY <1>1, <1>3 DEF QueueInv, SlotsThere
<1> QED
  BY <1>4, <1>5, <1>6, <1>7 DEF PoolInv

\* The GPU, a load that fails, and stuttering.
LEMMA QuietKeeps ==
  ASSUME PoolInv, (\E s \in SlotIds : GpuDone(s)) \/ LoadRaises \/ UNCHANGED gVars
  PROVE  PoolInv'
<1>1. /\ UNCHANGED <<gKind, gMode, gMade, gPc, gSlot, gStage, gLeft, gUsed, gOver, gReady,
         gQueue, gSlots>>
      /\ gLoaded' \in BOOLEAN /\ gBusy' \subseteq gBusy
  BY DEF GpuDone, LoadRaises, gVars, gBackend, gDevice, PoolInv, GTypeOK
<1>2. GTypeOK'
  BY <1>1 DEF PoolInv, GTypeOK
<1>3. HeldInv' /\ StageInv' /\ QueueInv' /\ SlotsThere'
  BY <1>1 DEF PoolInv, HeldInv, HeldOf, Holding, StageInv, StageOf, QueueInv, SlotsThere
<1>4. DirtyInv'
  BY <1>1 DEF PoolInv, DirtyInv, DirtyOf
<1> QED
  BY <1>2, <1>3, <1>4 DEF PoolInv

\* Every step keeps the invariant.
LEMMA PoolStep ==
  ASSUME PoolInv, [GNext]_gVars
  PROVE  PoolInv'
<1>1. CASE \E c \in Synths : Synthesize(c)
  <2>1. PICK c \in Synths : Synthesize(c)
    BY <1>1
  <2>2. c \in GThreads
    BY DEF GThreads
  <2> QED
    BY <2>1, <2>2, OutsideSteps
<1>2. CASE \E c \in GThreads : GStep(c)
  BY <1>2, OutsideSteps, LaunchKeeps, StageStepKeeps, ResetKeeps, GetKeeps, PutKeeps
  DEF GStep
<1>3. CASE PreloadReturns \/ PreloadRaises
  BY <1>3, OutsideSteps DEF GThreads
<1> QED
  BY <1>1, <1>2, <1>3, PreloadKeeps, UnloadKeeps, QuietKeeps DEF GNext

\* The inductive invariant.
THEOREM PoolInvariant == GSpec => []PoolInv
<1>1. PoolInv /\ [GNext]_gVars => PoolInv'
  BY PoolStep
<1> QED
  BY <1>1, PoolInit, PTL DEF GSpec

\* Every slot in the queue is clean and free, and every slot of the pool is there.
THEOREM SlotsCleanCorrect == GSpec => []SlotsClean
BY PoolInvariant, PoolInvClean, PTL

-----------------------------------------------------------------------------
(* EngineStreams *)

ETypeOK ==
  /\ eKind \in {"qwen3", "sherpa", "rk"}
  /\ ePc \in [Streams -> {"idle", "wait", "yield", "end", "failed", "dropped"}]
  /\ eRun \in [Streams -> {"none", "start", "run", "done"}]
  /\ eQueue \in [Streams -> Seq({"chunk", "end"})]
  /\ eMade \in [Streams -> Nat] /\ eHeard \in [Streams -> Nat]

\* Where a stream's audio is: until its thread is done the queue holds chunks only,
\* then its last item is the sentinel, until the generator has taken that.
AudioOf(s) ==
    /\ ePc[s] = "idle" => eRun[s] = "none"
    /\ ePc[s] \in {"wait", "yield", "end"} /\ eKind \in Threaded => eRun[s] # "none"
    /\ eRun[s] # "done" => /\ \A i \in 1 .. Len(eQueue[s]) : eQueue[s][i] = "chunk"
                           /\ eKind \in Threaded => /\ ePc[s] # "end"
                                                    /\ eMade[s] = eHeard[s] + Len(eQueue[s])
    /\ eRun[s] = "done" /\ ePc[s] # "end" =>
         /\ Len(eQueue[s]) > 0 /\ eQueue[s][Len(eQueue[s])] = "end"
         /\ \A i \in 1 .. (Len(eQueue[s]) - 1) : eQueue[s][i] = "chunk"
         /\ eMade[s] + 1 = eHeard[s] + Len(eQueue[s])
    /\ eRun[s] = "done" /\ ePc[s] = "end" => eQueue[s] = <<>> /\ eHeard[s] = eMade[s]
    /\ eRun[s] # "none" => eKind \in Threaded

AudioInv == \A s \in Streams : AudioOf(s)

EngineInv == ETypeOK /\ AudioInv

\* No stream has begun.
LEMMA EngineInit ==
  EInit({"qwen3", "sherpa", "rk"}) => EngineInv
BY DEF EInit, EngineInv, ETypeOK, AudioInv, AudioOf

\* A step of one stream, or of its thread, leaves the others alone.
OnlyStream(s) ==
  /\ eKind' = eKind
  /\ \A t \in Streams \ {s} : /\ ePc'[t] = ePc[t] /\ eRun'[t] = eRun[t] /\ eQueue'[t] = eQueue[t]
                              /\ eMade'[t] = eMade[t] /\ eHeard'[t] = eHeard[t]

\* A step of one stream keeps what holds of the others.
LEMMA OneStream ==
  ASSUME EngineInv, NEW s \in Streams, ETypeOK', OnlyStream(s), AudioOf(s)'
  PROVE  EngineInv'
<1>1. ASSUME NEW t \in Streams, t # s PROVE AudioOf(t)'
  BY <1>1 DEF EngineInv, AudioInv, AudioOf, OnlyStream
<1> QED
  BY <1>1 DEF EngineInv, AudioInv

\* What put() and get() do to the queue of one stream.
LEMMA QueuePut ==
  ASSUME ETypeOK, NEW s \in Streams, NEW x \in {"chunk", "end"}, EPut(s, x)
  PROVE  /\ eQueue' \in [Streams -> Seq({"chunk", "end"})]
         /\ Len(eQueue[s]) \in Nat /\ Len(eQueue'[s]) = Len(eQueue[s]) + 1
         /\ \A i \in 1 .. Len(eQueue[s]) : eQueue'[s][i] = eQueue[s][i]
         /\ eQueue'[s][Len(eQueue[s]) + 1] = x
         /\ \A t \in Streams \ {s} : eQueue'[t] = eQueue[t]
<1>1. eQueue[s] \in Seq({"chunk", "end"}) /\ eQueue'[s] = Append(eQueue[s], x)
  BY DEF ETypeOK, EPut
<1>2. eQueue'[s] \in Seq({"chunk", "end"})
  BY <1>1, AppendProperties
<1>3. eQueue' \in [Streams -> Seq({"chunk", "end"})]
  BY <1>1, <1>2 DEF ETypeOK, EPut
<1> QED
  BY <1>1, <1>3, AppendProperties, LenProperties DEF ETypeOK, EPut

\* The consumer takes the first item of its queue.
LEMMA QueueTake ==
  ASSUME ETypeOK, NEW s \in Streams, eQueue[s] # <<>>,
         eQueue' = [eQueue EXCEPT ![s] = Tail(@)]
  PROVE  /\ eQueue' \in [Streams -> Seq({"chunk", "end"})]
         /\ Len(eQueue[s]) \in Nat \ {0} /\ Len(eQueue'[s]) = Len(eQueue[s]) - 1
         /\ \A i \in 1 .. Len(eQueue'[s]) : eQueue'[s][i] = eQueue[s][i + 1]
         /\ Head(eQueue[s]) = eQueue[s][1]
         /\ \A t \in Streams \ {s} : eQueue'[t] = eQueue[t]
<1>1. eQueue[s] \in Seq({"chunk", "end"}) /\ eQueue'[s] = Tail(eQueue[s])
  BY DEF ETypeOK
<1>2. eQueue'[s] \in Seq({"chunk", "end"})
  BY <1>1, HeadTailProperties
<1>3. eQueue' \in [Streams -> Seq({"chunk", "end"})]
  BY <1>1, <1>2 DEF ETypeOK
<1>4. Len(eQueue[s]) \in Nat \ {0} /\ Head(eQueue[s]) = eQueue[s][1]
  BY <1>1, EmptySeq
<1> QED
  BY <1>1, <1>3, <1>4, HeadTailProperties DEF ETypeOK

\* Every step keeps the invariant.
LEMMA EngineStep ==
  ASSUME EngineInv, [ENext]_eVars
  PROVE  EngineInv'
<1> USE DEF EPut, EGo, eCalls, Threaded
<1>1. CASE Qwen3Preload \/ SherpaPreload \/ RkPreload \/ Qwen3Unload \/ SherpaUnload \/ RkUnload
  BY <1>1
  DEF EngineInv, ETypeOK, AudioInv, AudioOf, Qwen3Preload, SherpaPreload, RkPreload,
     Qwen3Unload, SherpaUnload, RkUnload
<1>2. ASSUME NEW s \in Streams, Qwen3Stream(s) \/ SherpaStream(s) \/ RkStream(s)
      PROVE  EngineInv'
  <2>1. ETypeOK'
    BY <1>2 DEF EngineInv, ETypeOK, Qwen3Stream, SherpaStream, RkStream
  <2>2. OnlyStream(s)
    BY <1>2 DEF EngineInv, ETypeOK, OnlyStream, Qwen3Stream, SherpaStream, RkStream
  <2>3. AudioOf(s)'
    BY <1>2
    DEF EngineInv, ETypeOK, AudioInv, AudioOf, Qwen3Stream, SherpaStream, RkStream
  <2> QED
    BY <2>1, <2>2, <2>3, OneStream
<1>3. ASSUME NEW s \in Streams, EngineEnters(s)
      PROVE  EngineInv'
  <2>1. ETypeOK'
    BY <1>3 DEF EngineInv, ETypeOK, EngineEnters
  <2>2. OnlyStream(s)
    BY <1>3 DEF EngineInv, ETypeOK, OnlyStream, EngineEnters
  <2>3. AudioOf(s)'
    BY <1>3 DEF EngineInv, ETypeOK, AudioInv, AudioOf, EngineEnters
  <2> QED
    BY <2>1, <2>2, <2>3, OneStream
<1>4. ASSUME NEW s \in Streams, EngineRaises(s) \/ EngineReturns(s)
      PROVE  EngineInv'
  <2> EPut(s, "end")
    BY <1>4 DEF EngineRaises, EngineReturns
  <2> HIDE DEF EPut
  <2>1. ETypeOK'
    BY <1>4, QueuePut DEF EngineInv, ETypeOK, EngineRaises, EngineReturns
  <2>2. OnlyStream(s)
    BY <1>4, QueuePut DEF EngineInv, ETypeOK, OnlyStream, EngineRaises, EngineReturns
  <2>3. AudioOf(s)'
    <3>1. /\ eRun[s] \in {"start", "run"} /\ eRun'[s] = "done" /\ ePc'[s] = ePc[s]
          /\ eMade'[s] = eMade[s] /\ eHeard'[s] = eHeard[s] /\ eKind' = eKind
          /\ eMade[s] \in Nat /\ eHeard[s] \in Nat /\ ETypeOK /\ AudioOf(s)
      BY <1>4 DEF EngineInv, AudioInv, ETypeOK, EngineRaises, EngineReturns
    <3>2. /\ Len(eQueue[s]) \in Nat /\ Len(eQueue'[s]) = Len(eQueue[s]) + 1
          /\ \A i \in 1 .. Len(eQueue[s]) : eQueue'[s][i] = eQueue[s][i]
          /\ eQueue'[s][Len(eQueue[s]) + 1] = "end"
      BY <3>1, QueuePut
    <3>3. ePc[s] # "end" /\ eKind \in Threaded /\ eMade[s] = eHeard[s] + Len(eQueue[s])
      BY <3>1 DEF AudioOf
    <3>4. \A i \in 1 .. (Len(eQueue'[s]) - 1) : eQueue'[s][i] = "chunk"
      BY <3>1, <3>2 DEF AudioOf
    <3>5. Len(eQueue'[s]) > 0 /\ eQueue'[s][Len(eQueue'[s])] = "end"
      BY <3>2
    <3>6. eMade'[s] + 1 = eHeard'[s] + Len(eQueue'[s])
      BY <3>1, <3>2, <3>3
    <3>7. ePc'[s] # "idle"
      BY <3>1 DEF AudioOf
    <3> QED
      BY <3>1, <3>3, <3>4, <3>5, <3>6, <3>7 DEF AudioOf
  <2> QED
    BY <2>1, <2>2, <2>3, OneStream
<1>5. ASSUME NEW s \in Streams, EngineChunk(s)
      PROVE  EngineInv'
  <2>1. ETypeOK'
    BY <1>5 DEF EngineInv, ETypeOK, EngineChunk
  <2>2. OnlyStream(s)
    BY <1>5 DEF EngineInv, ETypeOK, OnlyStream, EngineChunk
  <2>3. AudioOf(s)'
    <3>1. /\ eRun[s] = "run" /\ eRun'[s] = "run" /\ ePc'[s] = ePc[s]
          /\ eMade'[s] = eMade[s] + 1 /\ eHeard'[s] = eHeard[s] /\ eKind' = eKind
          /\ eMade[s] \in Nat /\ eHeard[s] \in Nat /\ ETypeOK /\ AudioOf(s)
      BY <1>5 DEF EngineInv, AudioInv, ETypeOK, EngineChunk
    <3>2. EPut(s, "chunk")
      BY <1>5 DEF EngineChunk
    <3> HIDE DEF EPut
    <3>3. /\ Len(eQueue[s]) \in Nat /\ Len(eQueue'[s]) = Len(eQueue[s]) + 1
          /\ \A i \in 1 .. Len(eQueue[s]) : eQueue'[s][i] = eQueue[s][i]
          /\ eQueue'[s][Len(eQueue[s]) + 1] = "chunk"
      BY <3>1, <3>2, QueuePut
    <3>4. ePc[s] \notin {"idle", "end"} /\ eKind \in Threaded
          /\ eMade[s] = eHeard[s] + Len(eQueue[s])
      BY <3>1 DEF AudioOf
    <3>5. ASSUME NEW i \in 1 .. Len(eQueue'[s]) PROVE eQueue'[s][i] = "chunk"
      <4>1. CASE i = Len(eQueue[s]) + 1
        BY <3>3, <4>1
      <4>2. CASE i # Len(eQueue[s]) + 1
        <5>1. i \in 1 .. Len(eQueue[s])
          BY <3>3, <4>2
        <5> QED
          BY <3>1, <3>3, <5>1 DEF AudioOf
      <4> QED
        BY <4>1, <4>2
    <3>6. eMade'[s] = eHeard'[s] + Len(eQueue'[s])
      BY <3>1, <3>3, <3>4
    <3> QED
      BY <3>1, <3>4, <3>5, <3>6 DEF AudioOf
  <2> QED
    BY <2>1, <2>2, <2>3, OneStream
<1>6. ASSUME NEW s \in Streams, TakeChunk(s)
      PROVE  EngineInv'
  <2>1. /\ ePc[s] = "wait" /\ eQueue[s] # <<>> /\ eKind \in Threaded /\ eKind' = eKind
        /\ eQueue' = [eQueue EXCEPT ![s] = Tail(@)]
        /\ eRun' = eRun /\ eMade' = eMade /\ ETypeOK /\ AudioOf(s)
        /\ eMade[s] \in Nat /\ eHeard[s] \in Nat
    BY <1>6 DEF EngineInv, ETypeOK, AudioInv, TakeChunk
  <2>2. /\ eQueue' \in [Streams -> Seq({"chunk", "end"})]
        /\ Len(eQueue[s]) \in Nat \ {0} /\ Len(eQueue'[s]) = Len(eQueue[s]) - 1
        /\ \A i \in 1 .. Len(eQueue'[s]) : eQueue'[s][i] = eQueue[s][i + 1]
        /\ Head(eQueue[s]) = eQueue[s][1]
        /\ \A t \in Streams \ {s} : eQueue'[t] = eQueue[t]
    BY <2>1, QueueTake
  <2>3. CASE Head(eQueue[s]) = "end"
    <3>1. ePc' = [ePc EXCEPT ![s] = "end"] /\ eHeard' = eHeard
      BY <1>6, <2>3 DEF TakeChunk
    <3>2. ETypeOK' /\ ePc'[s] = "end"
      BY <2>1, <2>2, <3>1 DEF ETypeOK
    <3>3. OnlyStream(s)
      BY <2>1, <2>2, <3>1 DEF OnlyStream, ETypeOK
    <3>4. Len(eQueue[s]) = 1 /\ eRun[s] = "done" /\ eMade[s] = eHeard[s]
      BY <2>1, <2>2, <2>3 DEF AudioOf
    <3>5. eQueue'[s] = <<>>
      <4>1. eQueue'[s] \in Seq({"chunk", "end"}) /\ Len(eQueue'[s]) = 0
        BY <2>2, <3>4
      <4> QED
        BY <4>1, EmptySeq
    <3>6. AudioOf(s)'
      BY <2>1, <2>2, <3>1, <3>2, <3>4, <3>5 DEF AudioOf
    <3> QED
      BY <3>2, <3>3, <3>6, OneStream
  <2>4. CASE Head(eQueue[s]) # "end"
    <3>1. ePc' = [ePc EXCEPT ![s] = "yield"] /\ eHeard' = [eHeard EXCEPT ![s] = @ + 1]
      BY <1>6, <2>4 DEF TakeChunk
    <3>2. ETypeOK' /\ ePc'[s] = "yield" /\ eHeard'[s] = eHeard[s] + 1
      BY <2>1, <2>2, <3>1 DEF ETypeOK
    <3>3. OnlyStream(s)
      BY <2>1, <2>2, <3>1 DEF OnlyStream, ETypeOK
    <3>4. AudioOf(s)'
      <4>1. CASE eRun[s] = "done"
        <5>1. Len(eQueue[s]) # 1
          BY <2>1, <2>2, <2>4, <4>1 DEF AudioOf
        <5>2. /\ eQueue[s][Len(eQueue[s])] = "end" /\ eMade[s] + 1 = eHeard[s] + Len(eQueue[s])
              /\ \A i \in 1 .. (Len(eQueue[s]) - 1) : eQueue[s][i] = "chunk"
          BY <2>1, <4>1 DEF AudioOf
        <5>3. Len(eQueue'[s]) > 0 /\ eQueue'[s][Len(eQueue'[s])] = "end"
          <6>1. Len(eQueue'[s]) \in 1 .. Len(eQueue'[s]) /\ Len(eQueue'[s]) + 1 = Len(eQueue[s])
            <7>1. \A n \in Nat \ {0} : \A m : n # 1 /\ m = n - 1 => m \in 1 .. m /\ m + 1 = n
              OBVIOUS
            <7> QED
              BY <2>2, <5>1, <7>1
          <6> QED
            BY <2>2, <5>2, <6>1
        <5>4. ASSUME NEW i \in 1 .. (Len(eQueue'[s]) - 1) PROVE eQueue'[s][i] = "chunk"
          <6>1. i \in 1 .. Len(eQueue'[s]) /\ i + 1 \in 1 .. (Len(eQueue[s]) - 1)
            BY <2>2
          <6> QED
            BY <2>2, <5>2, <6>1
        <5>5. eMade'[s] + 1 = eHeard'[s] + Len(eQueue'[s])
          BY <2>1, <2>2, <3>2, <5>2
        <5> QED
          BY <2>1, <3>2, <4>1, <5>3, <5>4, <5>5 DEF AudioOf
      <4>2. CASE eRun[s] # "done"
        <5>1. eMade[s] = eHeard[s] + Len(eQueue[s])
              /\ \A i \in 1 .. Len(eQueue[s]) : eQueue[s][i] = "chunk"
          BY <2>1, <4>2 DEF AudioOf
        <5>2. \A i \in 1 .. Len(eQueue'[s]) : eQueue'[s][i] = "chunk"
          BY <2>2, <5>1
        <5>3. eMade'[s] = eHeard'[s] + Len(eQueue'[s])
          BY <2>1, <2>2, <3>2, <5>1
        <5> QED
          BY <2>1, <3>2, <4>2, <5>2, <5>3 DEF AudioOf
      <4> QED
        BY <4>1, <4>2
    <3> QED
      BY <3>2, <3>3, <3>4, OneStream
  <2> QED
    BY <2>3, <2>4
<1>7. ASSUME NEW s \in Streams, RkChunk(s)
      PROVE  EngineInv'
  <2>1. ETypeOK'
    <3>1. ePc' \in [Streams -> {"idle", "wait", "yield", "end", "failed", "dropped"}]
      BY <1>7 DEF EngineInv, ETypeOK, RkChunk
    <3>2. eMade' \in [Streams -> Nat]
      BY <1>7 DEF EngineInv, ETypeOK, RkChunk
    <3>3. eHeard' \in [Streams -> Nat]
      BY <1>7 DEF EngineInv, ETypeOK, RkChunk
    <3> QED
      BY <1>7, <3>1, <3>2, <3>3 DEF EngineInv, ETypeOK, RkChunk
  <2>2. OnlyStream(s)
    BY <1>7 DEF EngineInv, ETypeOK, OnlyStream, RkChunk
  <2>3. AudioOf(s)'
    BY <1>7 DEF EngineInv, ETypeOK, AudioInv, AudioOf, RkChunk
  <2> QED
    BY <2>1, <2>2, <2>3, OneStream
<1>8. ASSUME NEW s \in Streams, ComesBack(s) \/ Drops(s)
      PROVE  EngineInv'
  <2>1. ETypeOK'
    BY <1>8 DEF EngineInv, ETypeOK, ComesBack, Drops
  <2>2. OnlyStream(s)
    BY <1>8 DEF EngineInv, ETypeOK, OnlyStream, ComesBack, Drops
  <2>3. AudioOf(s)'
    BY <1>8 DEF EngineInv, ETypeOK, AudioInv, AudioOf, ComesBack, Drops
  <2> QED
    BY <2>1, <2>2, <2>3, OneStream
<1>9. CASE UNCHANGED eVars
  BY <1>9 DEF EngineInv, ETypeOK, AudioInv, AudioOf, eVars
<1> QED
  BY <1>1, <1>2, <1>3, <1>4, <1>5, <1>6, <1>7, <1>8, <1>9 DEF ENext

\* A generator that waits is never alone, and a stream that ended has handed out
\* all the audio its engine made.
THEOREM SentinelCorrect == ESpec => []SentinelComes
<1>1. EngineInv /\ [ENext]_eVars => EngineInv'
  BY EngineStep
<1>2. EngineInv => SentinelComes
  BY DEF EngineInv, ETypeOK, AudioInv, AudioOf, SentinelComes
<1> QED
  BY <1>1, <1>2, EngineInit, PTL DEF ESpec

-----------------------------------------------------------------------------
(* Moss *)

\* A request that may still register has an attempt left; and _proc is the only
\* process that may run, beside those that could not be stopped.
MossInv ==
  /\ mProc \in Nat /\ mSpawned \in Nat
  /\ mPc \in [MCallers -> {"idle", "preload", "starting", "respawn", "register", "send",
     "wait", "end"}]
  /\ mTry \in [MossReqs -> 0 .. 2]
  /\ mAlive \ mStuck \subseteq {mProc} \ {0}
  /\ \A r \in MossReqs :
       mPc[r] \in {"idle", "preload", "starting", "respawn", "register"} => mTry[r] < 2

\* No process runs before the first request.
LEMMA MossInit == MInit => MossInv
BY DEF MInit, MossInv, MCallers

\* A stop leaves running only what it could not end.
LEMMA StopLeaves ==
  ASSUME NEW ended, StopProcess(ended), mAlive \ mStuck \subseteq {mProc} \ {0}
  PROVE  mAlive' \ mStuck' = {}
<1> SUFFICES ASSUME NEW p \in mAlive' \ mStuck' PROVE FALSE
  OBVIOUS
<1>1. mAlive' = mAlive \ ended /\ mStuck' = mStuck \cup ((mAlive \cap {mProc}) \ ended)
  BY DEF StopProcess
<1>2. p \in mAlive /\ p \notin ended /\ p \notin mStuck /\ p # mProc
  BY <1>1
<1> QED
  BY <1>2

\* Every step keeps the invariant.
LEMMA MossStep ==
  ASSUME MossInv, [MNext]_mVars
  PROVE  MossInv'
<1> USE DEF MossInv, MGo, MCallers, mOs
<1>1. ASSUME NEW r \in MCallers, Spawn(r)
      PROVE  MossInv'
  BY <1>1 DEF Spawn, Running
<1>2. ASSUME NEW r \in MCallers, AlreadyRunning(r) \/ Ready(r) \/ ExitSeen(r)
      PROVE  MossInv'
  BY <1>2 DEF AlreadyRunning, Ready, ExitSeen, AfterPreload, PreloadRaised
<1>3. ASSUME NEW r \in MCallers, NEW ended \in SUBSET {mProc}, StartTimeout(r, ended)
      PROVE  MossInv'
  BY <1>3, StopLeaves DEF StartTimeout, ShutdownLeaves, PreloadRaised
<1>4. ASSUME MPreload \/ \E ended \in SUBSET {mProc} : MUnload(ended)
      PROVE  MossInv'
  <2>1. ASSUME NEW ended \in SUBSET {mProc}, MUnload(ended)
        PROVE  MossInv'
    <3>1. mPc' = mPc
      BY <2>1 DEF MUnload
    <3> QED
      BY StopLeaves, <2>1, <3>1 DEF MUnload, ShutdownLeaves
  <2>2. CASE MPreload
    BY <2>2 DEF MPreload
  <2> QED
    BY <1>4, <2>1, <2>2
<1>5. ASSUME NEW r \in MossReqs, NEW ended \in SUBSET {mProc}, Respawn(r, ended)
      PROVE  MossInv'
  BY <1>5, StopLeaves DEF Respawn, ShutdownLeaves
<1>6. ASSUME NEW r \in MossReqs, Request(r) \/ Send(r) \/ Event(r)
      PROVE  MossInv'
  BY <1>6 DEF Request, Send, Event
<1>7. ASSUME NEW r \in MossReqs, Register(r)
      PROVE  MossInv'
  BY <1>7 DEF Register
<1>8. ASSUME NEW r \in MossReqs, Fails(r)
      PROVE  MossInv'
  BY <1>8 DEF Fails, RetryOnce
<1>9. ASSUME NEW p \in MProcs, WorkerReady(p) \/ WorkerDies(p) \/ Route(p) \/ ReaderEof(p)
      PROVE  MossInv'
  BY <1>9 DEF WorkerReady, WorkerDies, Route, ReaderEof
<1>10. ASSUME NEW p \in MProcs, NEW r \in MossReqs, WorkerAnswers(p, r)
      PROVE  MossInv'
  BY <1>10 DEF WorkerAnswers
<1>11. CASE UNCHANGED mVars
  BY <1>11 DEF mVars
<1> QED
  BY <1>1, <1>2, <1>3, <1>4, <1>5, <1>6, <1>7, <1>8, <1>9, <1>10, <1>11 DEF MNext

\* At most one worker process runs beside those that could not be stopped, and _proc
\* names it; no request gets a third attempt.
THEOREM OneMossWorkerCorrect == MSpec => []OneMossWorker
<1>1. MossInv /\ [MNext]_mVars => MossInv'
  BY MossStep
<1>2. MossInv => OneMossWorker
  BY DEF MossInv, OneMossWorker
<1> QED
  BY <1>1, <1>2, MossInit, PTL DEF MSpec

-----------------------------------------------------------------------------
(* Watchdog *)

\* The counters of GpuStatus are the runs of equal results at the end of the
\* history: the last wFails results are failures and the one before them, if
\* there is one and the counter is not at its threshold, is a success; and the
\* other way round.
Results == {"good", "bad"}
WatchdogInv ==
  /\ wHist \in Seq(Results) /\ Len(wHist) <= HistLen
  /\ wFails \in 0 .. FailThreshold /\ wGood \in 0 .. RecoverThreshold
  /\ wOk \in BOOLEAN
  /\ wTask \in {"none", "starting", "probing", "asleep", "done"}
  /\ LastAre(wHist, wFails, "bad")
  /\ LastAre(wHist, wGood, "good")
  /\ wFails < FailThreshold => wFails = Len(wHist) \/ wHist[Len(wHist) - wFails] # "bad"
  /\ wGood < RecoverThreshold => wGood = Len(wHist) \/ wHist[Len(wHist) - wGood] # "good"

\* The history after a probe: one longer, or the oldest result dropped.
LEMMA HistoryAfter ==
  ASSUME WatchdogInv, NEW ok \in BOOLEAN, Remember(ok)
  PROVE  \E d \in {0, 1} :
           /\ wHist' \in Seq(Results) /\ Len(wHist') = Len(wHist) + 1 - d
           /\ Len(wHist') <= HistLen
           /\ d = 1 => Len(wHist) = HistLen
           /\ wHist'[Len(wHist')] = IF ok THEN "good" ELSE "bad"
           /\ \A i \in 1 .. (Len(wHist') - 1) : wHist'[i] = wHist[i + d]
<1> DEFINE r == IF ok THEN "good" ELSE "bad"
           h == Append(wHist, r)
<1>1. HistLen \in Nat \ {0}
  BY ThresholdsPositive DEF HistLen
<1>2. r \in Results /\ wHist \in Seq(Results) /\ Len(wHist) \in Nat /\ Len(wHist) <= HistLen
  BY DEF Results, WatchdogInv
<1>3. wHist' = IF Len(h) > HistLen THEN Tail(h) ELSE h
  BY DEF Remember
<1> HIDE DEF r
<1>4. /\ h \in Seq(Results) /\ Len(h) = Len(wHist) + 1 /\ h[Len(h)] = r
      /\ \A i \in 1 .. Len(wHist) : h[i] = wHist[i]
  BY <1>2
<1> HIDE DEF h
<1>5. CASE Len(h) > HistLen
  <2>1. wHist' = Tail(h) /\ h # <<>>
    BY <1>3, <1>4, <1>5, <1>1
  <2>2. /\ wHist' \in Seq(Results) /\ Len(wHist') = Len(h) - 1
        /\ \A i \in 1 .. (Len(h) - 1) : wHist'[i] = h[i + 1]
    BY <1>4, <2>1
  <2> QED
    BY <1>1, <1>2, <1>4, <1>5, <2>2 DEF r
<1>6. CASE ~(Len(h) > HistLen)
  BY <1>1, <1>2, <1>3, <1>4, <1>6 DEF r
<1> QED
  BY <1>5, <1>6

\* A counter that has not reached its threshold has the whole run behind it.
LEMMA RunLength ==
  ASSUME NEW h \in Seq(Results), NEW r \in Results, NEW max \in Nat \ {0}, NEW n \in 0 .. max,
         LastAre(h, n, r), n < max => n = Len(h) \/ h[Len(h) - n] # r
  PROVE  LastAre(h, max, r) <=> n = max
BY DEF LastAre

\* One result more: the run of its own kind grows up to the threshold, the other
\* run is over.
LEMMA RunGrows ==
  ASSUME WatchdogInv, NEW ok \in BOOLEAN, Remember(ok),
         NEW r \in Results, r = IF ok THEN "good" ELSE "bad",
         NEW max \in 1 .. HistLen, NEW n \in 0 .. max,
         LastAre(wHist, n, r), n < max => n = Len(wHist) \/ wHist[Len(wHist) - n] # r
  PROVE  LET m == UpTo(n + 1, max) IN
         /\ m \in 0 .. max /\ LastAre(wHist', m, r)
         /\ m < max => m = Len(wHist') \/ wHist'[Len(wHist') - m] # r
<1> USE ThresholdsPositive DEF HistLen, Results
<1>1. PICK d \in {0, 1} :
           /\ wHist' \in Seq(Results) /\ Len(wHist') = Len(wHist) + 1 - d
           /\ Len(wHist') <= HistLen
           /\ d = 1 => Len(wHist) = HistLen
           /\ wHist'[Len(wHist')] = IF ok THEN "good" ELSE "bad"
           /\ \A i \in 1 .. (Len(wHist') - 1) : wHist'[i] = wHist[i + d]
  BY HistoryAfter
<1>2. Len(wHist) \in Nat /\ Len(wHist') \in Nat
  BY <1>1 DEF WatchdogInv
<1>3. CASE n < max
  <2>1. UpTo(n + 1, max) = n + 1
    BY <1>3 DEF UpTo
  <2>2. LastAre(wHist', n + 1, r)
    <3>1. Len(wHist') >= n + 1
      BY <1>1, <1>2, <1>3 DEF LastAre
    <3>2. ASSUME NEW i \in (Len(wHist') - (n + 1) + 1) .. Len(wHist') PROVE wHist'[i] = r
      <4>1. CASE i = Len(wHist')
        BY <1>1, <4>1
      <4>2. CASE i # Len(wHist')
        BY <1>1, <1>2, <3>1, <4>2 DEF LastAre
      <4> QED
        BY <4>1, <4>2
    <3> QED
      BY <3>1, <3>2 DEF LastAre
  <2>3. n + 1 < max => n + 1 = Len(wHist') \/ wHist'[Len(wHist') - (n + 1)] # r
    BY <1>1, <1>2, <1>3 DEF LastAre
  <2> QED
    BY <1>3, <2>1, <2>2, <2>3
<1>4. CASE n = max
  <2>1. UpTo(n + 1, max) = max
    BY <1>4 DEF UpTo
  <2>2. LastAre(wHist', max, r)
    <3>1. Len(wHist') >= max
      BY <1>1, <1>2, <1>4 DEF LastAre
    <3>2. ASSUME NEW i \in (Len(wHist') - max + 1) .. Len(wHist') PROVE wHist'[i] = r
      <4>1. CASE i = Len(wHist')
        BY <1>1, <4>1
      <4>2. CASE i # Len(wHist')
        <5>1. i + d \in (Len(wHist) - max + 1) .. Len(wHist) /\ wHist'[i] = wHist[i + d]
          BY <1>1, <1>2, <3>1, <4>2
        <5> QED
          BY <1>4, <5>1 DEF LastAre
      <4> QED
        BY <4>1, <4>2
    <3> QED
      BY <3>1, <3>2 DEF LastAre
  <2> QED
    BY <2>1, <2>2
<1> QED
  BY <1>3, <1>4

\* A result of the other kind ends the run.
LEMMA RunStops ==
  ASSUME WatchdogInv, NEW ok \in BOOLEAN, Remember(ok)
  PROVE  /\ \A r \in Results : LastAre(wHist', 0, r)
         /\ wHist'[Len(wHist') - 0] = IF ok THEN "good" ELSE "bad"
         /\ Len(wHist') <= HistLen /\ wHist' \in Seq(Results)
BY HistoryAfter DEF LastAre, WatchdogInv, Results

\* No probe has run.
LEMMA WatchdogInit ==
  WInit => WatchdogInv
BY ThresholdsPositive DEF WInit, WatchdogInv, LastAre, HistLen

\* A probe keeps the counters and the history together.
LEMMA ProbeKeeps ==
  ASSUME WatchdogInv, NEW ok \in BOOLEAN, ApplyCheckResult(ok), Remember(ok),
         wTask' \in {"none", "starting", "probing", "asleep", "done"}
  PROVE  WatchdogInv'
<1> USE ThresholdsPositive DEF Results
<1>1. FailThreshold \in 1 .. HistLen /\ RecoverThreshold \in 1 .. HistLen
  BY DEF HistLen
<1>2. CASE ok = TRUE
  <2>1. wGood' = UpTo(wGood + 1, RecoverThreshold) /\ wFails' = 0 /\ wOk' \in BOOLEAN
    BY <1>2 DEF ApplyCheckResult, WatchdogInv
  <2>2. /\ wGood' \in 0 .. RecoverThreshold /\ LastAre(wHist', wGood', "good")
        /\ wGood' < RecoverThreshold => wGood' = Len(wHist')
           \/ wHist'[Len(wHist') - wGood'] # "good"
    BY <1>1, <1>2, <2>1, RunGrows DEF WatchdogInv
  <2>3. LastAre(wHist', 0, "bad") /\ wHist'[Len(wHist') - 0] # "bad"
        /\ Len(wHist') <= HistLen /\ wHist' \in Seq(Results)
    BY <1>2, RunStops
  <2> QED
    BY <2>1, <2>2, <2>3 DEF WatchdogInv
<1>3. CASE ok = FALSE
  <2>1. wFails' = UpTo(wFails + 1, FailThreshold) /\ wGood' = 0 /\ wOk' \in BOOLEAN
    BY <1>3 DEF ApplyCheckResult, WatchdogInv
  <2>2. /\ wFails' \in 0 .. FailThreshold /\ LastAre(wHist', wFails', "bad")
        /\ wFails' < FailThreshold => wFails' = Len(wHist') \/ wHist'[Len(wHist') - wFails'] # "bad"
    BY <1>1, <1>3, <2>1, RunGrows DEF WatchdogInv
  <2>3. LastAre(wHist', 0, "good") /\ wHist'[Len(wHist') - 0] # "good"
        /\ Len(wHist') <= HistLen /\ wHist' \in Seq(Results)
    BY <1>3, RunStops
  <2> QED
    BY <2>1, <2>2, <2>3 DEF WatchdogInv
<1> QED
  BY <1>2, <1>3

\* Every step keeps the invariant.
LEMMA WatchdogStep ==
  ASSUME WatchdogInv, [WNext]_wVars
  PROVE  WatchdogInv'
<1>1. CASE Probe
  <2>1. PICK ok \in BOOLEAN : ApplyCheckResult(ok) /\ Remember(ok)
    BY <1>1 DEF Probe
  <2> QED
    BY <1>1, <2>1, ProbeKeeps DEF Probe
<1>2. CASE WStart \/ DetectPlatform \/ Wake \/ TaskCrashes \/ WStop
  BY <1>2 DEF WatchdogInv, WStart, DetectPlatform, Wake, TaskCrashes, WStop
<1>3. CASE UNCHANGED wVars
  BY <1>3 DEF WatchdogInv, wVars
<1> QED
  BY <1>1, <1>2, <1>3 DEF WNext

\* What a probe makes of the status, from the counters.
LEMMA ProbeDecides ==
  ASSUME WatchdogInv, NEW ok \in BOOLEAN, ApplyCheckResult(ok), Remember(ok), WatchdogInv'
  PROVE  wOk' = CASE LastAre(wHist', FailThreshold, "bad") -> FALSE
                  [] LastAre(wHist', RecoverThreshold, "good") -> TRUE
                  [] OTHER -> wOk
<1> USE ThresholdsPositive DEF Results
<1>1. LastAre(wHist', FailThreshold, "bad") <=> wFails' = FailThreshold
  BY RunLength DEF WatchdogInv
<1>2. LastAre(wHist', RecoverThreshold, "good") <=> wGood' = RecoverThreshold
  BY RunLength DEF WatchdogInv
<1>3. CASE ok = TRUE
  <2>1. wFails' # FailThreshold /\ wOk' = (wOk \/ wGood' >= RecoverThreshold)
    BY <1>3 DEF ApplyCheckResult
  <2>2. CASE wGood' = RecoverThreshold
    <3>1. wOk' = TRUE
      <4>1. wGood' >= RecoverThreshold
        BY <2>2
      <4> QED
        BY <2>1, <4>1, Zenon
    <3> QED
      BY <1>1, <1>2, <2>1, <2>2, <3>1
  <2>3. CASE wGood' # RecoverThreshold
    <3>1. wOk' = wOk
      BY <2>1, <2>3 DEF WatchdogInv
    <3> QED
      BY <1>1, <1>2, <2>1, <2>3, <3>1
  <2> QED
    BY <2>2, <2>3
<1>4. CASE ok = FALSE
  <2>1. wGood' # RecoverThreshold /\ wOk' = (wOk /\ wFails' < FailThreshold)
    BY <1>4 DEF ApplyCheckResult
  <2>2. CASE wFails' = FailThreshold
    <3>1. wOk' = FALSE
      <4>1. ~(wFails' < FailThreshold)
        BY <2>2
      <4> QED
        BY <2>1, <4>1, Zenon
    <3> QED
      BY <1>1, <1>2, <2>1, <2>2, <3>1
  <2>3. CASE wFails' # FailThreshold
    <3>1. wOk' = wOk
      BY <2>1, <2>3 DEF WatchdogInv
    <3> QED
      BY <1>1, <1>2, <2>1, <2>3, <3>1
  <2> QED
    BY <2>2, <2>3
<1> QED
  BY <1>3, <1>4

\* The counters always agree with the results themselves.
THEOREM WatchdogCounters == WSpec => []WatchdogInv
<1>1. WatchdogInv /\ [WNext]_wVars => WatchdogInv'
  BY WatchdogStep
<1> QED
  BY <1>1, WatchdogInit, PTL DEF WSpec

\* The hysteresis of _apply_check_result.
THEOREM HysteresisCorrect == WSpec => StatusFollowsProbes
<1> DEFINE A == IF wTask = "probing" /\ wTask' = "asleep"
       THEN wOk' = CASE LastAre(wHist', FailThreshold, "bad") -> FALSE
                     [] LastAre(wHist', RecoverThreshold, "good") -> TRUE
                     [] OTHER -> wOk
       ELSE wOk' # wOk => ~wOk' /\ wTask' = "done"
<1>1. ASSUME WatchdogInv, WatchdogInv', [WNext]_wVars PROVE [A]_wVars
  <2>1. CASE Probe
    <3>1. PICK ok \in BOOLEAN : ApplyCheckResult(ok) /\ Remember(ok)
      BY <2>1 DEF Probe
    <3> QED
      BY <1>1, <2>1, <3>1, ProbeDecides DEF Probe
  <2>2. CASE WStart \/ DetectPlatform \/ Wake \/ TaskCrashes \/ WStop
    BY <2>2 DEF WStart, DetectPlatform, Wake, TaskCrashes, WStop
  <2> QED
    BY <1>1, <2>1, <2>2 DEF WNext
<1> QED
  BY <1>1, WatchdogCounters, PTL DEF WSpec, StatusFollowsProbes

-----------------------------------------------------------------------------
(* Speakers *)

\* A table of speakers, in the cache or in a thread's hands: it may be stale, but it
\* never shows a preset as anything else, unless the environment replaces it.
PresetsShown(table) == \A i \in PresetIds \ EnvIds : SpecForId(table, i)[1] = "preset"

SpeakersTypeOK ==
  /\ DOMAIN sFile \subseteq Ids
  /\ sLoop \in [op : {"idle", "register", "overwrite", "unregister", "list"},
                step : {"idle", "load", "write", "drop"}, id : Ids \cup {NoId}, reg : Nat,
                read : BOOLEAN]
  /\ sRegs \in Nat
  /\ sLoad = [l \in Loaders |-> [at |-> sLoad[l].at, table |-> sLoad[l].table]]

TablesInv ==
  /\ PresetsShown(sCache)
  /\ \A l \in Loaders : PresetsShown(sLoad[l].table)

\* What the handler on the loop is about to do to the file, and has done.
LoopInv ==
  /\ sLoop.step \in {"write", "drop"} => sLoop.op \in {"register", "overwrite", "unregister"}
  /\ sLoop.op \in {"register", "overwrite"} => sLoop.id \in Ids
  /\ sLoop.step = "write" /\ sLoop.op # "unregister" => sLoop.id \notin PresetIds \ EnvIds
  /\ sLoop.op = "unregister" => sLoop.read
  /\ sLoop.step = "write" /\ sLoop.op = "register" /\ sLoop.read => sLoop.id \notin DOMAIN sFile
  /\ sLoop.op = "register" => sLoop.step # "load"
  /\ sLoop.step = "drop" => (Wanted \ FileEntries) \cup (FileEntries \ Wanted) \subseteq sMisread

SpeakersInv == SpeakersTypeOK /\ TablesInv /\ LoopInv /\ SpeakersKept

-----------------------------------------------------------------------------
\* The least member of a set of numbers.
LEMMA MinExists ==
  ASSUME NEW S \in SUBSET Nat, S # {}
  PROVE  \E x \in S : \A y \in S : x <= y
<1>1. PICK x \in S : \A y \in S : ~ (<<y, x>> \in OpToRel(<, Nat))
  BY NatLessThanWellFounded, WFMin
<1>2. \A y \in S : ~(y < x)
  BY <1>1 DEF OpToRel
<1> QED
  BY <1>2

\* The greatest member of a bounded set of numbers.
LEMMA MaxExists ==
  ASSUME NEW b \in Nat, NEW S \in SUBSET (0 .. b), S # {}
  PROVE  Max(S) \in S /\ \A y \in S : y <= Max(S)
<1> DEFINE T == {b - x : x \in S}
<1>1. T \in SUBSET Nat
  OBVIOUS
<1>2. PICK x0 \in S : TRUE
  OBVIOUS
<1>3. b - x0 \in T
  OBVIOUS
<1>4. PICK m \in T : \A y \in T : m <= y
  BY <1>1, <1>3, MinExists
<1>5. PICK x \in S : m = b - x
  BY <1>4
<1>6. ASSUME NEW y \in S PROVE x >= y
  <2>1. b - y \in T
    OBVIOUS
  <2>2. m <= b - y
    BY <1>4, <2>1
  <2> HIDE DEF T
  <2> QED
    BY <1>5, <2>2
<1> QED
  BY <1>6 DEF Max

\* An id given automatically is not one of a preset or of the file.
LEMMA AutoIdIsNew ==
  ASSUME SpeakersTypeOK, NEW read \in BOOLEAN
  PROVE  AutoId(read) \notin ExistingIds(read) /\ AutoId(read) \in Nat
<1> DEFINE S == {FirstAuto} \cup {i + 1 : i \in ExistingIds(read)}
           b == FirstAuto + MaxId + 1
<1> USE SpeakerIds DEF Ids
<1>1. ExistingIds(read) \subseteq 0 .. MaxId
  BY DEF ExistingIds, FileData, SpeakersTypeOK
<1>2. b \in Nat /\ S \in SUBSET (0 .. b) /\ FirstAuto \in S
  BY <1>1
<1>3. Max(S) \in S /\ \A y \in S : y <= Max(S)
  BY <1>2, MaxExists
<1>4. ASSUME NEW i \in ExistingIds(read) PROVE Max(S) # i
  <2>1. i + 1 \in S
    OBVIOUS
  <2> QED
    BY <1>1, <1>3, <2>1
<1> QED
  BY <1>1, <1>2, <1>3, <1>4 DEF AutoId

-----------------------------------------------------------------------------
\* The registry before its first use.
LEMMA SpeakersInit == SInit => SpeakersInv
<1> SUFFICES ASSUME SInit PROVE SpeakersInv
  OBVIOUS
<1> USE SpeakerIds DEF SInit, Idle, Ids, NoId, NoLoad
<1>1. DOMAIN sFile = {}
  OBVIOUS
<1>2. SpeakersTypeOK
  BY <1>1 DEF SpeakersTypeOK
<1>3. PresetsShown(NoTable)
  BY DEF PresetsShown, NoTable, SpecForId, Preset
<1>4. TablesInv
  BY <1>3 DEF TablesInv
<1>5. LoopInv /\ SpeakersKept
  BY <1>1 DEF LoopInv, SpeakersKept, FileEntries
<1> QED
  BY <1>2, <1>4, <1>5 DEF SpeakersInv

\* A registry that has not loaded shows every preset.
LEMMA NoTableShows == PresetsShown(NoTable)
BY SpeakerIds DEF PresetsShown, NoTable, SpecForId, Preset, NoId

\* The layers that load() merges show every preset.
LEMMA LayersShow ==
  ASSUME SpeakersInv, NEW read \in BOOLEAN
  PROVE  PresetsShown(Layers(read))
<1>1. ASSUME NEW i \in PresetIds \ EnvIds PROVE SpecForId(Layers(read), i)[1] = "preset"
  <2>1. i \notin EnvIds /\ i \notin DOMAIN sFile
    BY DEF SpeakersInv, SpeakersKept
  <2>2. Layers(read)[i] = Preset(i)
    BY <2>1 DEF Layers, FileSpeakers, FileData
  <2> QED
    BY <2>2 DEF SpecForId, Preset
<1> QED
  BY <1>1 DEF PresetsShown

\* A step that changes neither the file nor the handler on the loop.
LEMMA FileSame ==
  ASSUME SpeakersInv, UNCHANGED <<sFile, sLoop, sAcked, sMisread>>
  PROVE  SpeakersKept' /\ LoopInv'
BY DEF SpeakersInv, SpeakersKept, LoopInv, Wanted, FileEntries

\* load() merges the presets, the file if it could be read, and the environment.
LEMMA LoadKeeps ==
  ASSUME SpeakersInv, NEW l \in Loaders,
         LoadCheck(l) \/ (\E read \in BOOLEAN : LoadRead(l, read)) \/ LoadStore(l)
  PROVE  SpeakersInv'
<1>1. SpeakersKept' /\ LoopInv'
  BY FileSame DEF LoadCheck, LoadRead, LoadStore
<1>2. SpeakersTypeOK'
  BY DEF LoadCheck, LoadRead, LoadStore, SpeakersInv, SpeakersTypeOK
<1>3. ASSUME LoadCheck(l) PROVE TablesInv'
  BY <1>3 DEF LoadCheck, SpeakersInv, SpeakersTypeOK, TablesInv, PresetsShown, SpecForId, Preset
<1>4. ASSUME NEW read \in BOOLEAN, LoadRead(l, read) PROVE TablesInv'
  BY <1>4, LayersShow
  DEF LoadRead, SpeakersInv, SpeakersTypeOK, TablesInv, PresetsShown, SpecForId, Preset
<1>5. ASSUME LoadStore(l) PROVE TablesInv'
  BY <1>5 DEF LoadStore, SpeakersInv, SpeakersTypeOK, TablesInv, PresetsShown, SpecForId, Preset
<1>6. TablesInv'
  BY <1>3, <1>4, <1>5
  DEF LoadCheck, SpeakersInv, SpeakersTypeOK, TablesInv, PresetsShown, SpecForId, Preset
<1> QED
  BY <1>1, <1>2, <1>6 DEF SpeakersInv

\* A load that begins, and one that ends and drops the table it has got.
LEMMA LoaderMoves ==
  ASSUME SpeakersInv, NEW t \in Loaders, UNCHANGED sCache,
         \/ sLoad' = [sLoad EXCEPT ![t] = NoLoad]
         \/ sLoad' = [sLoad EXCEPT ![t].at = "check"]
         \/ sLoad' = sLoad
  PROVE  /\ TablesInv'
         /\ sLoad' = [l \in Loaders |-> [at |-> sLoad'[l].at, table |-> sLoad'[l].table]]
<1>1. sLoad = [l \in Loaders |-> [at |-> sLoad[l].at, table |-> sLoad[l].table]]
  BY DEF SpeakersInv, SpeakersTypeOK
<1>2. ASSUME NEW l \in Loaders
      PROVE  sLoad'[l].table = sLoad[l].table \/ sLoad'[l].table = NoTable
  BY <1>1 DEF NoLoad
<1>3. ASSUME NEW l \in Loaders PROVE PresetsShown(sLoad'[l].table)
  <2>1. PresetsShown(sLoad[l].table)
    BY DEF SpeakersInv, TablesInv
  <2>2. CASE sLoad'[l].table = sLoad[l].table
    BY <2>1, <2>2
  <2>3. CASE sLoad'[l].table = NoTable
    BY <2>3, NoTableShows
  <2> QED
    BY <1>2, <2>2, <2>3
<1>4. PresetsShown(sCache')
  BY DEF SpeakersInv, TablesInv
<1>5. sLoad' = [l \in Loaders |-> [at |-> sLoad'[l].at, table |-> sLoad'[l].table]]
  BY <1>1 DEF NoLoad
<1> QED
  BY <1>3, <1>4, <1>5 DEF TablesInv, PresetsShown, SpecForId, Preset

\* A lookup loads the registry if nobody has.
LEMMA LookupKeeps ==
  ASSUME SpeakersInv, NEW t \in Lookups, Resolve(t) \/ \E i \in Ids : Ask(t, i)
  PROVE  SpeakersInv'
<1>1. UNCHANGED <<sFile, sLoop, sAcked, sCache, sRegs, sMisread>> /\ t \in Loaders
  BY DEF Resolve, Ask, Loaders
<1>2. sLoad' = [sLoad EXCEPT ![t] = NoLoad] \/ sLoad' = [sLoad EXCEPT ![t].at = "check"]
  BY DEF Resolve, Ask
<1>3. /\ TablesInv'
      /\ sLoad' = [l \in Loaders |-> [at |-> sLoad'[l].at, table |-> sLoad'[l].table]]
  BY <1>1, <1>2, LoaderMoves
<1>4. SpeakersTypeOK'
  BY <1>1, <1>3 DEF SpeakersInv, SpeakersTypeOK
<1> QED
  BY <1>1, <1>3, <1>4, FileSame DEF SpeakersInv

\* register() begins under the lock with what it could read of the file.
LEMMA RegisterKeeps ==
  ASSUME SpeakersInv, NEW sid \in Ids \cup {NoId}, NEW read \in BOOLEAN,
         RegisterSpeaker(sid, read)
  PROVE  SpeakersInv'
<1> USE SpeakerIds DEF Ids, NoId
<1>1. /\ sLoop.step = "idle" /\ UNCHANGED <<sFile, sCache, sAcked, sMisread>>
      /\ "loop" \in Loaders
  BY DEF RegisterSpeaker, Idle, Loaders
<1>2. AutoId(read) \notin ExistingIds(read) /\ AutoId(read) \in Nat
      /\ ExistingIds(read) \subseteq Ids
  BY AutoIdIsNew DEF SpeakersInv, SpeakersTypeOK, ExistingIds, FileData
<1>3. /\ TablesInv'
      /\ sLoad' = [l \in Loaders |-> [at |-> sLoad'[l].at, table |-> sLoad'[l].table]]
  <2>1. sLoad' = sLoad \/ sLoad' = [sLoad EXCEPT !["loop"].at = "check"]
    BY DEF RegisterSpeaker
  <2> QED
    BY <1>1, <2>1, LoaderMoves
<1>4. SpeakersTypeOK'
  BY <1>1, <1>2, <1>3 DEF RegisterSpeaker, SpeakersInv, SpeakersTypeOK
<1>5. SpeakersKept'
  BY <1>1 DEF SpeakersInv, SpeakersKept, FileEntries
<1>6. LoopInv'
  BY <1>1, <1>2 DEF RegisterSpeaker, LoopInv, ExistingIds, FileData
<1> QED
  BY <1>3, <1>4, <1>5, <1>6 DEF SpeakersInv

\* A handler that goes on or ends keeps the shape of its record.
LEMMA LoopMoves ==
  ASSUME SpeakersTypeOK,
         \/ sLoop' = Idle
         \/ sLoop' = [sLoop EXCEPT !.step = "write"]
         \/ sLoop' = [sLoop EXCEPT !.step = "drop"]
  PROVE  /\ sLoop' \in [op : {"idle", "register", "overwrite", "unregister", "list"},
                        step : {"idle", "load", "write", "drop"}, id : Ids \cup {NoId}, reg : Nat,
                        read : BOOLEAN]
         /\ \/ sLoop' = Idle
            \/ /\ sLoop'.op = sLoop.op /\ sLoop'.id = sLoop.id /\ sLoop'.reg = sLoop.reg
               /\ sLoop'.read = sLoop.read /\ sLoop'.step \in {"write", "drop"}
<1>1. Idle \in [op : {"idle", "register", "overwrite", "unregister", "list"},
                step : {"idle", "load", "write", "drop"}, id : Ids \cup {NoId}, reg : Nat,
                read : BOOLEAN]
  BY DEF Idle
<1>2. CASE sLoop' = Idle
  BY <1>1, <1>2
<1>3. CASE sLoop' = [sLoop EXCEPT !.step = "write"]
  BY <1>3 DEF SpeakersTypeOK
<1>4. CASE sLoop' = [sLoop EXCEPT !.step = "drop"]
  BY <1>4 DEF SpeakersTypeOK
<1> QED
  BY <1>2, <1>3, <1>4

\* A preset is refused, unless the environment replaced it.
LEMMA RefusalKeeps ==
  ASSUME SpeakersInv, RefusePreset \/ Listed
  PROVE  SpeakersInv'
<1> USE SpeakerIds DEF Ids, NoId, Idle
<1>1. /\ UNCHANGED <<sFile, sCache, sAcked, sRegs, sMisread>> /\ sLoop.step # "drop"
      /\ "loop" \in Loaders /\ sLoad' = [sLoad EXCEPT !["loop"] = NoLoad]
  BY DEF RefusePreset, Listed, Loaders, SpeakersInv, LoopInv
<1>2. /\ TablesInv'
      /\ sLoad' = [l \in Loaders |-> [at |-> sLoad'[l].at, table |-> sLoad'[l].table]]
  BY <1>1, LoaderMoves
<1>7. sLoop' = Idle \/ sLoop' = [sLoop EXCEPT !.step = "write"]
  BY DEF RefusePreset, Listed
<1>3. SpeakersTypeOK'
  BY <1>1, <1>2, <1>7, LoopMoves DEF SpeakersInv, SpeakersTypeOK
<1>4. SpeakersKept'
  BY <1>1 DEF SpeakersInv, SpeakersKept, FileEntries, RefusePreset, Listed
<1>5. CASE RefusePreset
  <2>1. PresetsShown(sLoad["loop"].table)
    BY <1>1 DEF SpeakersInv, TablesInv
  <2>2. \/ sLoop' = Idle
        \/ sLoop' = [sLoop EXCEPT !.step = "write"] /\ sLoop.id \notin PresetIds \ EnvIds
    BY <1>5, <2>1 DEF RefusePreset, PresetsShown
  <2>3. LoopInv'
    BY <1>1, <1>5, <2>2 DEF RefusePreset, LoopInv, SpeakersInv, SpeakersTypeOK
  <2> QED
    BY <1>2, <1>3, <1>4, <2>3 DEF SpeakersInv
<1>6. CASE Listed
  BY <1>2, <1>3, <1>4, <1>6 DEF Listed, LoopInv, SpeakersInv
<1> QED
  BY <1>5, <1>6

\* A deletion writes the file without the entry, or finds none to take out: either there
\* is none, or the file could not be read.
LEMMA DeleteKeeps ==
  ASSUME SpeakersInv, NEW read \in BOOLEAN, Delete(read)
  PROVE  SpeakersInv'
<1> USE SpeakerIds DEF Ids, NoId, Idle
<1>1. /\ UNCHANGED <<sFile, sCache, sAcked, sRegs>> /\ sLoop.step # "drop" /\ "loop" \in Loaders
      /\ sLoad' = [sLoad EXCEPT !["loop"] = NoLoad] /\ sMisread \subseteq sMisread'
      /\ sLoop.op = "unregister"
  BY DEF Delete, Loaders
<1>2. /\ TablesInv'
      /\ sLoad' = [l \in Loaders |-> [at |-> sLoad'[l].at, table |-> sLoad'[l].table]]
  BY <1>1, LoaderMoves
<1>3. \/ sLoop' = Idle
      \/ /\ sLoop' = [sLoop EXCEPT !.step = "write"] /\ read
      \/ /\ sLoop' = [sLoop EXCEPT !.step = "drop"]
         /\ sLoop.id \in DOMAIN sFile => <<sLoop.id, sFile[sLoop.id]>> \in sMisread'
  BY DEF Delete, FileData
<1>12. SpeakersTypeOK
  BY DEF SpeakersInv
<1>4. SpeakersTypeOK'
  BY <1>1, <1>2, <1>3, <1>12, LoopMoves DEF SpeakersTypeOK
<1>5. (sAcked \ FileEntries) \cup (FileEntries \ sAcked) \subseteq sMisread'
  BY <1>1 DEF SpeakersInv, SpeakersKept
<1>6. FileEntries' = FileEntries /\ sAcked' = sAcked
  BY <1>1 DEF FileEntries
<1>7. SpeakersKept'
  BY <1>1, <1>5, <1>6 DEF SpeakersInv, SpeakersKept
<1>8. ASSUME sLoop' = Idle PROVE LoopInv'
  BY <1>8 DEF LoopInv
<1>9. ASSUME sLoop' = [sLoop EXCEPT !.step = "write"], read PROVE LoopInv'
  <2>1. /\ sLoop'.op = "unregister" /\ sLoop'.step = "write" /\ sLoop'.read = sLoop.read
        /\ sLoop.read
    BY <1>1, <1>9, <1>12 DEF SpeakersTypeOK, SpeakersInv, LoopInv
  <2> QED
    BY <2>1 DEF LoopInv
<1>10. ASSUME sLoop' = [sLoop EXCEPT !.step = "drop"],
              sLoop.id \in DOMAIN sFile => <<sLoop.id, sFile[sLoop.id]>> \in sMisread'
       PROVE  LoopInv'
  <2>1. /\ sLoop'.step = "drop" /\ sLoop'.op = "unregister" /\ sLoop'.id = sLoop.id
        /\ sLoop'.read
    <3>1. sLoop.op = "unregister" => sLoop.read
      BY DEF SpeakersInv, LoopInv
    <3>2. DOMAIN sLoop = {"op", "step", "id", "reg", "read"}
      BY <1>12 DEF SpeakersTypeOK
    <3> QED
      BY <1>1, <1>10, <3>1, <3>2
  <2>2. Wanted' = {a \in sAcked : a[1] # sLoop.id}
    BY <1>6, <2>1 DEF Wanted
  <2>3. ASSUME NEW a \in FileEntries, a[1] = sLoop.id PROVE a \in sMisread'
    <3>1. PICK i \in DOMAIN sFile : a = <<i, sFile[i]>>
      BY DEF FileEntries
    <3>2. i = sLoop.id
      BY <2>3, <3>1
    <3> QED
      BY <1>10, <3>1, <3>2
  <2>4. (Wanted' \ FileEntries') \cup (FileEntries' \ Wanted') \subseteq sMisread'
    BY <1>5, <1>6, <2>2, <2>3
  <2> QED
    BY <2>1, <2>4 DEF LoopInv
<1>11. LoopInv'
  BY <1>3, <1>8, <1>9, <1>10
<1> QED
  BY <1>2, <1>4, <1>7, <1>11 DEF SpeakersInv

\* The rename of the temporary file.
LEMMA WriteKeeps ==
  ASSUME SpeakersInv, AtomicWrite
  PROVE  SpeakersInv'
<1> USE SpeakerIds DEF Ids, NoId
<1>1. /\ sLoop.step = "write" /\ sLoop' = [sLoop EXCEPT !.step = "drop"] /\ sFile' = FileAfter
      /\ UNCHANGED <<sCache, sLoad, sAcked, sRegs>>
      /\ sMisread' = IF sLoop.read THEN sMisread ELSE sMisread \cup FileEntries
  BY DEF AtomicWrite
<1>2. /\ sLoop'.step = "drop" /\ sLoop'.op = sLoop.op /\ sLoop'.id = sLoop.id
      /\ sLoop'.reg = sLoop.reg /\ sLoop.op \in {"register", "overwrite", "unregister"}
      /\ sLoop'.read = sLoop.read /\ sLoop.read \in BOOLEAN
  BY <1>1 DEF SpeakersInv, SpeakersTypeOK, LoopInv
<1>3. (sAcked \ FileEntries) \cup (FileEntries \ sAcked) \subseteq sMisread
  BY <1>1 DEF SpeakersInv, SpeakersKept
<1>4. TablesInv'
  BY <1>1 DEF SpeakersInv, TablesInv, PresetsShown, SpecForId, Preset
<1>5. CASE sLoop.op = "unregister"
  <2>1. sFile' = [i \in DOMAIN sFile \ {sLoop.id} |-> sFile[i]] /\ sMisread' = sMisread
    BY <1>1, <1>5 DEF FileAfter, FileData, SpeakersInv, LoopInv
  <2>2. FileEntries' = {a \in FileEntries : a[1] # sLoop.id}
    BY <2>1 DEF FileEntries
  <2>3. Wanted' = {a \in sAcked : a[1] # sLoop.id}
    BY <1>1, <1>2, <1>5 DEF Wanted
  <2>4. (Wanted' \ FileEntries') \cup (FileEntries' \ Wanted') \subseteq sMisread'
    BY <1>3, <2>1, <2>2, <2>3
  <2>5. LoopInv'
    BY <1>1, <1>2, <1>5, <2>4 DEF LoopInv, SpeakersInv
  <2>6. SpeakersTypeOK' /\ SpeakersKept'
    BY <1>1, <1>2, <2>1 DEF SpeakersInv, SpeakersTypeOK, SpeakersKept
  <2> QED
    BY <1>4, <2>5, <2>6 DEF SpeakersInv
<1>6. CASE sLoop.op # "unregister"
  <2> DEFINE own == <<sLoop.id, sLoop.reg>>
  <2>0. sLoop.id \in Ids /\ sLoop.id \notin PresetIds \ EnvIds
    BY <1>1, <1>2, <1>6 DEF SpeakersInv, LoopInv
  <2>1. Wanted' = (IF sLoop.op = "register" THEN sAcked
                     ELSE {a \in sAcked : a[1] # sLoop.id}) \cup {own}
    BY <1>1, <1>2, <1>6 DEF Wanted
  <2>2. ASSUME sLoop.read
        PROVE  /\ (Wanted' \ FileEntries') \cup (FileEntries' \ Wanted') \subseteq sMisread'
               /\ DOMAIN sFile' \subseteq DOMAIN sFile \cup {sLoop.id}
    <3>1. sFile' = [i \in DOMAIN sFile \cup {sLoop.id} |->
                        IF i = sLoop.id THEN sLoop.reg ELSE sFile[i]]
      BY <1>1, <1>6, <2>2 DEF FileAfter, FileData
    <3>8. DOMAIN sFile' = DOMAIN sFile \cup {sLoop.id}
      BY <3>1
    <3>9. FileEntries' = {<<i, sFile'[i]>> : i \in DOMAIN sFile \cup {sLoop.id}}
      BY <3>8 DEF FileEntries
    <3>10. \A i \in DOMAIN sFile \cup {sLoop.id} :
             sFile'[i] = IF i = sLoop.id THEN sLoop.reg ELSE sFile[i]
      BY <3>1
    <3>2. FileEntries' = {a \in FileEntries : a[1] # sLoop.id} \cup {own}
      BY <3>9, <3>10 DEF FileEntries
    <3>3. sLoop.op = "register" => {a \in FileEntries : a[1] # sLoop.id} = FileEntries
      BY <1>1, <2>2 DEF SpeakersInv, LoopInv, FileEntries
    <3>4. sMisread' = sMisread
      BY <1>1, <2>2
    <3>5. ASSUME sLoop.op = "register"
          PROVE  (Wanted' \ FileEntries') \cup (FileEntries' \ Wanted') \subseteq sMisread'
      <4>1. FileEntries' = FileEntries \cup {own} /\ Wanted' = sAcked \cup {own}
        BY <2>1, <3>2, <3>3, <3>5
      <4> QED
        BY <1>3, <3>4, <4>1
    <3>6. ASSUME sLoop.op # "register"
          PROVE  (Wanted' \ FileEntries') \cup (FileEntries' \ Wanted') \subseteq sMisread'
      <4>1. Wanted' = {a \in sAcked : a[1] # sLoop.id} \cup {own}
        BY <2>1, <3>6
      <4> QED
        BY <1>3, <3>2, <3>4, <4>1
    <3>7. (Wanted' \ FileEntries') \cup (FileEntries' \ Wanted') \subseteq sMisread'
      BY <3>5, <3>6
    <3> QED
      BY <3>7, <3>8
  <2>3. ASSUME ~sLoop.read
        PROVE  /\ (Wanted' \ FileEntries') \cup (FileEntries' \ Wanted') \subseteq sMisread'
               /\ DOMAIN sFile' \subseteq DOMAIN sFile \cup {sLoop.id}
    <3>1. sFile' = [i \in {sLoop.id} |-> sLoop.reg]
      <4>1. DOMAIN <<>> = {}
        OBVIOUS
      <4> QED
        BY <1>1, <1>6, <2>3, <4>1 DEF FileAfter, FileData
    <3>2. FileEntries' = {own} /\ sMisread' = sMisread \cup FileEntries
      BY <1>1, <2>3, <3>1 DEF FileEntries
    <3>3. sAcked \subseteq sMisread'
      BY <1>3, <3>2
    <3>4. Wanted' \subseteq sAcked \cup {own} /\ own \in Wanted'
      BY <2>1
    <3> QED
      BY <3>1, <3>2, <3>3, <3>4
  <2>4. /\ (Wanted' \ FileEntries') \cup (FileEntries' \ Wanted') \subseteq sMisread'
        /\ DOMAIN sFile' \subseteq DOMAIN sFile \cup {sLoop.id}
    BY <1>2, <2>2, <2>3
  <2>5. LoopInv'
    BY <1>1, <1>2, <1>6, <2>4 DEF LoopInv, SpeakersInv
  <2>6. SpeakersTypeOK' /\ SpeakersKept'
    BY <1>1, <1>2, <1>6, <2>0, <2>4 DEF SpeakersInv, SpeakersTypeOK, SpeakersKept, LoopInv
  <2> QED
    BY <1>4, <2>5, <2>6 DEF SpeakersInv
<1> QED
  BY <1>5, <1>6

\* The handler ends, or the process does: what the file holds is what is wanted.
LEMMA EndKeeps ==
  ASSUME SpeakersInv, WriteFails \/ Acknowledge \/ SCrash
  PROVE  SpeakersInv'
<1> USE SpeakerIds DEF Ids, NoId, Idle
<1>1. sLoop' = Idle /\ UNCHANGED <<sFile, sRegs, sMisread>>
  BY DEF WriteFails, Acknowledge, SCrash
<1>2. (sAcked' \ FileEntries) \cup (FileEntries \ sAcked') \subseteq sMisread
  BY DEF WriteFails, Acknowledge, SCrash, SpeakersInv, SpeakersKept, LoopInv, FileEntries
<1>3. SpeakersKept' /\ LoopInv'
  BY <1>1, <1>2 DEF SpeakersInv, SpeakersKept, LoopInv, FileEntries
<1>4. sLoad' = sLoad \/ sLoad' = [l \in Loaders |-> NoLoad]
  BY DEF WriteFails, Acknowledge, SCrash
<1>5. SpeakersTypeOK'
  BY <1>1, <1>4 DEF SpeakersInv, SpeakersTypeOK, NoLoad
<1>6. PresetsShown(sCache')
  <2>1. PresetsShown(sCache)
    BY DEF SpeakersInv, TablesInv
  <2>2. \/ sCache' = sCache \/ sCache' = NoTable
        \/ sCache' = [i \in DOMAIN sCache \ {sLoop.id} |-> sCache[i]]
    BY DEF WriteFails, Acknowledge, SCrash
  <2>3. CASE sCache' = [i \in DOMAIN sCache \ {sLoop.id} |-> sCache[i]]
    BY <2>1, <2>3 DEF PresetsShown, SpecForId, Preset
  <2> QED
    BY <2>1, <2>2, <2>3, NoTableShows
<1>7. ASSUME NEW l \in Loaders PROVE PresetsShown(sLoad'[l].table)
  <2>1. PresetsShown(sLoad[l].table)
    BY DEF SpeakersInv, TablesInv
  <2>2. CASE sLoad' = sLoad
    BY <2>1, <2>2
  <2>3. CASE sLoad' = [k \in Loaders |-> NoLoad]
    <3>1. sLoad'[l].table = NoTable
      BY <2>3 DEF NoLoad
    <3> QED
      BY <3>1, NoTableShows
  <2> QED
    BY <1>4, <2>2, <2>3
<1> QED
  BY <1>3, <1>5, <1>6, <1>7 DEF SpeakersInv, TablesInv, PresetsShown, SpecForId, Preset

\* The handlers that only look at the table begin.
LEMMA BeginKeeps ==
  ASSUME SpeakersInv, (\E i \in Ids : UnregisterSpeaker(i))
         \/ (\E reload \in BOOLEAN : List(reload))
  PROVE  SpeakersInv'
<1> USE SpeakerIds DEF Ids, NoId, Idle
<1>10. ASSUME \E i \in Ids : UnregisterSpeaker(i)
       PROVE  /\ UNCHANGED <<sFile, sAcked, sRegs, sMisread, sCache>> /\ sLoop.step # "drop"
              /\ sLoad' = [sLoad EXCEPT !["loop"].at = "check"]
  <2>1. PICK i \in Ids : UnregisterSpeaker(i)
    BY <1>10
  <2>2. sLoop.step = "idle"
    BY <2>1 DEF UnregisterSpeaker
  <2> QED
    BY <2>1, <2>2 DEF UnregisterSpeaker
<1>11. ASSUME \E reload \in BOOLEAN : List(reload)
       PROVE  /\ UNCHANGED <<sFile, sAcked, sRegs, sMisread>> /\ sLoop.step # "drop"
              /\ sLoad' = [sLoad EXCEPT !["loop"].at = "check"]
              /\ sCache' = sCache \/ sCache' = NoTable
  BY <1>11 DEF List
<1>1. /\ UNCHANGED <<sFile, sAcked, sRegs, sMisread>> /\ sLoop.step # "drop" /\ "loop" \in Loaders
      /\ sLoad' = [sLoad EXCEPT !["loop"].at = "check"]
      /\ sCache' = sCache \/ sCache' = NoTable
  BY <1>10, <1>11 DEF Loaders
<1>2. \/ sLoop' = [Idle EXCEPT !.op = "list", !.step = "load"]
      \/ \E i \in Ids : sLoop' = [Idle EXCEPT !.op = "unregister", !.step = "load", !.id = i]
  BY DEF UnregisterSpeaker, List
<1>3. SpeakersKept'
  BY <1>1 DEF SpeakersInv, SpeakersKept, FileEntries
<1>4. /\ sLoop' \in [op : {"idle", "register", "overwrite", "unregister", "list"},
                     step : {"idle", "load", "write", "drop"}, id : Ids \cup {NoId}, reg : Nat,
                     read : BOOLEAN]
      /\ sLoop'.step = "load" /\ sLoop'.op \in {"list", "unregister"} /\ sLoop'.read
  <2>1. CASE sLoop' = [Idle EXCEPT !.op = "list", !.step = "load"]
    BY <2>1
  <2>2. CASE \E i \in Ids : sLoop' = [Idle EXCEPT !.op = "unregister", !.step = "load", !.id = i]
    <3>1. PICK i \in Ids : sLoop' = [Idle EXCEPT !.op = "unregister", !.step = "load", !.id = i]
      BY <2>2
    <3>2. sLoop' = [op |-> "unregister", step |-> "load", id |-> i, reg |-> 0, read |-> TRUE]
      BY <3>1
    <3> QED
      BY <3>2
  <2> QED
    BY <1>2, <2>1, <2>2
<1>5. LoopInv'
  BY <1>4 DEF LoopInv
<1>6. /\ sLoad' = [l \in Loaders |-> [at |-> sLoad'[l].at, table |-> sLoad'[l].table]]
      /\ \A l \in Loaders : sLoad'[l].table = sLoad[l].table
  <2>1. sLoad = [l \in Loaders |-> [at |-> sLoad[l].at, table |-> sLoad[l].table]]
    BY DEF SpeakersInv, SpeakersTypeOK
  <2> QED
    BY <1>1, <2>1
<1>9. SpeakersTypeOK'
  BY <1>1, <1>4, <1>6 DEF SpeakersInv, SpeakersTypeOK
<1>7. ASSUME NEW l \in Loaders PROVE PresetsShown(sLoad'[l].table)
  BY <1>6 DEF SpeakersInv, TablesInv
<1>8. PresetsShown(sCache')
  BY <1>1, NoTableShows DEF SpeakersInv, TablesInv
<1> QED
  BY <1>3, <1>5, <1>7, <1>8, <1>9
  DEF SpeakersInv, TablesInv, PresetsShown, SpecForId, Preset

\* Every step keeps the invariant.
LEMMA SpeakersStep ==
  ASSUME SpeakersInv, [SNext]_sVars
  PROVE  SpeakersInv'
<1>1. CASE UNCHANGED sVars
  BY <1>1
  DEF sVars, SpeakersInv, SpeakersTypeOK, TablesInv, LoopInv, SpeakersKept, Wanted,
      FileEntries,
     PresetsShown, SpecForId, Preset
<1> QED
  BY <1>1, LoadKeeps, LookupKeeps, RegisterKeeps, RefusalKeeps, DeleteKeeps,
     WriteKeeps, EndKeeps, BeginKeeps
  DEF SNext

\* What register_speaker() acknowledged is in speakers.json, and nothing else is.
THEOREM SpeakersCorrect == SSpec => []SpeakersKept
<1>1. SpeakersInv /\ [SNext]_sVars => SpeakersInv'
  BY SpeakersStep
<1>2. SpeakersInv => SpeakersKept
  BY DEF SpeakersInv
<1> QED
  BY <1>1, <1>2, SpeakersInit, PTL DEF SSpec

-----------------------------------------------------------------------------
(* RkLlm *)

\* The first n tokens of the answer to c.
Own(c, n) == [k \in 1 .. n |-> <<c, k>>]
Tokens == Chats \X Nat

ChatRecords ==
  [at : {"new", "queued", "run", "collect", "raised", "done", "stopped", "ended"},
   engine : LEngines, mode : {"stream", "plain"}, gave : Nat, read : Chats \cup {NoChat},
   tokens : Seq(Tokens), idx : Nat, gone : BOOLEAN, shared : BOOLEAN]
LTypeOK ==
  /\ lKind \in {"dummy", "real"} /\ lEngine \in LEngines
  /\ lChat \in [Chats -> ChatRecords] /\ lList \in [Chats -> Seq(Tokens)]
  /\ lHolds \in [LEngines -> Chats \cup {NoChat}]

\* A chat that another generation has run into, or that ended in an error.
Disturbed(c) == lChat[c].shared \/ lChat[c].at = "ended"
Whole(c) == lKind = "dummy" \/ ~lChat[c].shared

\* What a chat has got, by where it is.  While a generation runs the attribute is its own
\* list, or the list of another that it has shared the engine with.
FreshOf(c) ==
  lChat[c].at \in {"new", "queued"} =>
    /\ lChat[c].gave = 0 /\ lChat[c].tokens = <<>> /\ lList[c] = <<>> /\ ~lChat[c].shared
RunOf(c) ==
  lChat[c].at = "run" /\ lKind = "real" =>
    /\ lHolds[lChat[c].engine] \in Chats /\ lChat[c].tokens = <<>>
    /\ \/ lHolds[lChat[c].engine] = c
       \/ lChat[c].shared /\ Disturbed(lHolds[lChat[c].engine])
    /\ ~lChat[c].shared => lList[c] = Own(c, lChat[c].gave)
CollectOf(c) ==
  lChat[c].at = "collect" =>
    /\ lKind = "real" /\ lChat[c].read \in Chats
    /\ ~lChat[c].shared => /\ lChat[c].read = c /\ lList[c] = Own(c, lChat[c].gave)
                           /\ Len(lChat[c].tokens) <= lChat[c].gave
                           /\ lChat[c].tokens = Own(c, Len(lChat[c].tokens))
DoneOf(c) ==
  /\ lChat[c].at \in {"done", "stopped"} /\ Whole(c) => lChat[c].tokens = Own(c, lChat[c].gave)
  /\ lChat[c].at = "run" /\ lKind = "dummy" => lChat[c].tokens = Own(c, lChat[c].gave)
  /\ lChat[c].at = "stopped" => lChat[c].idx = Len(lChat[c].tokens)
ChatOf(c) == FreshOf(c) /\ RunOf(c) /\ CollectOf(c) /\ DoneOf(c)
ChatInv == LTypeOK /\ \A c \in Chats : ChatOf(c)

-----------------------------------------------------------------------------
\* Facts of the token sequence of one answer.
LEMMA OwnTokens ==
  ASSUME NEW c \in Chats, NEW n \in Nat
  PROVE  /\ Own(c, n) \in Seq(Tokens) /\ Len(Own(c, n)) = n /\ Own(c, 0) = <<>>
         /\ Append(Own(c, n), <<c, n + 1>>) = Own(c, n + 1)
         /\ SubSeq(Own(c, n), 1, n) = Own(c, n)
         /\ \A k \in 1 .. n : Own(c, n)[k] = <<c, k>>
BY DEF Own, Tokens

\* The invariant implies the property.
LEMMA ChatInvWhole == ChatInv => AnswerIsWhole
<1> SUFFICES ASSUME ChatInv, NEW c \in Chats, lChat[c].at = "stopped",
                    lKind = "dummy" \/ ~lChat[c].shared
             PROVE  SubSeq(lChat[c].tokens, 1,
                    lChat[c].idx) = [k \in 1 .. lChat[c].gave |-> <<c, k>>]
  BY DEF AnswerIsWhole
<1>1. lChat[c].tokens = Own(c, lChat[c].gave) /\ lChat[c].idx = Len(lChat[c].tokens)
  BY DEF ChatInv, ChatOf, DoneOf, Whole
<1>2. lChat[c].gave \in Nat
  BY DEF ChatInv, LTypeOK, ChatRecords
<1> QED
  BY <1>1, <1>2, OwnTokens DEF Own

\* The records of a chat that begins and of one that is over.
LEMMA EndedRecord == NewChat \in ChatRecords /\ Ended \in ChatRecords /\ Ended.at = "ended"
<1>1. <<>> \in Seq(Tokens)
  OBVIOUS
<1>2. NewChat \in ChatRecords
  BY <1>1, ChatBounds DEF NewChat, ChatRecords, LEngines
<1>3. Ended \in ChatRecords /\ Ended.at = "ended"
  BY <1>2 DEF Ended, ChatRecords
<1> QED
  BY <1>2, <1>3

\* No chat has begun.
LEMMA ChatInit == LInit({"dummy", "real"}) => ChatInv
<1> SUFFICES ASSUME LInit({"dummy", "real"}) PROVE ChatInv
  OBVIOUS
<1> USE ChatBounds DEF LInit, LEngines
<1>1. <<>> \in Seq(Tokens)
  OBVIOUS
<1>2. NewChat \in ChatRecords
  BY <1>1 DEF NewChat, ChatRecords
<1>3. LTypeOK
  BY <1>1, <1>2 DEF LTypeOK
<1>4. ASSUME NEW c \in Chats PROVE ChatOf(c)
  <2>1. /\ lChat[c].at = "new" /\ lChat[c].gave = 0 /\ lChat[c].tokens = <<>>
        /\ lList[c] = <<>> /\ ~lChat[c].shared
    BY DEF NewChat
  <2> QED
    BY <2>1 DEF ChatOf, FreshOf, RunOf, CollectOf, DoneOf
<1> QED
  BY <1>3, <1>4 DEF ChatInv

\* A step of one chat that leaves the lists and the attribute alone.
LEMMA OnlyChat ==
  ASSUME ChatInv, NEW c \in Chats, NEW r \in ChatRecords, lChat' = [lChat EXCEPT ![c] = r],
         UNCHANGED <<lKind, lList, lHolds>>, lEngine' \in LEngines,
         Disturbed(c) => r.shared \/ r.at = "ended",
         ChatOf(c)'
  PROVE  ChatInv'
<1>1. lChat'[c] = r /\ \A d \in Chats \ {c} : lChat'[d] = lChat[d]
  BY DEF ChatInv, LTypeOK
<1>2. LTypeOK'
  BY DEF ChatInv, LTypeOK
<1>3. ASSUME NEW d \in Chats, d # c PROVE ChatOf(d)'
  <2>1. ChatOf(d) /\ lChat'[d] = lChat[d]
    BY <1>1, <1>3 DEF ChatInv
  <2>2. ASSUME NEW h \in Chats, Disturbed(h) PROVE Disturbed(h)'
    <3>1. CASE h = c
      BY <1>1, <2>2, <3>1 DEF Disturbed
    <3>2. CASE h # c
      BY <1>1, <2>2, <3>2 DEF Disturbed
    <3> QED
      BY <3>1, <3>2
  <2>3. FreshOf(d)' /\ CollectOf(d)' /\ DoneOf(d)'
    BY <2>1 DEF ChatOf, FreshOf, CollectOf, DoneOf, Whole
  <2>4. RunOf(d)'
    BY <2>1, <2>2 DEF ChatOf, RunOf
  <2> QED
    BY <2>3, <2>4 DEF ChatOf
<1> QED
  BY <1>2, <1>3 DEF ChatInv

\* The request ends in an error, or begins.
LEMMA EdgeSteps ==
  ASSUME ChatInv, NEW c \in Chats, Refuse(c) \/ StreamError(c) \/ \E mode \in {"stream",
         "plain"} : Accept(c, mode)
  PROVE  ChatInv'
<1> USE ChatBounds DEF LEngines
<1>1. UNCHANGED <<lKind, lList, lHolds>> /\ lEngine' \in LEngines /\ lChat[c] \in ChatRecords
  BY DEF Refuse, StreamError, Accept, ChatInv, LTypeOK
<1>2. CASE lChat' = [lChat EXCEPT ![c] = Ended]
  <2>1. Ended \in ChatRecords /\ Ended.at = "ended"
    BY EndedRecord
  <2>2. lChat'[c].at = "ended"
    BY <1>2, <2>1 DEF ChatInv, LTypeOK
  <2>3. ChatOf(c)'
    BY <2>2 DEF ChatOf, FreshOf, RunOf, CollectOf, DoneOf
  <2> QED
    BY <1>1, <1>2, <2>1, <2>3, OnlyChat
<1>3. CASE \E mode \in {"stream", "plain"} : Accept(c, mode)
  <2>1. PICK mode \in {"stream", "plain"} : Accept(c, mode)
    BY <1>3
  <2> DEFINE r == [lChat[c] EXCEPT !.at = "queued", !.engine = lEngine, !.mode = mode]
  <2>2. lChat[c].at = "new" /\ lChat' = [lChat EXCEPT ![c] = r] /\ FreshOf(c)
    BY <2>1 DEF Accept, ChatInv, ChatOf
  <2>3. /\ r \in ChatRecords /\ r.at = "queued" /\ r.gave = lChat[c].gave
        /\ r.tokens = lChat[c].tokens /\ r.shared = lChat[c].shared
    BY <1>1 DEF ChatRecords, ChatInv, LTypeOK
  <2> HIDE DEF r
  <2>4. lChat'[c] = r
    BY <2>2 DEF ChatInv, LTypeOK
  <2>5. ChatOf(c)'
    BY <1>1, <2>2, <2>3, <2>4 DEF ChatOf, FreshOf, RunOf, CollectOf, DoneOf
  <2> QED
    BY <1>1, <2>2, <2>3, <2>5, OnlyChat DEF Disturbed
<1> QED
  BY <1>2, <1>3 DEF Refuse, StreamError

\* What the loop sends, and a client that goes away.
LEMMA LoopSteps ==
  ASSUME ChatInv, NEW c \in Chats, SendChunks(c) \/ Disconnect(c) \/ RunFails(c)
  PROVE  ChatInv'
<1>1. UNCHANGED <<lKind, lList, lHolds>> /\ lEngine' \in LEngines /\ lChat[c] \in ChatRecords
      /\ lChat[c].at \notin {"new", "stopped", "ended"} /\ ChatOf(c)
  BY DEF SendChunks, Disconnect, RunFails, Polling, ChatInv, LTypeOK
<1> DEFINE sent == [lChat[c] EXCEPT !.idx = Len(lChat[c].tokens)]
           gone == [lChat[c] EXCEPT !.gone = TRUE]
           failed == [lChat[c] EXCEPT !.at = "raised"]
<1>2. PICK r \in {sent, gone, failed} : lChat' = [lChat EXCEPT ![c] = r]
  BY DEF SendChunks, Disconnect, RunFails
<1>3. Len(lChat[c].tokens) \in Nat
  BY <1>1, LenProperties DEF ChatRecords
<1>4. /\ r \in ChatRecords /\ r.at \in {lChat[c].at, "raised"} /\ r.engine = lChat[c].engine
      /\ r.gave = lChat[c].gave /\ r.read = lChat[c].read
      /\ r.tokens = lChat[c].tokens /\ r.shared = lChat[c].shared
  <2>1. CASE r = sent
    BY <1>1, <1>3, <2>1 DEF ChatRecords
  <2>2. CASE r = gone
    BY <1>1, <2>2 DEF ChatRecords
  <2>3. CASE r = failed
    BY <1>1, <2>3 DEF ChatRecords
  <2> QED
    BY <1>2, <2>1, <2>2, <2>3
<1> HIDE DEF sent, gone, failed
<1>5. lChat'[c] = r /\ \A d \in Chats : Disturbed(d) => Disturbed(d)'
  BY <1>1, <1>2, <1>4 DEF ChatInv, LTypeOK, Disturbed
<1>6. FreshOf(c)' /\ CollectOf(c)' /\ DoneOf(c)'
  BY <1>1, <1>4, <1>5 DEF ChatOf, FreshOf, CollectOf, DoneOf, Whole
<1>7. RunOf(c)'
  BY <1>1, <1>4, <1>5 DEF ChatOf, RunOf
<1>8. ChatOf(c)'
  BY <1>6, <1>7 DEF ChatOf
<1> QED
  BY <1>1, <1>2, <1>4, <1>8, OnlyChat DEF Disturbed

\* The answer is complete for the client.
LEMMA StopSteps ==
  ASSUME ChatInv, NEW c \in Chats, Stop(c) \/ Answer(c)
  PROVE  ChatInv'
<1> USE ChatBounds DEF LEngines
<1>1. UNCHANGED <<lKind, lList, lHolds>> /\ lEngine' \in LEngines
      /\ lChat[c] \in ChatRecords /\ ChatOf(c)
      /\ lChat[c].at \in {"done", "raised"}
  BY DEF Stop, Answer, ChatInv, LTypeOK
<1> DEFINE r == [lChat[c] EXCEPT !.at = "stopped", !.idx = Len(lChat[c].tokens)]
<1>2. Len(lChat[c].tokens) \in Nat
  BY <1>1, LenProperties DEF ChatRecords
<1>3. CASE lChat[c].at = "raised"
  <2>1. lChat' = [lChat EXCEPT ![c] = Ended]
    BY <1>3 DEF Stop, Answer
  <2>2. Ended \in ChatRecords /\ Ended.at = "ended"
    BY EndedRecord
  <2>3. lChat'[c].at = "ended"
    BY <2>1, <2>2 DEF ChatInv, LTypeOK
  <2>4. ChatOf(c)'
    BY <2>3 DEF ChatOf, FreshOf, RunOf, CollectOf, DoneOf
  <2> QED
    BY <1>1, <2>1, <2>2, <2>4, OnlyChat
<1>4. CASE lChat[c].at = "done"
  <2>1. lChat' = [lChat EXCEPT ![c] = r]
    BY <1>4 DEF Stop, Answer
  <2>2. /\ r \in ChatRecords /\ r.at = "stopped" /\ r.gave = lChat[c].gave
        /\ r.tokens = lChat[c].tokens /\ r.shared = lChat[c].shared /\ r.idx = Len(lChat[c].tokens)
    BY <1>1, <1>2 DEF ChatRecords
  <2> HIDE DEF r
  <2>3. lChat'[c] = r
    BY <2>1 DEF ChatInv, LTypeOK
  <2>4. ChatOf(c)'
    BY <1>1, <1>4, <2>2, <2>3 DEF ChatOf, FreshOf, RunOf, CollectOf, DoneOf, Whole
  <2> QED
    BY <1>1, <1>4, <2>1, <2>2, <2>4, OnlyChat DEF Disturbed
<1> QED
  BY <1>1, <1>3, <1>4

\* A token of the dummy engine.
LEMMA DummyTokenStep ==
  ASSUME ChatInv, NEW c \in Chats, DummyToken(c)
  PROVE  ChatInv'
<1> DEFINE n == lChat[c].gave
           r == [lChat[c] EXCEPT !.gave = n + 1,
                                 !.tokens = Append(lChat[c].tokens, <<c,
                                   Len(lChat[c].tokens) + 1>>)]
<1>1. UNCHANGED <<lKind, lList, lHolds>> /\ lEngine' \in LEngines
      /\ lChat[c] \in ChatRecords /\ ChatOf(c)
      /\ lChat[c].at = "run" /\ lKind = "dummy" /\ n \in Nat /\ lChat[c].tokens = Own(c, n)
  BY DEF DummyToken, ChatInv, LTypeOK, ChatOf, DoneOf, ChatRecords
<1>2. lChat' = [lChat EXCEPT ![c] = r]
  BY DEF DummyToken
<1>3. /\ Append(lChat[c].tokens, <<c, Len(lChat[c].tokens) + 1>>) = Own(c, n + 1)
      /\ Own(c, n + 1) \in Seq(Tokens) /\ n + 1 \in Nat
  <2>0. Len(Own(c, n)) = n /\ Append(Own(c, n), <<c, n + 1>>) = Own(c, n + 1)
    <3>1. n \in Nat
      BY <1>1
    <3> HIDE DEF n
    <3> QED
      BY <3>1, OwnTokens
  <2>1. Len(lChat[c].tokens) = n /\ Append(Own(c, n), <<c, n + 1>>) = Own(c, n + 1)
    BY <1>1, <2>0
  <2>2. n + 1 \in Nat
    BY <1>1
  <2>3. Own(c, n + 1) \in Seq(Tokens)
    BY <2>2, OwnTokens
  <2> QED
    BY <1>1, <2>1, <2>2, <2>3
<1>4. r \in ChatRecords /\ r.at = "run" /\ r.gave = n + 1 /\ r.tokens = Own(c, n + 1)
      /\ r.shared = lChat[c].shared
  BY <1>1, <1>3 DEF ChatRecords
<1> HIDE DEF r, n
<1>5. lChat'[c] = r
  BY <1>2 DEF ChatInv, LTypeOK
<1>6. ChatOf(c)'
  BY <1>1, <1>4, <1>5 DEF ChatOf, FreshOf, RunOf, CollectOf, DoneOf, Whole
<1> QED
  BY <1>1, <1>2, <1>4, <1>6, OnlyChat DEF Disturbed

\* rkllm_run() returns: the list to walk is the chat's own unless it shared the engine.
LEMMA RunReturnsStep ==
  ASSUME ChatInv, NEW c \in Chats, RunReturns(c)
  PROVE  ChatInv'
<1> DEFINE h == lHolds[lChat[c].engine]
           r == [lChat[c] EXCEPT !.at = IF lKind = "dummy" THEN "done" ELSE "collect", !.read = h]
<1>1. UNCHANGED <<lKind, lList, lHolds>> /\ lEngine' \in LEngines
      /\ lChat[c] \in ChatRecords /\ ChatOf(c)
      /\ lChat[c].at = "run" /\ lKind \in {"dummy", "real"}
  BY DEF RunReturns, ChatInv, LTypeOK
<1>2. lChat' = [lChat EXCEPT ![c] = r]
  BY DEF RunReturns
<1>3. h \in Chats \cup {NoChat} /\ lChat[c].gave \in Nat
  BY <1>1 DEF ChatInv, LTypeOK, ChatRecords
<1>4. /\ r \in ChatRecords /\ r.at = (IF lKind = "dummy" THEN "done" ELSE "collect") /\ r.read = h
      /\ r.gave = lChat[c].gave /\ r.tokens = lChat[c].tokens /\ r.shared = lChat[c].shared
  BY <1>1, <1>3 DEF ChatRecords
<1> HIDE DEF r
<1>5. lChat'[c] = r
  BY <1>2 DEF ChatInv, LTypeOK
<1>6. CASE lKind = "dummy"
  BY <1>1, <1>2, <1>4, <1>5, <1>6, OnlyChat
  DEF Disturbed, ChatOf, FreshOf, RunOf, CollectOf, DoneOf, Whole
<1>7. CASE lKind = "real"
  <2>1. Len(<<>>) = 0 /\ <<>> = Own(c, 0)
    BY <1>3, OwnTokens
  <2>2. /\ h \in Chats /\ lChat[c].tokens = <<>>
        /\ ~lChat[c].shared => h = c /\ lList[c] = Own(c, lChat[c].gave)
    BY <1>1, <1>7 DEF ChatOf, RunOf
  <2>3. CollectOf(c)'
    BY <1>1, <1>3, <1>4, <1>5, <1>7, <2>1, <2>2 DEF CollectOf
  <2>4. ChatOf(c)'
    BY <1>1, <1>4, <1>5, <1>7, <2>3 DEF ChatOf, FreshOf, RunOf, DoneOf
  <2> QED
    BY <1>1, <1>2, <1>4, <2>4, OnlyChat DEF Disturbed
<1> QED
  BY <1>1, <1>6, <1>7

\* chat() walks the list.
LEMMA CollectStep ==
  ASSUME ChatInv, NEW c \in Chats, Collect(c)
  PROVE  ChatInv'
<1> DEFINE got == Len(lChat[c].tokens)
           list == lList[lChat[c].read]
           more == [lChat[c] EXCEPT !.tokens = Append(lChat[c].tokens, list[got + 1])]
           done == [lChat[c] EXCEPT !.at = "done"]
<1>1. UNCHANGED <<lKind, lList, lHolds>> /\ lEngine' \in LEngines
      /\ lChat[c] \in ChatRecords /\ ChatOf(c)
      /\ lChat[c].at = "collect" /\ lKind = "real" /\ lChat[c].read \in Chats
  BY DEF Collect, ChatInv, LTypeOK, ChatOf, CollectOf
<1>2. /\ list \in Seq(Tokens) /\ lChat[c].tokens \in Seq(Tokens) /\ got \in Nat /\ Len(list) \in Nat
      /\ lChat[c].gave \in Nat
  BY <1>1, LenProperties DEF ChatInv, LTypeOK, ChatRecords
<1>3. ~lChat[c].shared =>
        /\ list = Own(c, lChat[c].gave) /\ got <= lChat[c].gave /\ lChat[c].tokens = Own(c, got)
        /\ lChat[c].read = c /\ lList[c] = Own(c, lChat[c].gave)
  BY <1>1 DEF ChatOf, CollectOf
<1>4. CASE got < Len(list)
  <2>1. lChat' = [lChat EXCEPT ![c] = more]
    BY <1>4 DEF Collect
  <2>2. list[got + 1] \in Tokens
    BY <1>2, <1>4, ElementOfSeq
  <2>3. /\ Append(lChat[c].tokens, list[got + 1]) \in Seq(Tokens)
        /\ Len(Append(lChat[c].tokens, list[got + 1])) = got + 1
    BY <1>2, <2>2, AppendProperties
  <2>4. /\ more \in ChatRecords /\ more.at = "collect" /\ more.gave = lChat[c].gave
        /\ more.read = lChat[c].read /\ more.shared = lChat[c].shared
        /\ more.tokens = Append(lChat[c].tokens, list[got + 1])
    BY <1>1, <2>3 DEF ChatRecords
  <2>5. ~lChat[c].shared => more.tokens = Own(c, got + 1) /\ got + 1 <= lChat[c].gave
    <3>1. ~lChat[c].shared => Len(list) = lChat[c].gave
      BY <1>2, <1>3, OwnTokens
    <3>2. ~lChat[c].shared => got + 1 \in 1 .. lChat[c].gave
      BY <1>2, <1>4, <3>1
    <3>3. ~lChat[c].shared => list[got + 1] = <<c, got + 1>>
      BY <1>2, <1>3, <3>2, OwnTokens
    <3>4. Append(Own(c, got), <<c, got + 1>>) = Own(c, got + 1)
      BY <1>2, OwnTokens
    <3>5. ~lChat[c].shared => more.tokens = Own(c, got + 1)
      BY <1>3, <2>4, <3>3, <3>4
    <3>6. ~lChat[c].shared => got + 1 <= lChat[c].gave
      BY <1>2, <3>2
    <3> QED
      BY <3>5, <3>6
  <2> HIDE DEF more
  <2>6. lChat'[c] = more
    BY <2>1 DEF ChatInv, LTypeOK
  <2>7. Len(more.tokens) = got + 1
    BY <2>3, <2>4
  <2> HIDE DEF got, list
  <2>8. CollectOf(c)'
    BY <1>1, <1>3, <2>4, <2>5, <2>6, <2>7 DEF CollectOf
  <2>9. ChatOf(c)'
    BY <1>1, <2>4, <2>6, <2>8 DEF ChatOf, FreshOf, RunOf, DoneOf
  <2> QED
    BY <1>1, <2>1, <2>4, <2>9, OnlyChat DEF Disturbed
<1>5. CASE ~(got < Len(list))
  <2>1. lChat' = [lChat EXCEPT ![c] = done]
    BY <1>5 DEF Collect
  <2>2. /\ done \in ChatRecords /\ done.at = "done" /\ done.gave = lChat[c].gave
        /\ done.tokens = lChat[c].tokens /\ done.shared = lChat[c].shared
    BY <1>1 DEF ChatRecords
  <2>3. ~lChat[c].shared => lChat[c].tokens = Own(c, lChat[c].gave)
    <3>1. ~lChat[c].shared => Len(list) = lChat[c].gave
      BY <1>2, <1>3, OwnTokens
    <3>2. ~lChat[c].shared => got = lChat[c].gave
      BY <1>2, <1>3, <1>5, <3>1
    <3> QED
      BY <1>3, <3>2
  <2> HIDE DEF done
  <2>4. lChat'[c] = done
    BY <2>1 DEF ChatInv, LTypeOK
  <2>5. ChatOf(c)'
    BY <1>1, <2>2, <2>3, <2>4 DEF ChatOf, FreshOf, RunOf, CollectOf, DoneOf, Whole
  <2> QED
    BY <1>1, <2>1, <2>2, <2>5, OnlyChat DEF Disturbed
<1> QED
  BY <1>4, <1>5

\* A generation begins: the attribute is its list, and every chat that runs on the same
\* engine is marked, as this one is if there is any.
LEMMA GenerateStep ==
  ASSUME ChatInv, NEW c \in Chats, Generate(c)
  PROVE  ChatInv'
<1>1. UNCHANGED <<lKind, lList>> /\ lEngine' \in LEngines /\ lChat[c] \in ChatRecords
      /\ lChat[c].at = "queued" /\ lKind \in {"dummy", "real"}
  BY DEF Generate, ChatInv, LTypeOK
<1>2. lChat[c].gave = 0 /\ lChat[c].tokens = <<>> /\ lList[c] = <<>> /\ ~lChat[c].shared
      /\ ChatOf(c)
  BY <1>1 DEF ChatInv, ChatOf, FreshOf
<1>3. CASE lChat[c].engine \notin lLoaded
  <2> DEFINE r == [lChat[c] EXCEPT !.at = "raised"]
  <2>1. lChat' = [lChat EXCEPT ![c] = r] /\ lHolds' = lHolds
    BY <1>3 DEF Generate
  <2>2. r \in ChatRecords /\ r.at = "raised" /\ r.shared = lChat[c].shared
    BY <1>1 DEF ChatRecords
  <2> HIDE DEF r
  <2>3. lChat'[c] = r
    BY <2>1 DEF ChatInv, LTypeOK
  <2>4. ChatOf(c)'
    BY <2>2, <2>3 DEF ChatOf, FreshOf, RunOf, CollectOf, DoneOf
  <2> QED
    BY <1>1, <2>1, <2>2, <2>4, OnlyChat DEF Disturbed
<1>4. CASE lChat[c].engine \in lLoaded
  <2> DEFINE e == lChat[c].engine
             started == [lChat EXCEPT ![c].at = "run"]
             others == {d \in Chats \ {c} : Generating(d) /\ started[d].engine = started[c].engine}
  <2>1. /\ lChat' = Overlaps(c, started)
        /\ lHolds' = IF lKind = "real" THEN [lHolds EXCEPT ![e] = c] ELSE lHolds
    BY <1>4 DEF Generate
  <2>2. /\ started \in [Chats -> ChatRecords] /\ started[c].at = "run" /\ started[c].engine = e
        /\ started[c].gave = 0 /\ started[c].tokens = <<>> /\ ~started[c].shared
        /\ \A d \in Chats \ {c} : started[d] = lChat[d]
    BY <1>1, <1>2 DEF ChatInv, LTypeOK, ChatRecords
  <2>3. lChat' = [d \in Chats |-> IF others # {} /\ d \in others \cup {c}
                                    THEN [started[d] EXCEPT !.shared = TRUE] ELSE started[d]]
    BY <2>1 DEF Overlaps
  <2> HIDE DEF started
  <2>4. ASSUME NEW d \in Chats
        PROVE  /\ lChat'[d] \in ChatRecords /\ lChat'[d].at = started[d].at
               /\ lChat'[d].engine = started[d].engine /\ lChat'[d].gave = started[d].gave
               /\ lChat'[d].read = started[d].read /\ lChat'[d].tokens = started[d].tokens
               /\ lChat'[d].idx = started[d].idx
               /\ lChat'[d].shared = started[d].shared \/ lChat'[d].shared
               /\ others # {} /\ d \in others \cup {c} => lChat'[d].shared
               /\ started[d].shared => lChat'[d].shared
    <3>1. started[d] \in ChatRecords
      BY <2>2
    <3>2. CASE others # {} /\ d \in others \cup {c}
      <4>1. lChat'[d] = [started[d] EXCEPT !.shared = TRUE]
        BY <2>3, <3>2
      <4> HIDE DEF others
      <4> QED
        BY <3>1, <4>1 DEF ChatRecords
    <3>3. CASE ~(others # {} /\ d \in others \cup {c})
      <4>1. lChat'[d] = started[d]
        BY <2>3, <3>3
      <4> QED
        BY <3>1, <3>3, <4>1
    <3> QED
      BY <3>2, <3>3
  <2>5. LTypeOK'
    <3>1. lChat' \in [Chats -> ChatRecords]
      BY <2>3, <2>4
    <3>2. e \in LEngines
      BY <1>1 DEF ChatRecords
    <3> QED
      BY <1>1, <2>1, <3>1, <3>2 DEF ChatInv, LTypeOK
  <2>6. ASSUME NEW h \in Chats, Disturbed(h) PROVE Disturbed(h)'
    <3>1. h # c
      BY <1>1, <1>2, <2>6 DEF Disturbed
    <3> QED
      BY <2>2, <2>4, <2>6, <3>1 DEF Disturbed
  <2>7. e \in LEngines /\ (lKind = "real" => lHolds'[e] = c
        /\ \A k \in LEngines \ {e} : lHolds'[k] = lHolds[k])
    BY <1>1, <2>1 DEF ChatInv, LTypeOK, ChatRecords
  <2>8. ChatOf(c)'
    <3>1. Own(c, 0) = <<>>
      BY OwnTokens
    <3>2. /\ lChat'[c].at = "run" /\ lChat'[c].engine = e /\ lChat'[c].gave = 0
          /\ lChat'[c].tokens = <<>>
      BY <2>2, <2>4
    <3> QED
      BY <1>1, <1>2, <2>7, <3>1, <3>2 DEF ChatOf, FreshOf, RunOf, CollectOf, DoneOf
  <2>9. ASSUME NEW d \in Chats, d # c PROVE ChatOf(d)'
    <3>1. ChatOf(d) /\ lChat[d] \in ChatRecords
      BY DEF ChatInv, LTypeOK
    <3>2. /\ lChat'[d].at = lChat[d].at /\ lChat'[d].engine = lChat[d].engine
          /\ lChat'[d].gave = lChat[d].gave /\ lChat'[d].read = lChat[d].read
          /\ lChat'[d].tokens = lChat[d].tokens /\ lChat'[d].idx = lChat[d].idx
          /\ ~lChat'[d].shared => ~lChat[d].shared
      BY <2>2, <2>4, <2>9
    <3>3. lChat[d].at \in {"new", "queued"} => ~lChat'[d].shared
      <4>1. lChat[d].at \in {"new", "queued"} => d \notin others \cup {c} /\ ~lChat[d].shared
        BY <2>9, <3>1 DEF Generating, ChatOf, FreshOf
      <4>2. d \notin others \cup {c} => lChat'[d] = lChat[d]
        BY <2>2, <2>3, <2>9
      <4> QED
        BY <4>1, <4>2
    <3>4. FreshOf(d)'
      BY <1>1, <3>1, <3>2, <3>3 DEF ChatOf, FreshOf
    <3>5. CollectOf(d)' /\ DoneOf(d)'
      BY <1>1, <3>1, <3>2 DEF ChatOf, CollectOf, DoneOf, Whole
    <3>6. RunOf(d)'
      <4> SUFFICES ASSUME lChat[d].at = "run", lKind = "real"
                   PROVE  /\ lHolds'[lChat[d].engine] \in Chats /\ lChat'[d].tokens = <<>>
                          /\ \/ lHolds'[lChat[d].engine] = d
                             \/ lChat'[d].shared /\ Disturbed(lHolds[lChat[d].engine])'
                          /\ ~lChat'[d].shared => lList'[d] = Own(d, lChat'[d].gave)
        BY <1>1, <3>2 DEF RunOf
      <4>1. RunOf(d)
        BY <3>1 DEF ChatOf
      <4>2. CASE lChat[d].engine = e
        <5>1. d \in others
          BY <2>2, <2>9, <4>2 DEF Generating
        <5>2. lChat'[d].shared /\ lChat'[c].shared
          BY <2>4, <5>1
        <5>3. lHolds'[lChat[d].engine] = c
          BY <2>7, <4>2
        <5> QED
          BY <3>2, <4>1, <5>2, <5>3 DEF RunOf, Disturbed
      <4>3. CASE lChat[d].engine # e
        <5>1. lHolds'[lChat[d].engine] = lHolds[lChat[d].engine]
          BY <2>7, <3>1, <4>3 DEF ChatRecords
        <5>2. lChat[d].shared => lChat'[d].shared
          BY <2>2, <2>4, <2>9
        <5> QED
          BY <1>1, <2>6, <3>2, <4>1, <5>1, <5>2 DEF RunOf
      <4> QED
        BY <4>2, <4>3
    <3> QED
      BY <3>4, <3>5, <3>6 DEF ChatOf
  <2> QED
    BY <2>5, <2>8, <2>9 DEF ChatInv
<1> QED
  BY <1>3, <1>4

\* A token of the library: it lands in the list that is the attribute now.
LEMMA OnResultStep ==
  ASSUME ChatInv, NEW c \in Chats, OnResult(c)
  PROVE  ChatInv'
<1> DEFINE h == lHolds[lChat[c].engine]
           n == lChat[c].gave
           r == [lChat[c] EXCEPT !.gave = n + 1]
<1>1. UNCHANGED <<lKind, lHolds>> /\ lEngine' \in LEngines /\ lChat[c] \in ChatRecords
      /\ lChat[c].at = "run" /\ lKind = "real" /\ ChatOf(c) /\ n \in Nat
  BY DEF OnResult, ChatInv, LTypeOK, ChatRecords
<1>2. /\ lChat' = [lChat EXCEPT ![c] = r]
      /\ lList' = [lList EXCEPT ![h] = Append(lList[h], <<c, n + 1>>)]
  BY DEF OnResult
<1>3. h \in Chats /\ (h = c \/ (lChat[c].shared /\ Disturbed(h))) /\ lChat[c].tokens = <<>>
      /\ (~lChat[c].shared => lList[c] = Own(c, n))
  BY <1>1 DEF ChatOf, RunOf
<1>4. /\ r \in ChatRecords /\ r.at = "run" /\ r.engine = lChat[c].engine /\ r.gave = n + 1
      /\ r.tokens = lChat[c].tokens /\ r.shared = lChat[c].shared
  BY <1>1 DEF ChatRecords
<1>5. /\ <<c, n + 1>> \in Tokens /\ Append(lList[h], <<c, n + 1>>) \in Seq(Tokens)
      /\ Append(Own(c, n), <<c, n + 1>>) = Own(c, n + 1)
  <2>1. <<c, n + 1>> \in Tokens
    BY <1>1 DEF Tokens
  <2>2. lList[h] \in Seq(Tokens)
    BY <1>3 DEF ChatInv, LTypeOK
  <2>3. Append(lList[h], <<c, n + 1>>) \in Seq(Tokens)
    BY <2>1, <2>2, AppendProperties
  <2> HIDE DEF n
  <2> QED
    BY <1>1, <2>1, <2>3, OwnTokens
<1> HIDE DEF r, n
<1>6. lChat'[c] = r /\ \A d \in Chats \ {c} : lChat'[d] = lChat[d]
  BY <1>2 DEF ChatInv, LTypeOK
<1>7. LTypeOK'
  BY <1>1, <1>2, <1>3, <1>4, <1>5 DEF ChatInv, LTypeOK
<1>8. \A d \in Chats : d # h => lList'[d] = lList[d]
  BY <1>2 DEF ChatInv, LTypeOK
<1>9. h = c => lList'[c] = Append(lList[c], <<c, n + 1>>)
  BY <1>2, <1>3 DEF ChatInv, LTypeOK
<1>10. \A d \in Chats : Disturbed(d) => Disturbed(d)'
  BY <1>1, <1>4, <1>6 DEF Disturbed
<1>11. ChatOf(c)'
  <2>1. ~lChat'[c].shared => lList'[c] = Own(c, n + 1)
    BY <1>3, <1>4, <1>5, <1>6, <1>9
  <2>2. RunOf(c)'
    BY <1>1, <1>3, <1>4, <1>6, <1>10, <2>1 DEF RunOf
  <2> QED
    BY <1>1, <1>4, <1>6, <2>2 DEF ChatOf, FreshOf, CollectOf, DoneOf
<1>12. ASSUME NEW d \in Chats, d # c PROVE ChatOf(d)'
  <2>1. ChatOf(d) /\ lChat'[d] = lChat[d]
    BY <1>6, <1>12 DEF ChatInv
  <2>2. d = h => Disturbed(d)
    BY <1>3, <1>12
  <2>3. FreshOf(d)'
    BY <1>8, <2>1, <2>2 DEF ChatOf, FreshOf, Disturbed
  <2>4. CollectOf(d)' /\ DoneOf(d)'
    BY <1>1, <1>8, <2>1, <2>2 DEF ChatOf, CollectOf, DoneOf, Whole, Disturbed
  <2>5. RunOf(d)'
    <3>1. lChat[d].at = "run" /\ ~lChat[d].shared => lList'[d] = lList[d]
      BY <1>8, <2>2 DEF Disturbed
    <3> QED
      BY <1>1, <1>10, <2>1, <3>1 DEF ChatOf, RunOf
  <2> QED
    BY <2>3, <2>4, <2>5 DEF ChatOf
<1> QED
  BY <1>7, <1>11, <1>12 DEF ChatInv

\* Every step keeps the invariant.
LEMMA ChatStep ==
  ASSUME ChatInv, [LNext]_lVars
  PROVE  ChatInv'
<1>1. CASE UNCHANGED <<lKind, lChat, lList, lHolds>> /\ lEngine' \in LEngines
  BY <1>1
  DEF ChatInv, LTypeOK, ChatOf, FreshOf, RunOf, CollectOf, DoneOf, Whole, Disturbed
<1>2. CASE \E loads \in BOOLEAN : Reload(loads)
  <2>1. lEngine' \in LEngines /\ UNCHANGED <<lKind, lChat, lList, lHolds>>
    BY <1>2, ChatBounds DEF Reload, ChatInv, LTypeOK, LEngines
  <2> QED
    BY <1>1, <2>1
<1>3. CASE UNCHANGED lVars
  BY <1>1, <1>3 DEF lVars, ChatInv, LTypeOK
<1> QED
  BY <1>2, <1>3, EdgeSteps, LoopSteps, StopSteps, DummyTokenStep, RunReturnsStep, CollectStep,
     GenerateStep, OnResultStep DEF LNext

\* An answer that ends with "stop" is the whole answer to its own prompt.
THEOREM AnswerCorrect == LSpec => []AnswerIsWhole
<1>1. ChatInv /\ [LNext]_lVars => ChatInv'
  BY ChatStep
<1> QED
  BY <1>1, ChatInit, ChatInvWhole, PTL DEF LSpec

=============================================================================
