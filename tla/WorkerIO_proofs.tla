--------------------------- MODULE WorkerIO_proofs ---------------------------
(***************************************************************************)
(* TLAPS proofs about WorkerIO: types, the accounting of the semaphore's    *)
(* slots, that no write follows close(), and that a waiting request always  *)
(* has an event coming, for any requests, kinds, concurrency and worker.    *)
(***************************************************************************)
EXTENDS WorkerIO, FiniteSetTheorems, TLAPS

\* Who holds _stdin_lock: exactly the request inside a large write, and not
\* after close().
WriterInv ==
  /\ \A r \in Requests : holder = r <=> pc[r] = "writing"
  /\ closed => holder = NoRequest

\* How far close() and the reader are, and what that says of the worker.
EndInv ==
  /\ owner \in {"clearing", "waking", "killed"} => closed
  /\ owner # "waking" => owed = {}
  /\ reader = "ended" => ~alive
  /\ hand # NoEvent => hand.r \in Requests /\ reader = "read"

\* A request that is about to write is registered, unless close() or the reader
\* has emptied _inflight since; both make the write fail.
WriteInv ==
  \A r \in Requests : pc[r] \in {"write", "writing"} =>
     r \in inflight \/ owner \in {"waking", "killed"} \/ reader = "ended"

WInv ==
  /\ TypeOK
  /\ SlotsAccounted
  /\ WriterInv
  /\ EndInv
  /\ WriteInv
  /\ WaiterHasNews

-----------------------------------------------------------------------------
(* Slots *)

\* The requests that hold a permit are finitely many.
LEMMA TakenFinite ==
  IsFiniteSet(Taken) /\ Cardinality(Taken) \in Nat
<1>1. Taken \subseteq Requests
  BY DEF Taken
<1>2. IsFiniteSet(Taken)
  BY <1>1, RequestsFinite, FS_Subset
<1> QED
  BY <1>2, FS_CardinalityType

\* A request that gets a slot, that gives it back, and that does neither.
LEMMA TakenMore ==
  ASSUME TypeOK, NEW r \in Requests, NEW p \in Pcs, pc' = [pc EXCEPT ![r] = p],
         pc[r] \notin Holding \cup {"late"}, p \in Holding \cup {"late"}
  PROVE  Cardinality(Taken') = Cardinality(Taken) + 1
<1>1. Taken' = Taken \cup {r} /\ r \notin Taken
  BY DEF TypeOK, Taken
<1> QED
  BY <1>1, TakenFinite, FS_AddElement

\* A request that leaves the states that hold a permit makes them one fewer.
LEMMA TakenLess ==
  ASSUME TypeOK, NEW r \in Requests, NEW p \in Pcs, pc' = [pc EXCEPT ![r] = p],
         pc[r] \in Holding \cup {"late"}, p \notin Holding \cup {"late"}
  PROVE  Cardinality(Taken') = Cardinality(Taken) - 1 /\ Cardinality(Taken) > 0
<1>1. Taken' = Taken \ {r} /\ r \in Taken
  BY DEF TypeOK, Taken
<1>2. Cardinality(Taken') = Cardinality(Taken) - 1
  BY <1>1, TakenFinite, FS_RemoveElement
<1>3. Cardinality(Taken) # 0
  BY <1>1, TakenFinite, FS_EmptySet
<1> QED
  BY <1>2, <1>3, TakenFinite

\* A request that moves among those states, or outside them, changes nothing.
LEMMA TakenSame ==
  ASSUME TypeOK, NEW r \in Requests, NEW p \in Pcs, pc' = [pc EXCEPT ![r] = p],
         pc[r] \in Holding \cup {"late"} <=> p \in Holding \cup {"late"}
  PROVE  Taken' = Taken
BY DEF TypeOK, Taken

\* Slots and permits, over every step.
LEMMA SlotStep ==
  ASSUME TypeOK, SlotsAccounted, WriterInv, [Next]_vars
  PROVE  SlotsAccounted' /\ permits' \in 0 .. Concurrency
<1> USE ConcurrencyAssumption
<1>1. ASSUME NEW r \in Requests, Acquire(r)
      PROVE SlotsAccounted' /\ permits' \in 0 .. Concurrency
  <2>1. Cardinality(Taken') = Cardinality(Taken) + 1
    BY <1>1, TakenMore
    DEF Acquire, Goto, pipes, closing, reading, TypeOK, SlotsAccounted, Pcs, Holding,
        Registered
  <2>2. \A q \in inflight' : pc'[q] \in Registered
    BY <1>1
    DEF Acquire, Goto, pipes, closing, reading, TypeOK, SlotsAccounted, Pcs, Holding,
        Registered
  <2>3. permits' + Cardinality(Taken') = Concurrency /\ permits' \in 0 .. Concurrency
    BY <1>1, <2>1, TakenFinite DEF Acquire, TypeOK, SlotsAccounted
  <2> QED
    BY <2>2, <2>3 DEF SlotsAccounted
<1>2. ASSUME NEW r \in Requests, CancelWaiting(r)
      PROVE SlotsAccounted' /\ permits' \in 0 .. Concurrency
  <2>1. Taken' = Taken
    BY <1>2, TakenSame
    DEF CancelWaiting, Goto, pipes, closing, reading, TypeOK, SlotsAccounted, Pcs,
        Holding, Registered
  <2>2. \A q \in inflight' : pc'[q] \in Registered
    BY <1>2
    DEF CancelWaiting, Goto, pipes, closing, reading, TypeOK, SlotsAccounted, Pcs,
        Holding, Registered
  <2>3. permits' + Cardinality(Taken') = Concurrency /\ permits' \in 0 .. Concurrency
    BY <1>2, <2>1, TakenFinite DEF CancelWaiting, TypeOK, SlotsAccounted
  <2> QED
    BY <2>2, <2>3 DEF SlotsAccounted
<1>3. ASSUME NEW r \in Requests, LateAcquire(r)
      PROVE SlotsAccounted' /\ permits' \in 0 .. Concurrency
  <2>1. Cardinality(Taken') = Cardinality(Taken) + 1
    BY <1>3, TakenMore
    DEF LateAcquire, Goto, pipes, closing, reading, TypeOK, SlotsAccounted, Pcs,
        Holding, Registered
  <2>2. \A q \in inflight' : pc'[q] \in Registered
    BY <1>3
    DEF LateAcquire, Goto, pipes, closing, reading, TypeOK, SlotsAccounted, Pcs,
        Holding, Registered
  <2>3. permits' + Cardinality(Taken') = Concurrency /\ permits' \in 0 .. Concurrency
    BY <1>3, <2>1, TakenFinite DEF LateAcquire, TypeOK, SlotsAccounted
  <2> QED
    BY <2>2, <2>3 DEF SlotsAccounted
<1>4. ASSUME NEW r \in Requests, Check(r)
      PROVE SlotsAccounted' /\ permits' \in 0 .. Concurrency
  <2>1. CASE closed
    <3>1. Cardinality(Taken') = Cardinality(Taken) - 1 /\ Cardinality(Taken) > 0
      BY <1>4, <2>1, TakenLess
      DEF Check, Goto, pipes, closing, reading, TypeOK, SlotsAccounted, Pcs, Holding,
          Registered
    <3>2. \A q \in inflight' : pc'[q] \in Registered
      BY <1>4, <2>1
      DEF Check, Goto, pipes, closing, reading, TypeOK, SlotsAccounted, Pcs, Holding,
          Registered
    <3>3. permits' + Cardinality(Taken') = Concurrency /\ permits' \in 0 .. Concurrency
      BY <1>4, <2>1, <3>1, TakenFinite DEF Check, TypeOK, SlotsAccounted
    <3> QED
      BY <3>2, <3>3 DEF SlotsAccounted
  <2>2. CASE ~closed
    <3>1. Taken' = Taken
      BY <1>4, <2>2, TakenSame
      DEF Check, Goto, pipes, closing, reading, TypeOK, SlotsAccounted, Pcs, Holding,
          Registered
    <3> QED
      BY <1>4, <2>2, <3>1, TakenFinite
      DEF Check, Goto, pipes, closing, reading, TypeOK, SlotsAccounted, Pcs, Holding,
          Registered
  <2> QED
    BY <2>1, <2>2
<1>5. ASSUME NEW r \in Requests, Register(r)
      PROVE SlotsAccounted' /\ permits' \in 0 .. Concurrency
  <2>1. Taken' = Taken
    BY <1>5, TakenSame
    DEF Register, Goto, pipes, closing, reading, TypeOK, SlotsAccounted, Pcs, Holding,
        Registered
  <2>2. \A q \in inflight' : pc'[q] \in Registered
    BY <1>5
    DEF Register, Goto, pipes, closing, reading, TypeOK, SlotsAccounted, Pcs, Holding,
        Registered
  <2>3. permits' + Cardinality(Taken') = Concurrency /\ permits' \in 0 .. Concurrency
    BY <1>5, <2>1, TakenFinite DEF Register, TypeOK, SlotsAccounted
  <2> QED
    BY <2>2, <2>3 DEF SlotsAccounted
<1>6. ASSUME NEW r \in Requests, Write(r)
      PROVE SlotsAccounted' /\ permits' \in 0 .. Concurrency
  <2>1. Taken' = Taken
    BY <1>6, TakenSame
    DEF Write, ClosedUnderLock, Goto, pipes, closing, reading, TypeOK, SlotsAccounted,
        Pcs, Holding, Registered
  <2>2. \A q \in inflight' : pc'[q] \in Registered
    BY <1>6
    DEF Write, ClosedUnderLock, Goto, pipes, closing, reading, TypeOK, SlotsAccounted,
        Pcs, Holding, Registered
  <2>3. permits' + Cardinality(Taken') = Concurrency /\ permits' \in 0 .. Concurrency
    BY <1>6, <2>1, TakenFinite DEF Write, ClosedUnderLock, TypeOK, SlotsAccounted
  <2> QED
    BY <2>2, <2>3 DEF SlotsAccounted
<1>7. ASSUME NEW r \in Requests, WriteBroken(r)
      PROVE SlotsAccounted' /\ permits' \in 0 .. Concurrency
  <2>1. Taken' = Taken
    BY <1>7, TakenSame
    DEF WriteBroken, Goto, pipes, closing, reading, TypeOK, SlotsAccounted, Pcs,
        Holding, Registered
  <2>2. \A q \in inflight' : pc'[q] \in Registered
    BY <1>7
    DEF WriteBroken, Goto, pipes, closing, reading, TypeOK, SlotsAccounted, Pcs,
        Holding, Registered
  <2>3. permits' + Cardinality(Taken') = Concurrency /\ permits' \in 0 .. Concurrency
    BY <1>7, <2>1, TakenFinite DEF WriteBroken, TypeOK, SlotsAccounted
  <2> QED
    BY <2>2, <2>3 DEF SlotsAccounted
<1>8. ASSUME NEW r \in Requests, Get(r)
      PROVE SlotsAccounted' /\ permits' \in 0 .. Concurrency
  <2>1. Taken' = Taken
    BY <1>8, TakenSame
    DEF Get, Goto, pipes, closing, reading, TypeOK, SlotsAccounted, Pcs, Holding,
        Registered
  <2>2. \A q \in inflight' : pc'[q] \in Registered
    BY <1>8
    DEF Get, Goto, pipes, closing, reading, TypeOK, SlotsAccounted, Pcs, Holding,
        Registered
  <2>3. permits' + Cardinality(Taken') = Concurrency /\ permits' \in 0 .. Concurrency
    BY <1>8, <2>1, TakenFinite DEF Get, TypeOK, SlotsAccounted
  <2> QED
    BY <2>2, <2>3 DEF SlotsAccounted
<1>9. ASSUME NEW r \in Requests, GiveUp(r)
      PROVE SlotsAccounted' /\ permits' \in 0 .. Concurrency
  <2>1. Taken' = Taken
    BY <1>9, TakenSame
    DEF GiveUp, Goto, pipes, closing, reading, TypeOK, SlotsAccounted, Pcs, Holding,
        Registered
  <2>2. \A q \in inflight' : pc'[q] \in Registered
    BY <1>9
    DEF GiveUp, Goto, pipes, closing, reading, TypeOK, SlotsAccounted, Pcs, Holding,
        Registered
  <2>3. permits' + Cardinality(Taken') = Concurrency /\ permits' \in 0 .. Concurrency
    BY <1>9, <2>1, TakenFinite DEF GiveUp, TypeOK, SlotsAccounted
  <2> QED
    BY <2>2, <2>3 DEF SlotsAccounted
<1>10. ASSUME NEW r \in Requests, Resume(r)
      PROVE SlotsAccounted' /\ permits' \in 0 .. Concurrency
  <2>1. Taken' = Taken
    BY <1>10, TakenSame
    DEF Resume, Goto, pipes, closing, reading, TypeOK, SlotsAccounted, Pcs, Holding,
        Registered
  <2>2. \A q \in inflight' : pc'[q] \in Registered
    BY <1>10
    DEF Resume, Goto, pipes, closing, reading, TypeOK, SlotsAccounted, Pcs, Holding,
        Registered
  <2>3. permits' + Cardinality(Taken') = Concurrency /\ permits' \in 0 .. Concurrency
    BY <1>10, <2>1, TakenFinite DEF Resume, TypeOK, SlotsAccounted
  <2> QED
    BY <2>2, <2>3 DEF SlotsAccounted
<1>11. ASSUME NEW r \in Requests, Break(r)
      PROVE SlotsAccounted' /\ permits' \in 0 .. Concurrency
  <2>1. Taken' = Taken
    BY <1>11, TakenSame
    DEF Break, Goto, pipes, closing, reading, TypeOK, SlotsAccounted, Pcs, Holding,
        Registered
  <2>2. \A q \in inflight' : pc'[q] \in Registered
    BY <1>11
    DEF Break, Goto, pipes, closing, reading, TypeOK, SlotsAccounted, Pcs, Holding,
        Registered
  <2>3. permits' + Cardinality(Taken') = Concurrency /\ permits' \in 0 .. Concurrency
    BY <1>11, <2>1, TakenFinite DEF Break, TypeOK, SlotsAccounted
  <2> QED
    BY <2>2, <2>3 DEF SlotsAccounted
<1>12. ASSUME NEW r \in Requests, Return(r)
      PROVE SlotsAccounted' /\ permits' \in 0 .. Concurrency
  <2>1. Cardinality(Taken') = Cardinality(Taken) - 1 /\ Cardinality(Taken) > 0
    BY <1>12, TakenLess
    DEF Return, Pop, Goto, pipes, closing, reading, TypeOK, SlotsAccounted, Pcs,
        Holding, Registered
  <2>2. \A q \in inflight' : pc'[q] \in Registered
    BY <1>12
    DEF Return, Pop, Goto, pipes, closing, reading, TypeOK, SlotsAccounted, Pcs,
        Holding, Registered
  <2>3. permits' + Cardinality(Taken') = Concurrency /\ permits' \in 0 .. Concurrency
    BY <1>12, <2>1, TakenFinite DEF Return, Pop, TypeOK, SlotsAccounted
  <2> QED
    BY <2>2, <2>3 DEF SlotsAccounted
<1>13. ASSUME NEW r \in Requests, Finally(r)
      PROVE SlotsAccounted' /\ permits' \in 0 .. Concurrency
  <2>1. Cardinality(Taken') = Cardinality(Taken) - 1 /\ Cardinality(Taken) > 0
    BY <1>13, TakenLess
    DEF Finally, Pop, Goto, pipes, closing, reading, TypeOK, SlotsAccounted, Pcs,
        Holding, Registered
  <2>2. \A q \in inflight' : pc'[q] \in Registered
    BY <1>13
    DEF Finally, Pop, Goto, pipes, closing, reading, TypeOK, SlotsAccounted, Pcs,
        Holding, Registered
  <2>3. permits' + Cardinality(Taken') = Concurrency /\ permits' \in 0 .. Concurrency
    BY <1>13, <2>1, TakenFinite DEF Finally, Pop, TypeOK, SlotsAccounted
  <2> QED
    BY <2>2, <2>3 DEF SlotsAccounted
<1>14. ASSUME NEW r \in Requests, Cancel(r)
      PROVE SlotsAccounted' /\ permits' \in 0 .. Concurrency
  <2>1. Taken' = Taken
    BY <1>14, TakenSame
    DEF Cancel, Goto, pipes, closing, reading, TypeOK, SlotsAccounted, Pcs, Holding,
        Registered
  <2>2. \A q \in inflight' : pc'[q] \in Registered
    BY <1>14
    DEF Cancel, Goto, pipes, closing, reading, TypeOK, SlotsAccounted, Pcs, Holding,
        Registered
  <2>3. permits' + Cardinality(Taken') = Concurrency /\ permits' \in 0 .. Concurrency
    BY <1>14, <2>1, TakenFinite DEF Cancel, TypeOK, SlotsAccounted
  <2> QED
    BY <2>2, <2>3 DEF SlotsAccounted
<1>15. ASSUME NEW r \in Requests, ClosePut(r)
      PROVE SlotsAccounted' /\ permits' \in 0 .. Concurrency
  <2>1. Taken' = Taken
    BY <1>15
    DEF Taken, ClosePut, pipes, closing, reading, TypeOK, SlotsAccounted, Pcs, Holding,
        Registered
  <2> QED
    BY <1>15, <2>1, TakenFinite
    DEF ClosePut, pipes, closing, reading, TypeOK, SlotsAccounted, Pcs, Holding,
        Registered
<1>16. ASSUME NEW r \in Requests, ReadLine(r)
      PROVE SlotsAccounted' /\ permits' \in 0 .. Concurrency
  <2>1. Taken' = Taken
    BY <1>16
    DEF Taken, ReadLine, pipes, closing, reading, TypeOK, SlotsAccounted, Pcs, Holding,
        Registered
  <2> QED
    BY <1>16, <2>1, TakenFinite
    DEF ReadLine, pipes, closing, reading, TypeOK, SlotsAccounted, Pcs, Holding,
        Registered
<1>17. ASSUME NEW r \in Requests, TakeIn(r)
      PROVE SlotsAccounted' /\ permits' \in 0 .. Concurrency
  <2>1. Taken' = Taken
    <3>1. CASE r \in toWorker /\ UNCHANGED pc
      BY <3>1 DEF Taken
    <3>2. CASE holder = r /\ Goto(r, "get")
      BY <3>2, TakenSame DEF Goto, WriterInv, Pcs, Holding, Registered
    <3> QED
      BY <1>17, <3>1, <3>2 DEF TakeIn
  <2> QED
    BY <1>17, <2>1, TakenFinite
    DEF TakeIn, Goto, pipes, closing, reading, TypeOK, SlotsAccounted, Pcs, Holding,
        Registered
<1>18. ASSUME NEW r \in Requests, EmitChunk(r)
      PROVE SlotsAccounted' /\ permits' \in 0 .. Concurrency
  <2>1. Taken' = Taken
    BY <1>18
    DEF Taken, EmitChunk, pipes, closing, reading, TypeOK, SlotsAccounted, Pcs,
        Holding, Registered
  <2> QED
    BY <1>18, <2>1, TakenFinite
    DEF EmitChunk, pipes, closing, reading, TypeOK, SlotsAccounted, Pcs, Holding,
        Registered
<1>19. ASSUME NEW r \in Requests, NEW e \in Final, EmitFinal(r, e)
      PROVE SlotsAccounted' /\ permits' \in 0 .. Concurrency
  <2>1. Taken' = Taken
    BY <1>19
    DEF Taken, EmitFinal, pipes, closing, reading, TypeOK, SlotsAccounted, Pcs,
        Holding, Registered
  <2> QED
    BY <1>19, <2>1, TakenFinite
    DEF EmitFinal, pipes, closing, reading, TypeOK, SlotsAccounted, Pcs, Holding,
        Registered
<1>20. CASE BeginRestart
  <2>1. Taken' = Taken
    BY <1>20
    DEF Taken, BeginRestart, pipes, closing, reading, TypeOK, SlotsAccounted, Pcs,
        Holding, Registered
  <2> QED
    BY <1>20, <2>1, TakenFinite
    DEF BeginRestart, pipes, closing, reading, TypeOK, SlotsAccounted, Pcs, Holding,
        Registered
<1>21. CASE CloseFlag
  <2>1. Taken' = Taken
    BY <1>21
    DEF Taken, CloseFlag, pipes, closing, reading, TypeOK, SlotsAccounted, Pcs,
        Holding, Registered
  <2> QED
    BY <1>21, <2>1, TakenFinite
    DEF CloseFlag, pipes, closing, reading, TypeOK, SlotsAccounted, Pcs, Holding,
        Registered
<1>22. CASE CloseClear
  <2>1. Taken' = Taken
    BY <1>22
    DEF Taken, CloseClear, ToWake, pipes, closing, reading, TypeOK, SlotsAccounted,
        Pcs, Holding, Registered
  <2> QED
    BY <1>22, <2>1, TakenFinite
    DEF CloseClear, ToWake, pipes, closing, reading, TypeOK, SlotsAccounted, Pcs,
        Holding, Registered
<1>23. CASE Kill
  <2>1. Taken' = Taken
    BY <1>23
    DEF Taken, Kill, pipes, closing, reading, TypeOK, SlotsAccounted, Pcs, Holding,
        Registered
  <2> QED
    BY <1>23, <2>1, TakenFinite
    DEF Kill, pipes, closing, reading, TypeOK, SlotsAccounted, Pcs, Holding,
        Registered
<1>24. CASE Put
  <2>1. Taken' = Taken
    BY <1>24
    DEF Taken, Put, pipes, closing, reading, TypeOK, SlotsAccounted, Pcs, Holding,
        Registered
  <2> QED
    BY <1>24, <2>1, TakenFinite
    DEF Put, pipes, closing, reading, TypeOK, SlotsAccounted, Pcs, Holding, Registered
<1>25. CASE Eof
  <2>1. Taken' = Taken
    BY <1>25
    DEF Taken, Eof, pipes, closing, reading, TypeOK, SlotsAccounted, Pcs, Holding,
        Registered
  <2> QED
    BY <1>25, <2>1, TakenFinite
    DEF Eof, pipes, closing, reading, TypeOK, SlotsAccounted, Pcs, Holding, Registered
<1>26. CASE Die
  <2>1. Taken' = Taken
    BY <1>26
    DEF Taken, Die, pipes, closing, reading, TypeOK, SlotsAccounted, Pcs, Holding,
        Registered
  <2> QED
    BY <1>26, <2>1, TakenFinite
    DEF Die, pipes, closing, reading, TypeOK, SlotsAccounted, Pcs, Holding, Registered
<1>27. CASE UNCHANGED vars
  <2>1. Taken' = Taken
    BY <1>27
    DEF Taken, vars, pipes, closing, reading, TypeOK, SlotsAccounted, Pcs, Holding,
        Registered
  <2> QED
    BY <1>27, <2>1, TakenFinite
    DEF vars, pipes, closing, reading, TypeOK, SlotsAccounted, Pcs, Holding,
        Registered
<1> QED
  BY <1>1, <1>2, <1>3, <1>4, <1>5, <1>6, <1>7, <1>8, <1>9, <1>10, <1>11, <1>12, <1>13, <1>14,
     <1>15, <1>16, <1>17, <1>18, <1>19, <1>20, <1>21, <1>22, <1>23, <1>24, <1>25, <1>26, <1>27
  DEF Next, Serve, Leave, Work, Restart, Read

-----------------------------------------------------------------------------
(* Types *)

\* WorkerIO starts well typed.
LEMMA InitType == Init => TypeOK
<1> SUFFICES ASSUME Init PROVE TypeOK
  OBVIOUS
<1>1. permits \in 0 .. Concurrency /\ sent \in [Requests -> 0 .. MaxChunks]
  BY ConcurrencyAssumption, MaxChunksAssumption DEF Init
<1>2. queue \in [Requests -> Seq(Events)] /\ out \in [Requests -> Seq(Events)]
  BY DEF Init
<1>3. hand \in [r : Requests \cup {NoRequest}, e : Events]
  BY DEF Init, NoEvent, Events
<1> QED
  BY <1>1, <1>2, <1>3 DEF Init, TypeOK, Pcs

\* Every step keeps the types; the permits are counted by SlotStep.
LEMMA TypeStep ==
  ASSUME TypeOK, EndInv, permits' \in 0 .. Concurrency, [Next]_vars
  PROVE  TypeOK'
<1> USE MaxChunksAssumption, KindsAssumption DEF NoRequest, NoEvent
<1>1. ASSUME NEW r \in Requests, Acquire(r) PROVE TypeOK'
  BY <1>1
  DEF Acquire, Goto, pipes, closing, reading, TypeOK, Pcs, Holding, Registered, Events,
      Final, Exit
<1>2. ASSUME NEW r \in Requests, CancelWaiting(r) PROVE TypeOK'
  BY <1>2
  DEF CancelWaiting, Goto, pipes, closing, reading, TypeOK, Pcs, Holding, Registered,
      Events, Final, Exit
<1>3. ASSUME NEW r \in Requests, LateAcquire(r) PROVE TypeOK'
  BY <1>3
  DEF LateAcquire, Goto, pipes, closing, reading, TypeOK, Pcs, Holding, Registered,
      Events, Final, Exit
<1>4. ASSUME NEW r \in Requests, Check(r) PROVE TypeOK'
  BY <1>4
  DEF Check, Goto, pipes, closing, reading, TypeOK, Pcs, Holding, Registered, Events,
      Final, Exit
<1>5. ASSUME NEW r \in Requests, Register(r) PROVE TypeOK'
  BY <1>5
  DEF Register, Goto, pipes, closing, reading, TypeOK, Pcs, Holding, Registered,
      Events, Final, Exit
<1>6. ASSUME NEW r \in Requests, Write(r) PROVE TypeOK'
  BY <1>6
  DEF Write, ClosedUnderLock, Goto, pipes, closing, reading, TypeOK, Pcs, Holding,
      Registered, Events, Final, Exit
<1>7. ASSUME NEW r \in Requests, WriteBroken(r) PROVE TypeOK'
  BY <1>7
  DEF WriteBroken, Goto, pipes, closing, reading, TypeOK, Pcs, Holding, Registered,
      Events, Final, Exit
<1>8. ASSUME NEW r \in Requests, Get(r) PROVE TypeOK'
  BY <1>8
  DEF Get, Goto, pipes, closing, reading, TypeOK, Pcs, Holding, Registered, Events,
      Final, Exit
<1>9. ASSUME NEW r \in Requests, GiveUp(r) PROVE TypeOK'
  BY <1>9
  DEF GiveUp, Goto, pipes, closing, reading, TypeOK, Pcs, Holding, Registered, Events,
      Final, Exit
<1>10. ASSUME NEW r \in Requests, Resume(r) PROVE TypeOK'
  BY <1>10
  DEF Resume, Goto, pipes, closing, reading, TypeOK, Pcs, Holding, Registered, Events,
      Final, Exit
<1>11. ASSUME NEW r \in Requests, Break(r) PROVE TypeOK'
  BY <1>11
  DEF Break, Goto, pipes, closing, reading, TypeOK, Pcs, Holding, Registered, Events,
      Final, Exit
<1>12. ASSUME NEW r \in Requests, Return(r) PROVE TypeOK'
  BY <1>12
  DEF Return, Pop, Goto, pipes, closing, reading, TypeOK, Pcs, Holding, Registered,
      Events, Final, Exit
<1>13. ASSUME NEW r \in Requests, Finally(r) PROVE TypeOK'
  BY <1>13
  DEF Finally, Pop, Goto, pipes, closing, reading, TypeOK, Pcs, Holding, Registered,
      Events, Final, Exit
<1>14. ASSUME NEW r \in Requests, Cancel(r) PROVE TypeOK'
  BY <1>14
  DEF Cancel, Goto, pipes, closing, reading, TypeOK, Pcs, Holding, Registered, Events,
      Final, Exit
<1>15. ASSUME NEW r \in Requests, ClosePut(r) PROVE TypeOK'
  BY <1>15
  DEF ClosePut, pipes, closing, reading, TypeOK, Pcs, Holding, Registered, Events,
      Final, Exit
<1>16. ASSUME NEW r \in Requests, ReadLine(r) PROVE TypeOK'
  BY <1>16
  DEF ReadLine, pipes, closing, reading, TypeOK, Pcs, Holding, Registered, Events,
      Final, Exit
<1>17. ASSUME NEW r \in Requests, TakeIn(r) PROVE TypeOK'
  BY <1>17
  DEF TakeIn, Goto, pipes, closing, reading, TypeOK, Pcs, Holding, Registered, Events,
      Final, Exit
<1>18. ASSUME NEW r \in Requests, EmitChunk(r) PROVE TypeOK'
  <2>1. sent' \in [Requests -> 0 .. MaxChunks]
    BY <1>18 DEF EmitChunk, TypeOK
  <2>2. out' \in [Requests -> Seq(Events)]
    BY <1>18 DEF EmitChunk, TypeOK, Events
  <2> QED
    BY <1>18, <2>1, <2>2
    DEF EmitChunk, pipes, closing, reading, TypeOK, Pcs, Holding, Registered, Events,
        Final, Exit
<1>19. ASSUME NEW r \in Requests, NEW e \in Final, EmitFinal(r, e) PROVE TypeOK'
  BY <1>19
  DEF EmitFinal, pipes, closing, reading, TypeOK, Pcs, Holding, Registered, Events,
      Final, Exit
<1>20. CASE BeginRestart
  BY <1>20
  DEF BeginRestart, pipes, closing, reading, TypeOK, Pcs, Holding, Registered, Events,
      Final, Exit
<1>21. CASE CloseFlag
  BY <1>21
  DEF CloseFlag, pipes, closing, reading, TypeOK, Pcs, Holding, Registered, Events,
      Final, Exit
<1>22. CASE CloseClear
  BY <1>22
  DEF CloseClear, ToWake, pipes, closing, reading, TypeOK, Pcs, Holding, Registered,
      Events, Final, Exit
<1>23. CASE Kill
  BY <1>23
  DEF Kill, pipes, closing, reading, TypeOK, Pcs, Holding, Registered, Events, Final,
      Exit
<1>24. CASE Put
  <2>1. hand.r \in Requests
    BY <1>24 DEF Put, EndInv, NoEvent
  <2>2. queue' \in [Requests -> Seq(Events)]
    BY <1>24, <2>1 DEF Put, TypeOK
  <2> QED
    BY <1>24, <2>2
    DEF Put, pipes, closing, reading, TypeOK, Pcs, Holding, Registered, Events, Final,
        Exit
<1>25. CASE Eof
  BY <1>25
  DEF Eof, pipes, closing, reading, TypeOK, Pcs, Holding, Registered, Events, Final,
      Exit
<1>26. CASE Die
  BY <1>26
  DEF Die, pipes, closing, reading, TypeOK, Pcs, Holding, Registered, Events, Final,
      Exit
<1>27. CASE UNCHANGED vars
  BY <1>27
  DEF vars, pipes, closing, reading, TypeOK, Pcs, Holding, Registered, Events, Final,
      Exit
<1> QED
  BY <1>1, <1>2, <1>3, <1>4, <1>5, <1>6, <1>7, <1>8, <1>9, <1>10, <1>11, <1>12, <1>13, <1>14,
     <1>15, <1>16, <1>17, <1>18, <1>19, <1>20, <1>21, <1>22, <1>23, <1>24, <1>25, <1>26, <1>27
  DEF Next, Serve, Leave, Work, Restart, Read

-----------------------------------------------------------------------------
(* Locks, and how far close() and the reader are *)

\* Every step keeps the write lock with the one request that is writing.
LEMMA WriterStep ==
  ASSUME TypeOK, WriterInv, [Next]_vars
  PROVE  WriterInv'
<1> USE NoRequestAssumption DEF NoRequest
<1>1. ASSUME NEW r \in Requests, Acquire(r) PROVE WriterInv'
  BY <1>1 DEF Acquire, Goto, pipes, closing, reading, TypeOK, WriterInv
<1>2. ASSUME NEW r \in Requests, CancelWaiting(r) PROVE WriterInv'
  BY <1>2 DEF CancelWaiting, Goto, pipes, closing, reading, TypeOK, WriterInv
<1>3. ASSUME NEW r \in Requests, LateAcquire(r) PROVE WriterInv'
  BY <1>3 DEF LateAcquire, Goto, pipes, closing, reading, TypeOK, WriterInv
<1>4. ASSUME NEW r \in Requests, Check(r) PROVE WriterInv'
  BY <1>4 DEF Check, Goto, pipes, closing, reading, TypeOK, WriterInv
<1>5. ASSUME NEW r \in Requests, Register(r) PROVE WriterInv'
  BY <1>5 DEF Register, Goto, pipes, closing, reading, TypeOK, WriterInv
<1>6. ASSUME NEW r \in Requests, Write(r) PROVE WriterInv'
  <2>1. CASE holder' = r
    BY <1>6, <2>1
    DEF Write, ClosedUnderLock, Goto, pipes, closing, reading, TypeOK, WriterInv
  <2>2. CASE holder' = holder
    BY <1>6, <2>2
    DEF Write, ClosedUnderLock, Goto, pipes, closing, reading, TypeOK, WriterInv
  <2> QED
    BY <1>6, <2>1, <2>2 DEF Write
<1>7. ASSUME NEW r \in Requests, WriteBroken(r) PROVE WriterInv'
  BY <1>7 DEF WriteBroken, Goto, pipes, closing, reading, TypeOK, WriterInv
<1>8. ASSUME NEW r \in Requests, Get(r) PROVE WriterInv'
  BY <1>8 DEF Get, Goto, pipes, closing, reading, TypeOK, WriterInv
<1>9. ASSUME NEW r \in Requests, GiveUp(r) PROVE WriterInv'
  BY <1>9 DEF GiveUp, Goto, pipes, closing, reading, TypeOK, WriterInv
<1>10. ASSUME NEW r \in Requests, Resume(r) PROVE WriterInv'
  BY <1>10 DEF Resume, Goto, pipes, closing, reading, TypeOK, WriterInv
<1>11. ASSUME NEW r \in Requests, Break(r) PROVE WriterInv'
  BY <1>11 DEF Break, Goto, pipes, closing, reading, TypeOK, WriterInv
<1>12. ASSUME NEW r \in Requests, Return(r) PROVE WriterInv'
  BY <1>12 DEF Return, Pop, Goto, pipes, closing, reading, TypeOK, WriterInv
<1>13. ASSUME NEW r \in Requests, Finally(r) PROVE WriterInv'
  BY <1>13 DEF Finally, Pop, Goto, pipes, closing, reading, TypeOK, WriterInv
<1>14. ASSUME NEW r \in Requests, Cancel(r) PROVE WriterInv'
  BY <1>14 DEF Cancel, Goto, pipes, closing, reading, TypeOK, WriterInv
<1>15. ASSUME NEW r \in Requests, ClosePut(r) PROVE WriterInv'
  BY <1>15 DEF ClosePut, pipes, closing, reading, TypeOK, WriterInv
<1>16. ASSUME NEW r \in Requests, ReadLine(r) PROVE WriterInv'
  BY <1>16 DEF ReadLine, pipes, closing, reading, TypeOK, WriterInv
<1>17. ASSUME NEW r \in Requests, TakeIn(r) PROVE WriterInv'
  BY <1>17 DEF TakeIn, Goto, pipes, closing, reading, TypeOK, WriterInv
<1>18. ASSUME NEW r \in Requests, EmitChunk(r) PROVE WriterInv'
  BY <1>18 DEF EmitChunk, pipes, closing, reading, TypeOK, WriterInv
<1>19. ASSUME NEW r \in Requests, NEW e \in Final, EmitFinal(r, e) PROVE WriterInv'
  BY <1>19 DEF EmitFinal, pipes, closing, reading, TypeOK, WriterInv
<1>20. CASE BeginRestart
  BY <1>20 DEF BeginRestart, pipes, closing, reading, TypeOK, WriterInv
<1>21. CASE CloseFlag
  BY <1>21 DEF CloseFlag, pipes, closing, reading, TypeOK, WriterInv
<1>22. CASE CloseClear
  BY <1>22 DEF CloseClear, ToWake, pipes, closing, reading, TypeOK, WriterInv
<1>23. CASE Kill
  BY <1>23 DEF Kill, pipes, closing, reading, TypeOK, WriterInv
<1>24. CASE Put
  BY <1>24 DEF Put, pipes, closing, reading, TypeOK, WriterInv
<1>25. CASE Eof
  BY <1>25 DEF Eof, pipes, closing, reading, TypeOK, WriterInv
<1>26. CASE Die
  BY <1>26 DEF Die, pipes, closing, reading, TypeOK, WriterInv
<1>27. CASE UNCHANGED vars
  BY <1>27 DEF vars, pipes, closing, reading, TypeOK, WriterInv
<1> QED
  BY <1>1, <1>2, <1>3, <1>4, <1>5, <1>6, <1>7, <1>8, <1>9, <1>10, <1>11, <1>12, <1>13, <1>14,
     <1>15, <1>16, <1>17, <1>18, <1>19, <1>20, <1>21, <1>22, <1>23, <1>24, <1>25, <1>26, <1>27
  DEF Next, Serve, Leave, Work, Restart, Read

\* Every step keeps the order of close() and of the end of the reader.
LEMMA EndStep ==
  ASSUME TypeOK, EndInv, [Next]_vars
  PROVE  EndInv'
<1> USE NoRequestAssumption DEF NoRequest, NoEvent
<1>1. ASSUME NEW r \in Requests, Acquire(r) PROVE EndInv'
  BY <1>1 DEF Acquire, Goto, pipes, closing, reading, TypeOK, EndInv
<1>2. ASSUME NEW r \in Requests, CancelWaiting(r) PROVE EndInv'
  BY <1>2 DEF CancelWaiting, Goto, pipes, closing, reading, TypeOK, EndInv
<1>3. ASSUME NEW r \in Requests, LateAcquire(r) PROVE EndInv'
  BY <1>3 DEF LateAcquire, Goto, pipes, closing, reading, TypeOK, EndInv
<1>4. ASSUME NEW r \in Requests, Check(r) PROVE EndInv'
  BY <1>4 DEF Check, Goto, pipes, closing, reading, TypeOK, EndInv
<1>5. ASSUME NEW r \in Requests, Register(r) PROVE EndInv'
  BY <1>5 DEF Register, Goto, pipes, closing, reading, TypeOK, EndInv
<1>6. ASSUME NEW r \in Requests, Write(r) PROVE EndInv'
  BY <1>6 DEF Write, ClosedUnderLock, Goto, pipes, closing, reading, TypeOK, EndInv
<1>7. ASSUME NEW r \in Requests, WriteBroken(r) PROVE EndInv'
  BY <1>7 DEF WriteBroken, Goto, pipes, closing, reading, TypeOK, EndInv
<1>8. ASSUME NEW r \in Requests, Get(r) PROVE EndInv'
  BY <1>8 DEF Get, Goto, pipes, closing, reading, TypeOK, EndInv
<1>9. ASSUME NEW r \in Requests, GiveUp(r) PROVE EndInv'
  BY <1>9 DEF GiveUp, Goto, pipes, closing, reading, TypeOK, EndInv
<1>10. ASSUME NEW r \in Requests, Resume(r) PROVE EndInv'
  BY <1>10 DEF Resume, Goto, pipes, closing, reading, TypeOK, EndInv
<1>11. ASSUME NEW r \in Requests, Break(r) PROVE EndInv'
  BY <1>11 DEF Break, Goto, pipes, closing, reading, TypeOK, EndInv
<1>12. ASSUME NEW r \in Requests, Return(r) PROVE EndInv'
  BY <1>12 DEF Return, Pop, Goto, pipes, closing, reading, TypeOK, EndInv
<1>13. ASSUME NEW r \in Requests, Finally(r) PROVE EndInv'
  BY <1>13 DEF Finally, Pop, Goto, pipes, closing, reading, TypeOK, EndInv
<1>14. ASSUME NEW r \in Requests, Cancel(r) PROVE EndInv'
  BY <1>14 DEF Cancel, Goto, pipes, closing, reading, TypeOK, EndInv
<1>15. ASSUME NEW r \in Requests, ClosePut(r) PROVE EndInv'
  BY <1>15 DEF ClosePut, pipes, closing, reading, TypeOK, EndInv
<1>16. ASSUME NEW r \in Requests, ReadLine(r) PROVE EndInv'
  BY <1>16 DEF ReadLine, pipes, closing, reading, TypeOK, EndInv
<1>17. ASSUME NEW r \in Requests, TakeIn(r) PROVE EndInv'
  BY <1>17 DEF TakeIn, Goto, pipes, closing, reading, TypeOK, EndInv
<1>18. ASSUME NEW r \in Requests, EmitChunk(r) PROVE EndInv'
  BY <1>18 DEF EmitChunk, pipes, closing, reading, TypeOK, EndInv
<1>19. ASSUME NEW r \in Requests, NEW e \in Final, EmitFinal(r, e) PROVE EndInv'
  BY <1>19 DEF EmitFinal, pipes, closing, reading, TypeOK, EndInv
<1>20. CASE BeginRestart
  BY <1>20 DEF BeginRestart, pipes, closing, reading, TypeOK, EndInv
<1>21. CASE CloseFlag
  BY <1>21 DEF CloseFlag, pipes, closing, reading, TypeOK, EndInv
<1>22. CASE CloseClear
  BY <1>22 DEF CloseClear, ToWake, pipes, closing, reading, TypeOK, EndInv
<1>23. CASE Kill
  BY <1>23 DEF Kill, pipes, closing, reading, TypeOK, EndInv
<1>24. CASE Put
  BY <1>24 DEF Put, pipes, closing, reading, TypeOK, EndInv
<1>25. CASE Eof
  BY <1>25 DEF Eof, pipes, closing, reading, TypeOK, EndInv
<1>26. CASE Die
  BY <1>26 DEF Die, pipes, closing, reading, TypeOK, EndInv
<1>27. CASE UNCHANGED vars
  BY <1>27 DEF vars, pipes, closing, reading, TypeOK, EndInv
<1> QED
  BY <1>1, <1>2, <1>3, <1>4, <1>5, <1>6, <1>7, <1>8, <1>9, <1>10, <1>11, <1>12, <1>13, <1>14,
     <1>15, <1>16, <1>17, <1>18, <1>19, <1>20, <1>21, <1>22, <1>23, <1>24, <1>25, <1>26, <1>27
  DEF Next, Serve, Leave, Work, Restart, Read

\* Every step keeps a request that is about to write registered, or its write failing.
LEMMA WriteStep ==
  ASSUME TypeOK, WriteInv, [Next]_vars
  PROVE  WriteInv'
<1>1. ASSUME NEW r \in Requests, Acquire(r) PROVE WriteInv'
  BY <1>1 DEF Acquire, Goto, pipes, closing, reading, TypeOK, WriteInv
<1>2. ASSUME NEW r \in Requests, CancelWaiting(r) PROVE WriteInv'
  BY <1>2 DEF CancelWaiting, Goto, pipes, closing, reading, TypeOK, WriteInv
<1>3. ASSUME NEW r \in Requests, LateAcquire(r) PROVE WriteInv'
  BY <1>3 DEF LateAcquire, Goto, pipes, closing, reading, TypeOK, WriteInv
<1>4. ASSUME NEW r \in Requests, Check(r) PROVE WriteInv'
  BY <1>4 DEF Check, Goto, pipes, closing, reading, TypeOK, WriteInv
<1>5. ASSUME NEW r \in Requests, Register(r) PROVE WriteInv'
  BY <1>5 DEF Register, Goto, pipes, closing, reading, TypeOK, WriteInv
<1>6. ASSUME NEW r \in Requests, Write(r) PROVE WriteInv'
  BY <1>6 DEF Write, ClosedUnderLock, Goto, pipes, closing, reading, TypeOK, WriteInv
<1>7. ASSUME NEW r \in Requests, WriteBroken(r) PROVE WriteInv'
  BY <1>7 DEF WriteBroken, Goto, pipes, closing, reading, TypeOK, WriteInv
<1>8. ASSUME NEW r \in Requests, Get(r) PROVE WriteInv'
  BY <1>8 DEF Get, Goto, pipes, closing, reading, TypeOK, WriteInv
<1>9. ASSUME NEW r \in Requests, GiveUp(r) PROVE WriteInv'
  BY <1>9 DEF GiveUp, Goto, pipes, closing, reading, TypeOK, WriteInv
<1>10. ASSUME NEW r \in Requests, Resume(r) PROVE WriteInv'
  BY <1>10 DEF Resume, Goto, pipes, closing, reading, TypeOK, WriteInv
<1>11. ASSUME NEW r \in Requests, Break(r) PROVE WriteInv'
  BY <1>11 DEF Break, Goto, pipes, closing, reading, TypeOK, WriteInv
<1>12. ASSUME NEW r \in Requests, Return(r) PROVE WriteInv'
  BY <1>12 DEF Return, Pop, Goto, pipes, closing, reading, TypeOK, WriteInv
<1>13. ASSUME NEW r \in Requests, Finally(r) PROVE WriteInv'
  BY <1>13 DEF Finally, Pop, Goto, pipes, closing, reading, TypeOK, WriteInv
<1>14. ASSUME NEW r \in Requests, Cancel(r) PROVE WriteInv'
  BY <1>14 DEF Cancel, Goto, pipes, closing, reading, TypeOK, WriteInv
<1>15. ASSUME NEW r \in Requests, ClosePut(r) PROVE WriteInv'
  BY <1>15 DEF ClosePut, pipes, closing, reading, TypeOK, WriteInv
<1>16. ASSUME NEW r \in Requests, ReadLine(r) PROVE WriteInv'
  BY <1>16 DEF ReadLine, pipes, closing, reading, TypeOK, WriteInv
<1>17. ASSUME NEW r \in Requests, TakeIn(r) PROVE WriteInv'
  BY <1>17 DEF TakeIn, Goto, pipes, closing, reading, TypeOK, WriteInv
<1>18. ASSUME NEW r \in Requests, EmitChunk(r) PROVE WriteInv'
  BY <1>18 DEF EmitChunk, pipes, closing, reading, TypeOK, WriteInv
<1>19. ASSUME NEW r \in Requests, NEW e \in Final, EmitFinal(r, e) PROVE WriteInv'
  BY <1>19 DEF EmitFinal, pipes, closing, reading, TypeOK, WriteInv
<1>20. CASE BeginRestart
  BY <1>20 DEF BeginRestart, pipes, closing, reading, TypeOK, WriteInv
<1>21. CASE CloseFlag
  BY <1>21 DEF CloseFlag, pipes, closing, reading, TypeOK, WriteInv
<1>22. CASE CloseClear
  BY <1>22 DEF CloseClear, ToWake, pipes, closing, reading, TypeOK, WriteInv
<1>23. CASE Kill
  BY <1>23 DEF Kill, pipes, closing, reading, TypeOK, WriteInv
<1>24. CASE Put
  BY <1>24 DEF Put, pipes, closing, reading, TypeOK, WriteInv
<1>25. CASE Eof
  BY <1>25 DEF Eof, pipes, closing, reading, TypeOK, WriteInv
<1>26. CASE Die
  BY <1>26 DEF Die, pipes, closing, reading, TypeOK, WriteInv
<1>27. CASE UNCHANGED vars
  BY <1>27 DEF vars, pipes, closing, reading, TypeOK, WriteInv
<1> QED
  BY <1>1, <1>2, <1>3, <1>4, <1>5, <1>6, <1>7, <1>8, <1>9, <1>10, <1>11, <1>12, <1>13, <1>14,
     <1>15, <1>16, <1>17, <1>18, <1>19, <1>20, <1>21, <1>22, <1>23, <1>24, <1>25, <1>26, <1>27
  DEF Next, Serve, Leave, Work, Restart, Read

-----------------------------------------------------------------------------
(* News *)

\* An event that ends a request stays in a queue when others are appended, and
\* when a chunk is taken from the front.
LEMMA AppendFinal ==
  ASSUME NEW q \in Seq(Events), NEW e \in Events
  PROVE  /\ HasFinal(q) => HasFinal(Append(q, e))
         /\ e # "chunk" => HasFinal(Append(q, e))
<1>1. Len(Append(q, e)) = Len(q) + 1 /\ Append(q, e)[Len(q) + 1] = e
  OBVIOUS
<1>2. \A i \in 1 .. Len(q) : Append(q, e)[i] = q[i]
  OBVIOUS
<1>3. HasFinal(q) => HasFinal(Append(q, e))
  BY <1>1, <1>2 DEF HasFinal
<1>4. e # "chunk" => HasFinal(Append(q, e))
  BY <1>1 DEF HasFinal
<1> QED
  BY <1>3, <1>4

\* Taking a chunk from a queue leaves its final event there.
LEMMA TailFinal ==
  ASSUME NEW q \in Seq(Events), q # <<>>, HasFinal(q), Head(q) = "chunk"
  PROVE  HasFinal(Tail(q))
<1>1. PICK i \in 1 .. Len(q) : q[i] # "chunk"
  BY DEF HasFinal
<1>2. i # 1
  BY <1>1
<1>3. i - 1 \in 1 .. Len(Tail(q)) /\ Tail(q)[i - 1] = q[i]
  BY <1>2
<1> QED
  BY <1>1, <1>3 DEF HasFinal

\* The news of one request.
News(r) ==
  \/ HasFinal(queue[r])
  \/ r \in owed
  \/ hand.r = r /\ hand.e # "chunk"
  \/ /\ r \in inflight
     /\ reader = "read"
     /\ ~alive \/ r \in toWorker \/ r \in working \/ HasFinal(out[r])

\* Every step leaves a waiting request with an event, an answer due or a dead worker.
LEMMA NewsStep ==
  ASSUME TypeOK, WriterInv, EndInv, WriteInv, WaiterHasNews, [Next]_vars
  PROVE  WaiterHasNews'
<1> SUFFICES ASSUME NEW q \in Requests, pc'[q] \in {"get", "yield"}
             PROVE  News(q)'
  BY DEF WaiterHasNews, News
<1> USE NoRequestAssumption DEF NoRequest, NoEvent
<1>0. pc[q] \in {"get", "yield"} => News(q)
  BY DEF WaiterHasNews, News
<1>1. ASSUME NEW r \in Requests, Acquire(r) PROVE News(q)'
  BY <1>1, <1>0 DEF Acquire, Goto, pipes, closing, reading, TypeOK, News
<1>2. ASSUME NEW r \in Requests, CancelWaiting(r) PROVE News(q)'
  BY <1>2, <1>0 DEF CancelWaiting, Goto, pipes, closing, reading, TypeOK, News
<1>3. ASSUME NEW r \in Requests, LateAcquire(r) PROVE News(q)'
  BY <1>3, <1>0 DEF LateAcquire, Goto, pipes, closing, reading, TypeOK, News
<1>4. ASSUME NEW r \in Requests, Check(r) PROVE News(q)'
  BY <1>4, <1>0 DEF Check, Goto, pipes, closing, reading, TypeOK, News
<1>5. ASSUME NEW r \in Requests, Register(r) PROVE News(q)'
  BY <1>5, <1>0 DEF Register, Goto, pipes, closing, reading, TypeOK, News
<1>6. ASSUME NEW r \in Requests, Write(r) PROVE News(q)'
  <2>1. CASE q = r
    BY <1>6, <1>0, <2>1
    DEF Write, ClosedUnderLock, Goto, TypeOK, News, EndInv, WriteInv,
      closing, reading
  <2>2. CASE q # r
    BY <1>6, <1>0, <2>2 DEF Write, Goto, TypeOK, News, closing, reading
  <2> QED
    BY <2>1, <2>2
<1>7. ASSUME NEW r \in Requests, WriteBroken(r) PROVE News(q)'
  BY <1>7, <1>0 DEF WriteBroken, Goto, pipes, closing, reading, TypeOK, News
<1>8. ASSUME NEW r \in Requests, Get(r) PROVE News(q)'
  <2>1. pc[q] \in {"get", "yield"}
    BY <1>8 DEF Get, Goto, TypeOK
  <2>2. HasFinal(queue[q]) => HasFinal(queue'[q])
    <3>1. CASE q = r
      <4>1. Head(queue[r]) = "chunk"
        BY <1>8, <3>1 DEF Get, Goto, TypeOK, Events, Final
      <4> QED
        BY <1>8, <3>1, <4>1, TailFinal DEF Get, TypeOK
    <3>2. CASE q # r
      BY <1>8, <3>2 DEF Get, TypeOK
    <3> QED
      BY <3>1, <3>2
  <2> QED
    BY <1>8, <1>0, <2>1, <2>2 DEF Get, News, pipes, closing, reading
<1>9. ASSUME NEW r \in Requests, GiveUp(r) PROVE News(q)'
  BY <1>9, <1>0 DEF GiveUp, Goto, pipes, closing, reading, TypeOK, News
<1>10. ASSUME NEW r \in Requests, Resume(r) PROVE News(q)'
  BY <1>10, <1>0 DEF Resume, Goto, pipes, closing, reading, TypeOK, News
<1>11. ASSUME NEW r \in Requests, Break(r) PROVE News(q)'
  BY <1>11, <1>0 DEF Break, Goto, pipes, closing, reading, TypeOK, News
<1>12. ASSUME NEW r \in Requests, Return(r) PROVE News(q)'
  BY <1>12, <1>0 DEF Return, Pop, Goto, pipes, closing, reading, TypeOK, News
<1>13. ASSUME NEW r \in Requests, Finally(r) PROVE News(q)'
  BY <1>13, <1>0 DEF Finally, Pop, Goto, pipes, closing, reading, TypeOK, News
<1>14. ASSUME NEW r \in Requests, Cancel(r) PROVE News(q)'
  BY <1>14, <1>0 DEF Cancel, Goto, pipes, closing, reading, TypeOK, News
<1>15. ASSUME NEW r \in Requests, ClosePut(r) PROVE News(q)'
  <2>1. HasFinal(queue[q]) => HasFinal(queue'[q])
    BY <1>15, AppendFinal DEF ClosePut, TypeOK, Events
  <2>2. q = r => HasFinal(queue'[q])
    BY <1>15, AppendFinal DEF ClosePut, TypeOK, Events, Exit
  <2> QED
    BY <1>15, <1>0, <2>1, <2>2 DEF ClosePut, News, pipes, reading
<1>16. ASSUME NEW r \in Requests, ReadLine(r) PROVE News(q)'
  <2>1. HasFinal(out[q]) => \/ HasFinal(out'[q])
                            \/ q = r /\ Head(out[r]) # "chunk"
    BY <1>16, TailFinal DEF ReadLine, TypeOK
  <2> QED
    BY <1>16, <1>0, <2>1 DEF ReadLine, News, closing
<1>17. ASSUME NEW r \in Requests, TakeIn(r) PROVE News(q)'
  <2>1. CASE pc[q] \in {"get", "yield"}
    BY <1>17, <1>0, <2>1 DEF TakeIn, News, closing, reading
  <2>2. CASE pc[q] \notin {"get", "yield"}
    BY <1>17, <2>2
    DEF TakeIn, Goto, TypeOK, News, WriterInv, EndInv, WriteInv, closing, reading
  <2> QED
    BY <2>1, <2>2
<1>18. ASSUME NEW r \in Requests, EmitChunk(r) PROVE News(q)'
  <2>1. HasFinal(out[q]) => HasFinal(out'[q])
    BY <1>18, AppendFinal DEF EmitChunk, TypeOK, Events
  <2> QED
    BY <1>18, <1>0, <2>1 DEF EmitChunk, News, closing, reading
<1>19. ASSUME NEW r \in Requests, NEW e \in Final, EmitFinal(r, e) PROVE News(q)'
  <2>1. HasFinal(out[q]) => HasFinal(out'[q])
    BY <1>19, AppendFinal DEF EmitFinal, TypeOK, Events
  <2>2. q = r => HasFinal(out'[q])
    BY <1>19, AppendFinal DEF EmitFinal, TypeOK, Events, Final
  <2> QED
    BY <1>19, <1>0, <2>1, <2>2 DEF EmitFinal, News, closing, reading
<1>20. CASE BeginRestart
  BY <1>20, <1>0 DEF BeginRestart, pipes, closing, reading, TypeOK, News
<1>21. CASE CloseFlag
  BY <1>21, <1>0 DEF CloseFlag, pipes, closing, reading, TypeOK, News
<1>22. CASE CloseClear
  <2>1. owed = {}
    BY <1>22 DEF CloseClear, EndInv
  <2> QED
    BY <1>22, <1>0, <2>1 DEF CloseClear, ToWake, News, pipes, reading
<1>23. CASE Kill
  BY <1>23, <1>0 DEF Kill, pipes, closing, reading, TypeOK, News
<1>24. CASE Put
  <2>1. hand.r \in Requests /\ hand.e \in Events
    BY <1>24 DEF Put, EndInv, TypeOK
  <2>2. HasFinal(queue[q]) => HasFinal(queue'[q])
    BY <1>24, <2>1, AppendFinal DEF Put, TypeOK
  <2>3. (hand.r = q /\ hand.e # "chunk") => HasFinal(queue'[q])
    BY <1>24, <2>1, AppendFinal DEF Put, TypeOK
  <2> QED
    BY <1>24, <1>0, <2>2, <2>3 DEF Put, News, pipes, closing
<1>25. CASE Eof
  <2>1. HasFinal(queue[q]) => HasFinal(queue'[q])
    BY <1>25, AppendFinal DEF Eof, TypeOK, Events
  <2>2. q \in inflight => HasFinal(queue'[q])
    BY <1>25, AppendFinal DEF Eof, TypeOK, Events, Exit
  <2> QED
    BY <1>25, <1>0, <2>1, <2>2 DEF Eof, News, pipes, closing
<1>26. CASE Die
  BY <1>26, <1>0 DEF Die, pipes, closing, reading, TypeOK, News
<1>27. CASE UNCHANGED vars
  BY <1>27, <1>0 DEF vars, pipes, closing, reading, TypeOK, News
<1> QED
  BY <1>1, <1>2, <1>3, <1>4, <1>5, <1>6, <1>7, <1>8, <1>9, <1>10, <1>11, <1>12, <1>13, <1>14,
     <1>15, <1>16, <1>17, <1>18, <1>19, <1>20, <1>21, <1>22, <1>23, <1>24, <1>25, <1>26, <1>27
  DEF Next, Serve, Leave, Work, Restart, Read

-----------------------------------------------------------------------------
(* The invariant *)

\* WorkerIO starts in the invariant.
LEMMA InitInv == Init => WInv
<1> SUFFICES ASSUME Init PROVE WInv
  OBVIOUS
<1>1. Taken = {}
  BY DEF Init, Taken, Holding, Registered
<1>2. SlotsAccounted
  BY <1>1, FS_EmptySet, ConcurrencyAssumption DEF Init, SlotsAccounted
<1>3. WriterInv /\ EndInv /\ WriteInv /\ WaiterHasNews
  BY NoRequestAssumption
     DEF Init, WriterInv, EndInv, WriteInv, WaiterHasNews, NoRequest, NoEvent
<1> QED
  BY <1>2, <1>3, InitType DEF WInv

\* Every step keeps the invariant.
LEMMA StepInv == WInv /\ [Next]_vars => WInv'
BY SlotStep, TypeStep, WriterStep, EndStep, WriteStep, NewsStep DEF WInv

\* WInv is an invariant of WorkerIO, whatever the worker, the consumers and the
\* owner do.
THEOREM WorkerInvariance == Spec => []WInv
BY InitInv, StepInv, PTL DEF Spec

\* The multiplexer's fields, pipes and program counters are well typed; the
\* semaphore never exceeds the configured concurrency.
THEOREM WorkerTypeCorrect == Spec => []TypeOK
<1>1. WInv => TypeOK
  BY DEF WInv
<1> QED
  BY <1>1, WorkerInvariance, PTL

\* Every way out of request() and send_request() gives the slot back exactly
\* once, except that of a thread that gets it late.
THEOREM SlotsCorrect == Spec => []SlotsAccounted
<1>1. WInv => SlotsAccounted
  BY DEF WInv
<1> QED
  BY <1>1, WorkerInvariance, PTL

\* A waiting request always has an event coming: the insert-before-write order,
\* close() and the reader's finally leave no gap between them.
THEOREM NewsCorrect == Spec => []WaiterHasNews
<1>1. WInv => WaiterHasNews
  BY DEF WInv
<1> QED
  BY <1>1, WorkerInvariance, PTL

\* Nothing is written to the worker after close(): the check under _stdin_lock
\* and the lock close() takes order every write before it.
THEOREM WriteCorrect == Spec => NoWriteAfterClose
<1> DEFINE Quiet == closed => /\ toWorker' \subseteq toWorker
                              /\ cancels' \subseteq cancels
                              /\ holder' = NoRequest
<1>1. ASSUME WriterInv, [Next]_vars PROVE Quiet
  <2>1. ASSUME NEW r \in Requests, Acquire(r) PROVE Quiet
    BY <2>1, <1>1 DEF Acquire, Goto, pipes, closing, reading, WriterInv
  <2>2. ASSUME NEW r \in Requests, CancelWaiting(r) PROVE Quiet
    BY <2>2, <1>1 DEF CancelWaiting, Goto, pipes, closing, reading, WriterInv
  <2>3. ASSUME NEW r \in Requests, LateAcquire(r) PROVE Quiet
    BY <2>3, <1>1 DEF LateAcquire, Goto, pipes, closing, reading, WriterInv
  <2>4. ASSUME NEW r \in Requests, Check(r) PROVE Quiet
    BY <2>4, <1>1 DEF Check, Goto, pipes, closing, reading, WriterInv
  <2>5. ASSUME NEW r \in Requests, Register(r) PROVE Quiet
    BY <2>5, <1>1 DEF Register, Goto, pipes, closing, reading, WriterInv
  <2>6. ASSUME NEW r \in Requests, Write(r) PROVE Quiet
    BY <2>6, <1>1 DEF Write, ClosedUnderLock, Goto, pipes, closing, reading, WriterInv
  <2>7. ASSUME NEW r \in Requests, WriteBroken(r) PROVE Quiet
    BY <2>7, <1>1 DEF WriteBroken, Goto, pipes, closing, reading, WriterInv
  <2>8. ASSUME NEW r \in Requests, Get(r) PROVE Quiet
    BY <2>8, <1>1 DEF Get, Goto, pipes, closing, reading, WriterInv
  <2>9. ASSUME NEW r \in Requests, GiveUp(r) PROVE Quiet
    BY <2>9, <1>1 DEF GiveUp, Goto, pipes, closing, reading, WriterInv
  <2>10. ASSUME NEW r \in Requests, Resume(r) PROVE Quiet
    BY <2>10, <1>1 DEF Resume, Goto, pipes, closing, reading, WriterInv
  <2>11. ASSUME NEW r \in Requests, Break(r) PROVE Quiet
    BY <2>11, <1>1 DEF Break, Goto, pipes, closing, reading, WriterInv
  <2>12. ASSUME NEW r \in Requests, Return(r) PROVE Quiet
    BY <2>12, <1>1 DEF Return, Pop, Goto, pipes, closing, reading, WriterInv
  <2>13. ASSUME NEW r \in Requests, Finally(r) PROVE Quiet
    BY <2>13, <1>1 DEF Finally, Pop, Goto, pipes, closing, reading, WriterInv
  <2>14. ASSUME NEW r \in Requests, Cancel(r) PROVE Quiet
    BY <2>14, <1>1 DEF Cancel, Goto, pipes, closing, reading, WriterInv
  <2>15. ASSUME NEW r \in Requests, ClosePut(r) PROVE Quiet
    BY <2>15, <1>1 DEF ClosePut, pipes, closing, reading, WriterInv
  <2>16. ASSUME NEW r \in Requests, ReadLine(r) PROVE Quiet
    BY <2>16, <1>1 DEF ReadLine, pipes, closing, reading, WriterInv
  <2>17. ASSUME NEW r \in Requests, TakeIn(r) PROVE Quiet
    BY <2>17, <1>1 DEF TakeIn, Goto, pipes, closing, reading, WriterInv
  <2>18. ASSUME NEW r \in Requests, EmitChunk(r) PROVE Quiet
    BY <2>18, <1>1 DEF EmitChunk, pipes, closing, reading, WriterInv
  <2>19. ASSUME NEW r \in Requests, NEW e \in Final, EmitFinal(r, e) PROVE Quiet
    BY <2>19, <1>1 DEF EmitFinal, pipes, closing, reading, WriterInv
  <2>20. CASE BeginRestart
    BY <2>20, <1>1 DEF BeginRestart, pipes, closing, reading, WriterInv
  <2>21. CASE CloseFlag
    BY <2>21, <1>1 DEF CloseFlag, pipes, closing, reading, WriterInv
  <2>22. CASE CloseClear
    BY <2>22, <1>1 DEF CloseClear, ToWake, pipes, closing, reading, WriterInv
  <2>23. CASE Kill
    BY <2>23, <1>1 DEF Kill, pipes, closing, reading, WriterInv
  <2>24. CASE Put
    BY <2>24, <1>1 DEF Put, pipes, closing, reading, WriterInv
  <2>25. CASE Eof
    BY <2>25, <1>1 DEF Eof, pipes, closing, reading, WriterInv
  <2>26. CASE Die
    BY <2>26, <1>1 DEF Die, pipes, closing, reading, WriterInv
  <2>27. CASE UNCHANGED vars
    BY <2>27, <1>1 DEF vars, pipes, closing, reading, WriterInv
  <2> QED
    BY <1>1, <2>1, <2>2, <2>3, <2>4, <2>5, <2>6, <2>7, <2>8, <2>9, <2>10, <2>11, <2>12,
       <2>13, <2>14,
       <2>15, <2>16, <2>17, <2>18, <2>19, <2>20, <2>21, <2>22, <2>23, <2>24, <2>25, <2>26, <2>27
    DEF Next, Serve, Leave, Work, Restart, Read
<1>2. WInv => WriterInv
  BY DEF WInv
<1>3. WInv /\ [Next]_vars => [Quiet]_vars
  BY <1>1, <1>2
<1> QED
  BY <1>3, WorkerInvariance, PTL DEF Spec, NoWriteAfterClose

\* Without send_request(), no slot is ever lost: request() alone returns every
\* one, so SlotsReturned holds of the blocking interface.
THEOREM BlockingSlotsReturned ==
  ASSUME Async = {} PROVE Spec => []SlotsReturned
<1> DEFINE NobodyLate == \A r \in Requests : pc[r] \notin {"gone", "late"}
<1>1. Init => NobodyLate
  BY DEF Init
<1>2. TypeOK /\ NobodyLate /\ [Next]_vars => NobodyLate'
  <2> SUFFICES ASSUME TypeOK, NobodyLate, [Next]_vars PROVE NobodyLate'
    OBVIOUS
  <2>1. ASSUME NEW r \in Requests, Acquire(r) PROVE NobodyLate'
    BY <2>1 DEF Acquire, Goto, pipes, closing, reading, TypeOK
  <2>2. ASSUME NEW r \in Requests, CancelWaiting(r) PROVE NobodyLate'
    BY <2>2 DEF CancelWaiting, Goto, pipes, closing, reading, TypeOK
  <2>3. ASSUME NEW r \in Requests, LateAcquire(r) PROVE NobodyLate'
    BY <2>3 DEF LateAcquire, Goto, pipes, closing, reading, TypeOK
  <2>4. ASSUME NEW r \in Requests, Check(r) PROVE NobodyLate'
    BY <2>4 DEF Check, Goto, pipes, closing, reading, TypeOK
  <2>5. ASSUME NEW r \in Requests, Register(r) PROVE NobodyLate'
    BY <2>5 DEF Register, Goto, pipes, closing, reading, TypeOK
  <2>6. ASSUME NEW r \in Requests, Write(r) PROVE NobodyLate'
    BY <2>6 DEF Write, ClosedUnderLock, Goto, pipes, closing, reading, TypeOK
  <2>7. ASSUME NEW r \in Requests, WriteBroken(r) PROVE NobodyLate'
    BY <2>7 DEF WriteBroken, Goto, pipes, closing, reading, TypeOK
  <2>8. ASSUME NEW r \in Requests, Get(r) PROVE NobodyLate'
    BY <2>8 DEF Get, Goto, pipes, closing, reading, TypeOK
  <2>9. ASSUME NEW r \in Requests, GiveUp(r) PROVE NobodyLate'
    BY <2>9 DEF GiveUp, Goto, pipes, closing, reading, TypeOK
  <2>10. ASSUME NEW r \in Requests, Resume(r) PROVE NobodyLate'
    BY <2>10 DEF Resume, Goto, pipes, closing, reading, TypeOK
  <2>11. ASSUME NEW r \in Requests, Break(r) PROVE NobodyLate'
    BY <2>11 DEF Break, Goto, pipes, closing, reading, TypeOK
  <2>12. ASSUME NEW r \in Requests, Return(r) PROVE NobodyLate'
    BY <2>12 DEF Return, Pop, Goto, pipes, closing, reading, TypeOK
  <2>13. ASSUME NEW r \in Requests, Finally(r) PROVE NobodyLate'
    BY <2>13 DEF Finally, Pop, Goto, pipes, closing, reading, TypeOK
  <2>14. ASSUME NEW r \in Requests, Cancel(r) PROVE NobodyLate'
    BY <2>14 DEF Cancel, Goto, pipes, closing, reading, TypeOK
  <2>15. ASSUME NEW r \in Requests, ClosePut(r) PROVE NobodyLate'
    BY <2>15 DEF ClosePut, pipes, closing, reading, TypeOK
  <2>16. ASSUME NEW r \in Requests, ReadLine(r) PROVE NobodyLate'
    BY <2>16 DEF ReadLine, pipes, closing, reading, TypeOK
  <2>17. ASSUME NEW r \in Requests, TakeIn(r) PROVE NobodyLate'
    BY <2>17 DEF TakeIn, Goto, pipes, closing, reading, TypeOK
  <2>18. ASSUME NEW r \in Requests, EmitChunk(r) PROVE NobodyLate'
    BY <2>18 DEF EmitChunk, pipes, closing, reading, TypeOK
  <2>19. ASSUME NEW r \in Requests, NEW e \in Final, EmitFinal(r, e) PROVE NobodyLate'
    BY <2>19 DEF EmitFinal, pipes, closing, reading, TypeOK
  <2>20. CASE BeginRestart
    BY <2>20 DEF BeginRestart, pipes, closing, reading, TypeOK
  <2>21. CASE CloseFlag
    BY <2>21 DEF CloseFlag, pipes, closing, reading, TypeOK
  <2>22. CASE CloseClear
    BY <2>22 DEF CloseClear, ToWake, pipes, closing, reading, TypeOK
  <2>23. CASE Kill
    BY <2>23 DEF Kill, pipes, closing, reading, TypeOK
  <2>24. CASE Put
    BY <2>24 DEF Put, pipes, closing, reading, TypeOK
  <2>25. CASE Eof
    BY <2>25 DEF Eof, pipes, closing, reading, TypeOK
  <2>26. CASE Die
    BY <2>26 DEF Die, pipes, closing, reading, TypeOK
  <2>27. CASE UNCHANGED vars
    BY <2>27 DEF vars, pipes, closing, reading, TypeOK
  <2> QED
    BY <2>1, <2>2, <2>3, <2>4, <2>5, <2>6, <2>7, <2>8, <2>9, <2>10, <2>11, <2>12, <2>13, <2>14,
       <2>15, <2>16, <2>17, <2>18, <2>19, <2>20, <2>21, <2>22, <2>23, <2>24, <2>25, <2>26, <2>27
    DEF Next, Serve, Leave, Work, Restart, Read
<1>3. SlotsAccounted /\ NobodyLate /\ TypeOK => SlotsReturned
  <2> SUFFICES ASSUME SlotsAccounted, NobodyLate, TypeOK,
                      \A r \in Requests : pc[r] \notin Holding
               PROVE  permits = Concurrency
    BY DEF SlotsReturned
  <2>1. Taken = {}
    BY DEF Taken
  <2> QED
    BY <2>1, FS_EmptySet DEF SlotsAccounted, TypeOK
<1> QED
  BY <1>1, <1>2, <1>3, WorkerTypeCorrect, SlotsCorrect, PTL DEF Spec
==============================================================================
