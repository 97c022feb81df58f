----------------------- MODULE BackendManager_proofs -----------------------
(***************************************************************************)
(* TLAPS proofs about BackendManager: the type invariant, the count of     *)
(* requests in flight, the drain guarantee, what READY serves and that     *)
(* registered sessions are closed first, for any number of managers,       *)
(* requests, sessions, profiles and reloads.                               *)
(***************************************************************************)
EXTENDS BackendManager, FiniteSetTheorems, TLAPS

\* The history sets and the factory's cache hold backends that were built, and
\* only unloaded backends were unloaded by force.
BuiltInv ==
  /\ live \cup dead \subseteq DOMAIN built
  /\ forced \subseteq dead
  /\ \A k \in Kinds : cache[k] \in DOMAIN built \cup {NoBackend}

\* Where the event loop is: a manager past its drain owns it.
LoopInv ==
  \A k \in Kinds : rl[k].pc \in {"build", "rollback"} <=> loop = k

\* How the phase of reload(), the state and the backend cells go together.
PhaseInv ==
  \A k \in Kinds :
    /\ rl[k].pc = "idle" => state[k] \in {"init", "ready", "failed"}
    /\ rl[k].pc = "closing" => state[k] = "draining" /\ rl[k].old = current[k]
    /\ rl[k].pc \in {"build", "rollback"} => state[k] = "reloading"

\* The serving cells: what a READY or DRAINING manager holds, and that nobody
\* else can find a live backend in the factory's cache.
ServeInv ==
  \A k \in Kinds :
    /\ state[k] \in {"ready", "draining"} =>
         /\ current[k] \in live \ dead
         /\ cache[k] = current[k]
    /\ state[k] \notin {"ready", "draining"} =>
         current[k] = NoBackend /\ cache[k] \notin live
    /\ state[k] \in {"init", "reloading"} => cache[k] = NoBackend

\* Two managers never share a backend.
ApartInv ==
  \A j, k \in Kinds : (j # k /\ current[j] # NoBackend) => current[j] # current[k]

\* What a request holds: the manager's backend, or one unloaded by force.
HoldInv ==
  \A r \in Requests :
    holds[r] # Nothing => /\ holds[r].kind \in Kinds /\ holds[r].be # NoBackend
                          /\ \/ holds[r].be \in forced
                             \/ holds[r].be = current[holds[r].kind]

\* What a registered session is bound to, and that a closing reload still has
\* it on its list.
SessionInv ==
  \A s \in Sockets, k \in Kinds :
    (k \in ws[s].reg /\ ws[s].st # "closing") =>
       /\ ws[s].be[k] \in {NoBackend, current[k]}
       /\ rl[k].pc = "closing" => s \in rl[k].handles
       /\ state[k] \in {"ready", "draining"}

IInv ==
  /\ TypeOK
  /\ HoldersCounted
  /\ BuiltInv
  /\ LoopInv
  /\ PhaseInv
  /\ ServeInv
  /\ ApartInv
  /\ HoldInv
  /\ SessionInv

-----------------------------------------------------------------------------
(* Types *)

\* A backend the factory hands out is an identifier, and the table of built
\* backends stays a function into Profiles.
LEMMA FactoryType ==
  ASSUME TypeOK, NEW k \in Kinds, NEW b \in Ids, NEW p \in Profiles,
         Factory(k, b, p)
  PROVE  /\ DOMAIN built' = DOMAIN built \cup {b}
         /\ DOMAIN built' \subseteq Ids
         /\ built' \in [DOMAIN built' -> Profiles]
BY DEF TypeOK, Factory

\* Moving reload()'s program counter, striking a handle off its list and
\* leaving with an answer keep the record well typed.
LEMMA PhaseType ==
  ASSUME TypeOK, NEW k \in Kinds, NEW p \in Phases
  PROVE  [rl EXCEPT ![k].pc = p] \in [Kinds -> Reload]
<1>1. rl[k] \in Reload
  BY DEF TypeOK
<1>2. [rl[k] EXCEPT !.pc = p] \in Reload
  BY <1>1 DEF Reload
<1> QED BY <1>2 DEF TypeOK

\* A session that leaves the handles of a reload leaves a reload of the right type.
LEMMA HandlesType ==
  ASSUME TypeOK, NEW k \in Kinds, NEW s \in Sockets
  PROVE  [rl EXCEPT ![k].handles = @ \ {s}] \in [Kinds -> Reload]
<1>1. rl[k] \in Reload
  BY DEF TypeOK
<1>2. [rl[k] EXCEPT !.handles = @ \ {s}] \in Reload
  BY <1>1 DEF Reload
<1> QED BY <1>2 DEF TypeOK

\* _finish_reload() of the right result keeps the types of the reload records.
LEMMA FinishType ==
  ASSUME TypeOK, NEW k \in Kinds,
         NEW result \in {"reloaded", "rolled_back", "failed"}, Finish(k, result)
  PROVE  rl' \in [Kinds -> Reload] /\ loop' = NoKind
<1>1. rl[k] \in Reload
  BY DEF TypeOK
<1>2. [rl[k] EXCEPT !.pc = "idle", !.result = result] \in Reload
  BY <1>1 DEF Reload, Phases
<1> QED BY <1>2 DEF TypeOK, Finish

\* The type invariant is inductive by itself.
LEMMA TypeStep == TypeOK /\ [Next]_vars => TypeOK'
<1> SUFFICES ASSUME TypeOK, [Next]_vars PROVE TypeOK'
  OBVIOUS
<1> USE DEF States, Phases, NoBackend, NoKind
<1>1. ASSUME NEW k \in Kinds, NEW b \in Ids, StartOk(k, b) PROVE TypeOK'
  <2>1. DOMAIN built' \subseteq Ids /\ built' \in [DOMAIN built' -> Profiles]
    BY <1>1, FactoryType DEF StartOk, TypeOK
  <2> QED
    BY <1>1, <2>1 DEF StartOk, TypeOK
<1>2. ASSUME NEW k \in Kinds, NEW b \in Ids, StartPreloadFail(k, b) PROVE TypeOK'
  <2>1. DOMAIN built' \subseteq Ids /\ built' \in [DOMAIN built' -> Profiles]
    BY <1>2, FactoryType DEF StartPreloadFail, TypeOK
  <2> QED
    BY <1>2, <2>1 DEF StartPreloadFail, TypeOK
<1>3. ASSUME NEW k \in Kinds, StartFail(k) PROVE TypeOK'
  BY <1>3 DEF StartFail, TypeOK
<1>4. ASSUME NEW r \in Requests, NEW k \in Kinds, Acquire(r, k) PROVE TypeOK'
  <2>1. holds' \in [Requests -> Held]
    BY <1>4 DEF Acquire, TypeOK, Held, IsReady
  <2> QED
    BY <1>4, <2>1 DEF Acquire, TypeOK, IsReady
<1>5. ASSUME NEW r \in Requests, Release(r) PROVE TypeOK'
  <2>1. holds' \in [Requests -> Held]
    BY <1>5 DEF Release, TypeOK, Held, Nothing
  <2>2. \A n \in Nat : Uncount(n) \in Nat
    BY DEF Uncount
  <2>3. inflight' \in [Kinds -> Nat]
    BY <1>5, <2>2 DEF Release, TypeOK
  <2> QED
    BY <1>5, <2>1, <2>2, <2>3 DEF Release, TypeOK
<1>6. ASSUME NEW s \in Sockets, WsAccept(s) PROVE TypeOK'
  <2>1. ws' \in [Sockets -> Session]
    BY <1>6 DEF WsAccept, TypeOK, Session, NoSession
  <2> QED
    BY <1>6, <2>1 DEF WsAccept, TypeOK
<1>7. ASSUME NEW s \in Sockets, WsBind(s) PROVE TypeOK'
  <2>1. PICK ks \in SUBSET Kinds : ws' = [ws EXCEPT ![s].st = "bound",
            ![s].be = [k \in Kinds |-> IF k \in ks THEN cache[k] ELSE NoBackend]]
    BY <1>7 DEF WsBind, TypeOK
  <2>2. [ws[s] EXCEPT !.st = "bound",
                       !.be = [k \in Kinds |-> IF k \in ks THEN cache[k] ELSE NoBackend]]
          \in Session
    BY DEF TypeOK, Session
  <2>3. ws' \in [Sockets -> Session]
    BY <1>7, <2>1, <2>2 DEF WsBind, TypeOK
  <2> QED
    BY <1>7, <2>1, <2>2, <2>3 DEF WsBind, TypeOK
<1>8. ASSUME NEW s \in Sockets, WsEnd(s) PROVE TypeOK'
  <2>1. ws' \in [Sockets -> Session]
    BY <1>8 DEF WsEnd, TypeOK, Session, NoSession
  <2> QED
    BY <1>8, <2>1 DEF WsEnd, TypeOK
<1>9. ASSUME NEW k \in Kinds, NEW ref \in Profiles, BeginReload(k, ref) PROVE TypeOK'
  <2>1. rl' \in [Kinds -> Reload]
    BY <1>9 DEF BeginReload, TypeOK, Reload, Handles
  <2>2. reloads' \in 0 .. MaxReloads
    BY <1>9, BoundAssumption DEF BeginReload, TypeOK
  <2> QED
    BY <1>9, <2>1, <2>2 DEF BeginReload, TypeOK
<1>10. ASSUME NEW k \in Kinds, NEW s \in Sockets, CloseSocket(k, s) PROVE TypeOK'
  <2>1. rl' \in [Kinds -> Reload]
    BY <1>10, HandlesType DEF CloseSocket, TypeOK
  <2>2. ws' = IF k \in ws[s].reg THEN [ws EXCEPT ![s].st = "closing"] ELSE ws
    BY <1>10 DEF CloseSocket
  <2>3. [ws[s] EXCEPT !.st = "closing"] \in Session
    BY DEF TypeOK, Session
  <2>4. ws' \in [Sockets -> Session]
    <3>1. ws \in [Sockets -> Session]
      BY DEF TypeOK
    <3> QED
      BY <2>2, <2>3, <3>1
  <2> QED
    BY <1>10, <2>1, <2>4 DEF CloseSocket, TypeOK
<1>11. ASSUME NEW k \in Kinds, NEW d \in BOOLEAN, EndDrain(k, d) PROVE TypeOK'
  <2>1. rl' \in [Kinds -> Reload]
    BY <1>11, PhaseType DEF EndDrain, TypeOK
  <2>2. rl[k].old \in Ids \cup {NoBackend}
    BY DEF TypeOK, Reload
  <2> QED
    BY <1>11, <2>1, <2>2 DEF EndDrain, TypeOK, Unloaded
<1>12. ASSUME NEW k \in Kinds, NEW b \in Ids, BuildOk(k, b) PROVE TypeOK'
  <2>1. rl' \in [Kinds -> Reload] /\ loop' = NoKind
    BY <1>12, FinishType DEF BuildOk, TypeOK
  <2>2. rl[k].ref \in Profiles
    BY DEF TypeOK, Reload
  <2>3. DOMAIN built' \subseteq Ids /\ built' \in [DOMAIN built' -> Profiles]
    BY <1>12, <2>2, FactoryType DEF BuildOk, TypeOK
  <2> QED
    BY <1>12, <2>1, <2>2, <2>3 DEF BuildOk, TypeOK, RecordedRef
<1>13. ASSUME NEW k \in Kinds, NEW b \in Ids, PreloadFail(k, b) PROVE TypeOK'
  <2>1. rl' \in [Kinds -> Reload]
    BY <1>13, PhaseType DEF PreloadFail, TypeOK
  <2>2. rl[k].ref \in Profiles
    BY DEF TypeOK, Reload
  <2>3. DOMAIN built' \subseteq Ids /\ built' \in [DOMAIN built' -> Profiles]
    BY <1>13, <2>2, FactoryType DEF PreloadFail, TypeOK
  <2> QED
    BY <1>13, <2>1, <2>2, <2>3 DEF PreloadFail, TypeOK, Unloaded
<1>14. ASSUME NEW k \in Kinds, BuildFail(k) PROVE TypeOK'
  <2>1. rl' \in [Kinds -> Reload]
    BY <1>14, PhaseType DEF BuildFail, TypeOK
  <2>2. rl[k].ref \in Profiles
    BY DEF TypeOK, Reload
  <2> QED
    BY <1>14, <2>1, <2>2 DEF BuildFail, TypeOK
<1>15. ASSUME NEW k \in Kinds, NEW b \in Ids, RollbackOk(k, b) PROVE TypeOK'
  <2>1. rl' \in [Kinds -> Reload] /\ loop' = NoKind
    BY <1>15, FinishType DEF RollbackOk, TypeOK
  <2>2. rl[k].oldRef \in Profiles
    BY DEF TypeOK, Reload
  <2>3. DOMAIN built' \subseteq Ids /\ built' \in [DOMAIN built' -> Profiles]
    BY <1>15, <2>2, FactoryType DEF RollbackOk, TypeOK, RollbackProfile
  <2> QED
    BY <1>15, <2>1, <2>2, <2>3 DEF RollbackOk, TypeOK, RollbackProfile
<1>16. ASSUME NEW k \in Kinds, NEW b \in Ids, RollbackPreloadFail(k, b) PROVE TypeOK'
  <2>1. rl' \in [Kinds -> Reload] /\ loop' = NoKind
    BY <1>16, FinishType DEF RollbackPreloadFail, TypeOK
  <2>2. rl[k].oldRef \in Profiles
    BY DEF TypeOK, Reload
  <2>3. DOMAIN built' \subseteq Ids /\ built' \in [DOMAIN built' -> Profiles]
    BY <1>16, <2>2, FactoryType DEF RollbackPreloadFail, TypeOK
  <2> QED
    BY <1>16, <2>1, <2>2, <2>3 DEF RollbackPreloadFail, TypeOK
<1>17. ASSUME NEW k \in Kinds, RollbackFail(k) PROVE TypeOK'
  <2>1. rl' \in [Kinds -> Reload] /\ loop' = NoKind
    BY <1>17, FinishType DEF RollbackFail, TypeOK
  <2>2. rl[k].oldRef \in Profiles
    BY DEF TypeOK, Reload
  <2> QED
    BY <1>17, <2>1, <2>2 DEF RollbackFail, TypeOK
<1>18. CASE UNCHANGED vars
  BY <1>18 DEF vars, TypeOK
<1> QED
  BY <1>1, <1>2, <1>3, <1>4, <1>5, <1>6, <1>7, <1>8, <1>9, <1>10, <1>11,
     <1>12, <1>13, <1>14, <1>15, <1>16, <1>17, <1>18
  DEF Next, ReloadStep
-----------------------------------------------------------------------------
(* The inductive invariant, one lemma per conjunct; each has a step for every *)
(* action that can disturb the conjunct.                                    *)

\* NoBackend is not an identifier.
LEMMA NoIdZero == NoBackend \notin Ids
BY DEF NoBackend, Ids

\* What the factory returns: the cached backend or one that was never built.
LEMMA FactoryDomain ==
  ASSUME TypeOK, NEW k \in Kinds, NEW b \in Ids, NEW p, Factory(k, b, p)
  PROVE  /\ DOMAIN built' = DOMAIN built \cup {b}
         /\ cache[k] = NoBackend => b \notin DOMAIN built
BY DEF Factory, Fresh

\* The holders of a manager's backend are finitely many.
LEMMA HoldersFinite == \A k : IsFiniteSet(Holders(k))
<1> TAKE k
<1>1. Holders(k) \subseteq Requests
  BY DEF Holders
<1> QED BY <1>1, RequestsAssumption, FS_Subset

\* acquire() and release keep the count equal to the number of holders.
LEMMA CountStep == IInv /\ TypeOK' /\ [Next]_vars => HoldersCounted'
<1> SUFFICES ASSUME IInv, TypeOK', [Next]_vars PROVE HoldersCounted'
  OBVIOUS
<1> USE DEF NoBackend, NoKind
<1>1. ASSUME NEW r \in Requests, NEW k \in Kinds, Acquire(r, k) PROVE HoldersCounted'
  <2>1. holds' = [holds EXCEPT ![r] = [kind |-> k, be |-> current[k]]] /\ holds[r].kind # k
    BY <1>1, KindsAssumption DEF Acquire, Nothing
  <2>2. Holders(k)' = Holders(k) \cup {r} /\ r \notin Holders(k)
    BY <2>1 DEF Holders, IInv, TypeOK
  <2>3. \A j \in Kinds \ {k} : Holders(j)' = Holders(j)
    BY <2>1, KindsAssumption, <1>1 DEF Holders, IInv, TypeOK, Acquire, Nothing
  <2>4. Cardinality(Holders(k)') = Cardinality(Holders(k)) + 1
    BY <2>2, HoldersFinite, FS_AddElement
  <2> QED
    BY <1>1, <2>3, <2>4 DEF HoldersCounted, IInv, TypeOK, Acquire
<1>2. ASSUME NEW r \in Requests, Release(r) PROVE HoldersCounted'
  <2>1. PICK k \in Kinds : k = holds[r].kind
    BY <1>2 DEF Release, IInv, HoldInv
  <2>2. Holders(k)' = Holders(k) \ {r} /\ r \in Holders(k)
    BY <1>2, <2>1, KindsAssumption DEF Release, Nothing, Holders, IInv, TypeOK
  <2>3. \A j \in Kinds \ {k} : Holders(j)' = Holders(j)
    BY <1>2, <2>1, KindsAssumption DEF Release, Nothing, Holders, IInv, TypeOK
  <2>4. /\ Cardinality(Holders(k)') = Cardinality(Holders(k)) - 1
        /\ Cardinality(Holders(k)) \in Nat
        /\ Cardinality(Holders(k)') \in Nat
    BY <2>2, HoldersFinite, FS_RemoveElement, FS_CardinalityType
  <2> QED
    BY <1>2, <2>1, <2>3, <2>4 DEF HoldersCounted, IInv, TypeOK, Release, Uncount
<1>3. CASE UNCHANGED <<inflight, holds>>
  BY <1>3 DEF IInv, HoldersCounted, Holders
<1> QED
  BY <1>1, <1>2, <1>3
  DEF Next, ReloadStep, vars, StartOk, StartPreloadFail, StartFail, WsAccept,
      WsBind, WsEnd, BeginReload, CloseSocket, EndDrain, BuildOk, PreloadFail,
      BuildFail, RollbackOk, RollbackPreloadFail, RollbackFail, Finish

\* Only backends that were built are preloaded or unloaded.
LEMMA BuiltStep == IInv /\ TypeOK' /\ [Next]_vars => BuiltInv'
<1> SUFFICES ASSUME IInv, TypeOK', [Next]_vars PROVE BuiltInv'
  OBVIOUS
<1> USE DEF NoBackend, NoKind
<1>1. ASSUME NEW k \in Kinds, NEW b \in Ids, StartOk(k, b) PROVE BuiltInv'
  <2>1. cache[k] = NoBackend
    BY <1>1 DEF StartOk, IInv, PhaseInv, ServeInv
  <2>2. b \notin DOMAIN built \cup {NoBackend} /\ DOMAIN built' = DOMAIN built \cup {b}
    BY <1>1, <2>1, FactoryDomain, NoIdZero DEF StartOk, IInv
  <2> QED
    BY <1>1, <2>2 DEF StartOk, IInv, TypeOK, BuiltInv
<1>2. ASSUME NEW k \in Kinds, NEW b \in Ids, StartPreloadFail(k, b) PROVE BuiltInv'
  <2>1. cache[k] = NoBackend
    BY <1>2 DEF StartPreloadFail, IInv, PhaseInv, ServeInv
  <2>2. b \notin DOMAIN built \cup {NoBackend} /\ DOMAIN built' = DOMAIN built \cup {b}
    BY <1>2, <2>1, FactoryDomain, NoIdZero DEF StartPreloadFail, IInv
  <2> QED
    BY <1>2, <2>2 DEF StartPreloadFail, IInv, TypeOK, BuiltInv
<1>3. ASSUME NEW k \in Kinds, NEW b \in Ids, BuildOk(k, b) PROVE BuiltInv'
  <2>1. cache[k] = NoBackend
    BY <1>3 DEF BuildOk, IInv, PhaseInv, ServeInv
  <2>2. b \notin DOMAIN built \cup {NoBackend} /\ DOMAIN built' = DOMAIN built \cup {b}
    BY <1>3, <2>1, FactoryDomain, NoIdZero DEF BuildOk, IInv
  <2> QED
    BY <1>3, <2>2 DEF BuildOk, IInv, TypeOK, BuiltInv
<1>4. ASSUME NEW k \in Kinds, NEW b \in Ids, PreloadFail(k, b) PROVE BuiltInv'
  <2>1. cache[k] = NoBackend
    BY <1>4 DEF PreloadFail, IInv, PhaseInv, ServeInv
  <2>2. b \notin DOMAIN built \cup {NoBackend} /\ DOMAIN built' = DOMAIN built \cup {b}
    BY <1>4, <2>1, FactoryDomain, NoIdZero DEF PreloadFail, IInv
  <2> QED
    BY <1>4, <2>2 DEF PreloadFail, IInv, TypeOK, BuiltInv, Unloaded
<1>5. ASSUME NEW k \in Kinds, NEW b \in Ids, RollbackOk(k, b) PROVE BuiltInv'
  <2>1. cache[k] = NoBackend
    BY <1>5 DEF RollbackOk, IInv, PhaseInv, ServeInv
  <2>2. b \notin DOMAIN built \cup {NoBackend} /\ DOMAIN built' = DOMAIN built \cup {b}
    BY <1>5, <2>1, FactoryDomain, NoIdZero DEF RollbackOk, IInv
  <2> QED
    BY <1>5, <2>2 DEF RollbackOk, IInv, TypeOK, BuiltInv
<1>6. ASSUME NEW k \in Kinds, NEW b \in Ids, RollbackPreloadFail(k, b) PROVE BuiltInv'
  <2>1. cache[k] = NoBackend
    BY <1>6 DEF RollbackPreloadFail, IInv, PhaseInv, ServeInv
  <2>2. b \notin DOMAIN built \cup {NoBackend} /\ DOMAIN built' = DOMAIN built \cup {b}
    BY <1>6, <2>1, FactoryDomain, NoIdZero DEF RollbackPreloadFail, IInv
  <2> QED
    BY <1>6, <2>2 DEF RollbackPreloadFail, IInv, TypeOK, BuiltInv
<1>7. ASSUME NEW k \in Kinds, NEW d \in BOOLEAN, EndDrain(k, d) PROVE BuiltInv'
  BY <1>7 DEF EndDrain, IInv, TypeOK, BuiltInv, PhaseInv, ServeInv, Unloaded
<1>8. CASE UNCHANGED <<built, cache, live, dead, forced>>
  BY <1>8 DEF IInv, BuiltInv
<1> QED
  BY <1>1, <1>2, <1>3, <1>4, <1>5, <1>6, <1>7, <1>8
  DEF Next, ReloadStep, vars, StartFail, Acquire, Release, WsAccept, WsBind,
      WsEnd, BeginReload, CloseSocket, BuildFail, RollbackFail, Finish

\* The synchronous tail: entered by EndDrain, left by the four answers.
LEMMA LoopStep == IInv /\ TypeOK' /\ [Next]_vars => LoopInv'
<1> SUFFICES ASSUME IInv, TypeOK', [Next]_vars PROVE LoopInv'
  OBVIOUS
<1> USE DEF NoBackend, NoKind
<1>1. ASSUME NEW k \in Kinds, NEW ref \in Profiles, BeginReload(k, ref) PROVE LoopInv'
  BY <1>1, KindsAssumption DEF BeginReload, IInv, TypeOK, Reload, Phases, LoopInv
<1>2. ASSUME NEW k \in Kinds, NEW s \in Sockets, CloseSocket(k, s) PROVE LoopInv'
  BY <1>2, KindsAssumption DEF CloseSocket, IInv, TypeOK, Reload, Phases, LoopInv
<1>3. ASSUME NEW k \in Kinds, NEW d \in BOOLEAN, EndDrain(k, d) PROVE LoopInv'
  BY <1>3, KindsAssumption DEF EndDrain, IInv, TypeOK, Reload, Phases, LoopInv
<1>4. ASSUME NEW k \in Kinds, NEW b \in Ids, BuildOk(k, b) PROVE LoopInv'
  BY <1>4, KindsAssumption DEF BuildOk, IInv, TypeOK, Reload, Phases, LoopInv, Finish
<1>5. ASSUME NEW k \in Kinds, NEW b \in Ids, PreloadFail(k, b) PROVE LoopInv'
  BY <1>5, KindsAssumption DEF PreloadFail, IInv, TypeOK, Reload, Phases, LoopInv
<1>6. ASSUME NEW k \in Kinds, BuildFail(k) PROVE LoopInv'
  BY <1>6, KindsAssumption DEF BuildFail, IInv, TypeOK, Reload, Phases, LoopInv
<1>7. ASSUME NEW k \in Kinds, NEW b \in Ids, RollbackOk(k, b) PROVE LoopInv'
  BY <1>7, KindsAssumption DEF RollbackOk, IInv, TypeOK, Reload, Phases, LoopInv, Finish
<1>8. ASSUME NEW k \in Kinds, NEW b \in Ids, RollbackPreloadFail(k, b) PROVE LoopInv'
  BY <1>8, KindsAssumption
  DEF RollbackPreloadFail, IInv, TypeOK, Reload, Phases, LoopInv, Finish
<1>9. ASSUME NEW k \in Kinds, RollbackFail(k) PROVE LoopInv'
  BY <1>9, KindsAssumption
  DEF RollbackFail, IInv, TypeOK, Reload, Phases, LoopInv, Finish
<1>10. CASE UNCHANGED <<rl, loop>>
  BY <1>10 DEF IInv, LoopInv
<1> QED
  BY <1>1, <1>2, <1>3, <1>4, <1>5, <1>6, <1>7, <1>8, <1>9, <1>10
  DEF Next, ReloadStep, vars, StartOk, StartPreloadFail, StartFail, Acquire,
      Release, WsAccept, WsBind, WsEnd

\* reload()'s phase, the manager's state and old_backend stay in step.
LEMMA PhaseStep == IInv /\ TypeOK' /\ [Next]_vars => PhaseInv'
<1> SUFFICES ASSUME IInv, TypeOK', [Next]_vars PROVE PhaseInv'
  OBVIOUS
<1> USE DEF NoBackend, NoKind
<1>1. ASSUME NEW k \in Kinds, NEW b \in Ids, StartOk(k, b) PROVE PhaseInv'
  BY <1>1 DEF StartOk, IInv, TypeOK, Reload, Phases, PhaseInv, LoopInv
<1>2. ASSUME NEW k \in Kinds, NEW b \in Ids, StartPreloadFail(k, b) PROVE PhaseInv'
  BY <1>2 DEF StartPreloadFail, IInv, TypeOK, Reload, Phases, PhaseInv, LoopInv
<1>3. ASSUME NEW k \in Kinds, StartFail(k) PROVE PhaseInv'
  BY <1>3 DEF StartFail, IInv, TypeOK, Reload, Phases, PhaseInv, LoopInv
<1>4. ASSUME NEW k \in Kinds, NEW ref \in Profiles, BeginReload(k, ref) PROVE PhaseInv'
  BY <1>4 DEF BeginReload, IInv, TypeOK, Reload, Phases, PhaseInv, LoopInv
<1>5. ASSUME NEW k \in Kinds, NEW s \in Sockets, CloseSocket(k, s) PROVE PhaseInv'
  BY <1>5 DEF CloseSocket, IInv, TypeOK, Reload, Phases, PhaseInv, LoopInv
<1>6. ASSUME NEW k \in Kinds, NEW d \in BOOLEAN, EndDrain(k, d) PROVE PhaseInv'
  BY <1>6 DEF EndDrain, IInv, TypeOK, Reload, Phases, PhaseInv, LoopInv
<1>7. ASSUME NEW k \in Kinds, NEW b \in Ids, BuildOk(k, b) PROVE PhaseInv'
  BY <1>7 DEF BuildOk, IInv, TypeOK, Reload, Phases, PhaseInv, LoopInv, Finish
<1>8. ASSUME NEW k \in Kinds, NEW b \in Ids, PreloadFail(k, b) PROVE PhaseInv'
  BY <1>8 DEF PreloadFail, IInv, TypeOK, Reload, Phases, PhaseInv, LoopInv
<1>9. ASSUME NEW k \in Kinds, BuildFail(k) PROVE PhaseInv'
  BY <1>9 DEF BuildFail, IInv, TypeOK, Reload, Phases, PhaseInv, LoopInv
<1>10. ASSUME NEW k \in Kinds, NEW b \in Ids, RollbackOk(k, b) PROVE PhaseInv'
  BY <1>10 DEF RollbackOk, IInv, TypeOK, Reload, Phases, PhaseInv, LoopInv, Finish
<1>11. ASSUME NEW k \in Kinds, NEW b \in Ids, RollbackPreloadFail(k, b) PROVE PhaseInv'
  BY <1>11
  DEF RollbackPreloadFail, IInv, TypeOK, Reload, Phases, PhaseInv, LoopInv, Finish
<1>12. ASSUME NEW k \in Kinds, RollbackFail(k) PROVE PhaseInv'
  BY <1>12 DEF RollbackFail, IInv, TypeOK, Reload, Phases, PhaseInv, LoopInv, Finish
<1>13. CASE UNCHANGED <<rl, state, current>>
  BY <1>13 DEF IInv, PhaseInv
<1> QED
  BY <1>1, <1>2, <1>3, <1>4, <1>5, <1>6, <1>7, <1>8, <1>9, <1>10, <1>11,
     <1>12, <1>13
  DEF Next, ReloadStep, vars, Acquire, Release, WsAccept, WsBind, WsEnd

\* What the serving cells and the factory's cache hold.
LEMMA ServeStep == IInv /\ TypeOK' /\ [Next]_vars => ServeInv'
<1> SUFFICES ASSUME IInv, TypeOK', [Next]_vars PROVE ServeInv'
  OBVIOUS
<1> USE DEF NoBackend, NoKind
<1>1. ASSUME NEW k \in Kinds, NEW b \in Ids, StartOk(k, b) PROVE ServeInv'
  <2>1. cache[k] = NoBackend
    BY <1>1 DEF StartOk, IInv, PhaseInv, ServeInv
  <2>2. b \notin DOMAIN built \cup {NoBackend} /\ DOMAIN built' = DOMAIN built \cup {b}
    BY <1>1, <2>1, FactoryDomain, NoIdZero DEF StartOk, IInv
  <2>3. b \notin live \cup dead
    BY <2>2 DEF IInv, BuiltInv
  <2>4. \A j \in Kinds : cache[j] # b
    BY <2>2 DEF IInv, BuiltInv
  <2>5. /\ state'[k] = "ready" /\ current'[k] = b /\ cache'[k] = b
        /\ live' = live \cup {b} /\ dead' = dead
    BY <1>1 DEF StartOk, IInv, TypeOK
  <2>6. \A j \in Kinds \ {k} :
              state'[j] = state[j] /\ current'[j] = current[j] /\ cache'[j] = cache[j]
    BY <1>1 DEF StartOk, IInv, TypeOK
  <2> QED
    BY <2>3, <2>4, <2>5, <2>6 DEF IInv, ServeInv
<1>2. ASSUME NEW k \in Kinds, NEW b \in Ids, StartPreloadFail(k, b) PROVE ServeInv'
  <2>1. cache[k] = NoBackend
    BY <1>2 DEF StartPreloadFail, IInv, PhaseInv, ServeInv
  <2>2. b \notin DOMAIN built \cup {NoBackend} /\ DOMAIN built' = DOMAIN built \cup {b}
    BY <1>2, <2>1, FactoryDomain, NoIdZero DEF StartPreloadFail, IInv
  <2> QED
    BY <1>2, <2>1, <2>2 DEF StartPreloadFail, IInv, TypeOK, BuiltInv, PhaseInv, ServeInv
<1>3. ASSUME NEW k \in Kinds, StartFail(k) PROVE ServeInv'
  BY <1>3 DEF StartFail, IInv, TypeOK, BuiltInv, PhaseInv, ServeInv
<1>4. ASSUME NEW k \in Kinds, NEW ref \in Profiles, BeginReload(k, ref) PROVE ServeInv'
  BY <1>4 DEF BeginReload, IInv, TypeOK, BuiltInv, PhaseInv, ServeInv, IsReady
<1>5. ASSUME NEW k \in Kinds, NEW d \in BOOLEAN, EndDrain(k, d) PROVE ServeInv'
  <2>1. current[k] = rl[k].old /\ current[k] \in Ids
    BY <1>5 DEF EndDrain, IInv, TypeOK, BuiltInv, PhaseInv, ServeInv
  <2>2. \A j \in Kinds \ {k} : current[j] # NoBackend => current[j] # rl[k].old
    BY <2>1 DEF IInv, ApartInv
  <2>3. /\ state'[k] = "reloading" /\ current'[k] = NoBackend /\ cache'[k] = NoBackend
        /\ live' = live /\ dead' = dead \cup {rl[k].old}
    BY <1>5 DEF EndDrain, IInv, TypeOK, Unloaded
  <2>4. \A j \in Kinds \ {k} :
              state'[j] = state[j] /\ current'[j] = current[j] /\ cache'[j] = cache[j]
    BY <1>5 DEF EndDrain, IInv, TypeOK
  <2>5. NoBackend \notin live
    BY NoIdZero DEF IInv, TypeOK, BuiltInv
  <2>6. \A j \in Kinds \ {k} : current[j] \in live => current[j] # rl[k].old
    BY <2>2, <2>5
  <2> QED
    BY <2>3, <2>4, <2>5, <2>6 DEF IInv, ServeInv
<1>6. ASSUME NEW k \in Kinds, NEW b \in Ids, BuildOk(k, b) PROVE ServeInv'
  <2>1. cache[k] = NoBackend
    BY <1>6 DEF BuildOk, IInv, PhaseInv, ServeInv
  <2>2. b \notin DOMAIN built \cup {NoBackend} /\ DOMAIN built' = DOMAIN built \cup {b}
    BY <1>6, <2>1, FactoryDomain, NoIdZero DEF BuildOk, IInv
  <2>3. b \notin live \cup dead
    BY <2>2 DEF IInv, BuiltInv
  <2>4. \A j \in Kinds : cache[j] # b
    BY <2>2 DEF IInv, BuiltInv
  <2>5. /\ state'[k] = "ready" /\ current'[k] = b /\ cache'[k] = b
        /\ live' = live \cup {b} /\ dead' = dead
    BY <1>6 DEF BuildOk, IInv, TypeOK
  <2>6. \A j \in Kinds \ {k} :
              state'[j] = state[j] /\ current'[j] = current[j] /\ cache'[j] = cache[j]
    BY <1>6 DEF BuildOk, IInv, TypeOK
  <2> QED
    BY <2>3, <2>4, <2>5, <2>6 DEF IInv, ServeInv
<1>7. ASSUME NEW k \in Kinds, NEW b \in Ids, PreloadFail(k, b) PROVE ServeInv'
  <2>1. cache[k] = NoBackend
    BY <1>7 DEF PreloadFail, IInv, PhaseInv, ServeInv
  <2>2. b \notin DOMAIN built \cup {NoBackend} /\ DOMAIN built' = DOMAIN built \cup {b}
    BY <1>7, <2>1, FactoryDomain, NoIdZero DEF PreloadFail, IInv
  <2> QED
    BY <1>7, <2>1, <2>2
    DEF PreloadFail, IInv, TypeOK, BuiltInv, PhaseInv, ServeInv, Unloaded
<1>8. ASSUME NEW k \in Kinds, NEW b \in Ids, RollbackOk(k, b) PROVE ServeInv'
  <2>1. cache[k] = NoBackend
    BY <1>8 DEF RollbackOk, IInv, PhaseInv, ServeInv
  <2>2. b \notin DOMAIN built \cup {NoBackend} /\ DOMAIN built' = DOMAIN built \cup {b}
    BY <1>8, <2>1, FactoryDomain, NoIdZero DEF RollbackOk, IInv
  <2>3. b \notin live \cup dead
    BY <2>2 DEF IInv, BuiltInv
  <2>4. \A j \in Kinds : cache[j] # b
    BY <2>2 DEF IInv, BuiltInv
  <2>5. /\ state'[k] = "ready" /\ current'[k] = b /\ cache'[k] = b
        /\ live' = live \cup {b} /\ dead' = dead
    BY <1>8 DEF RollbackOk, IInv, TypeOK
  <2>6. \A j \in Kinds \ {k} :
              state'[j] = state[j] /\ current'[j] = current[j] /\ cache'[j] = cache[j]
    BY <1>8 DEF RollbackOk, IInv, TypeOK
  <2> QED
    BY <2>3, <2>4, <2>5, <2>6 DEF IInv, ServeInv
<1>9. ASSUME NEW k \in Kinds, NEW b \in Ids, RollbackPreloadFail(k, b) PROVE ServeInv'
  <2>1. cache[k] = NoBackend
    BY <1>9 DEF RollbackPreloadFail, IInv, PhaseInv, ServeInv
  <2>2. b \notin DOMAIN built \cup {NoBackend} /\ DOMAIN built' = DOMAIN built \cup {b}
    BY <1>9, <2>1, FactoryDomain, NoIdZero DEF RollbackPreloadFail, IInv
  <2> QED
    BY <1>9, <2>1, <2>2
    DEF RollbackPreloadFail, IInv, TypeOK, BuiltInv, PhaseInv, ServeInv
<1>10. ASSUME NEW k \in Kinds, RollbackFail(k) PROVE ServeInv'
  BY <1>10 DEF RollbackFail, IInv, TypeOK, BuiltInv, PhaseInv, ServeInv
<1>11. CASE UNCHANGED <<state, current, cache, live, dead>>
  BY <1>11 DEF IInv, ServeInv
<1> QED
  BY <1>1, <1>2, <1>3, <1>4, <1>5, <1>6, <1>7, <1>8, <1>9, <1>10, <1>11
  DEF Next, ReloadStep, vars, Acquire, Release, WsAccept, WsBind, WsEnd,
      CloseSocket, BuildFail

\* A freshly built backend is no other manager's backend.
LEMMA ApartStep == IInv /\ TypeOK' /\ [Next]_vars => ApartInv'
<1> SUFFICES ASSUME IInv, TypeOK', [Next]_vars PROVE ApartInv'
  OBVIOUS
<1> USE DEF NoBackend, NoKind
<1>1. ASSUME NEW k \in Kinds, NEW b \in Ids, StartOk(k, b) PROVE ApartInv'
  <2>1. cache[k] = NoBackend
    BY <1>1 DEF StartOk, IInv, PhaseInv, ServeInv
  <2>2. b \notin DOMAIN built \cup {NoBackend} /\ DOMAIN built' = DOMAIN built \cup {b}
    BY <1>1, <2>1, FactoryDomain, NoIdZero DEF StartOk, IInv
  <2>3. \A j \in Kinds : current[j] # b
    BY <2>2 DEF IInv, TypeOK, BuiltInv, ServeInv
  <2> QED
    BY <1>1, <2>3 DEF StartOk, IInv, TypeOK, ApartInv
<1>2. ASSUME NEW k \in Kinds, NEW d \in BOOLEAN, EndDrain(k, d) PROVE ApartInv'
  BY <1>2 DEF EndDrain, IInv, TypeOK, ApartInv
<1>3. ASSUME NEW k \in Kinds, NEW b \in Ids, BuildOk(k, b) PROVE ApartInv'
  <2>1. cache[k] = NoBackend
    BY <1>3 DEF BuildOk, IInv, PhaseInv, ServeInv
  <2>2. b \notin DOMAIN built \cup {NoBackend} /\ DOMAIN built' = DOMAIN built \cup {b}
    BY <1>3, <2>1, FactoryDomain, NoIdZero DEF BuildOk, IInv
  <2>3. \A j \in Kinds : current[j] # b
    BY <2>2 DEF IInv, TypeOK, BuiltInv, ServeInv
  <2> QED
    BY <1>3, <2>3 DEF BuildOk, IInv, TypeOK, ApartInv
<1>4. ASSUME NEW k \in Kinds, NEW b \in Ids, RollbackOk(k, b) PROVE ApartInv'
  <2>1. cache[k] = NoBackend
    BY <1>4 DEF RollbackOk, IInv, PhaseInv, ServeInv
  <2>2. b \notin DOMAIN built \cup {NoBackend} /\ DOMAIN built' = DOMAIN built \cup {b}
    BY <1>4, <2>1, FactoryDomain, NoIdZero DEF RollbackOk, IInv
  <2>3. \A j \in Kinds : current[j] # b
    BY <2>2 DEF IInv, TypeOK, BuiltInv, ServeInv
  <2> QED
    BY <1>4, <2>3 DEF RollbackOk, IInv, TypeOK, ApartInv
<1>5. ASSUME NEW k \in Kinds, NEW b \in Ids, RollbackPreloadFail(k, b) PROVE ApartInv'
  BY <1>5 DEF RollbackPreloadFail, IInv, TypeOK, ApartInv
<1>6. ASSUME NEW k \in Kinds, RollbackFail(k) PROVE ApartInv'
  BY <1>6 DEF RollbackFail, IInv, TypeOK, ApartInv
<1>7. CASE UNCHANGED <<current>>
  BY <1>7 DEF IInv, ApartInv
<1> QED
  BY <1>1, <1>2, <1>3, <1>4, <1>5, <1>6, <1>7
  DEF Next, ReloadStep, vars, StartPreloadFail, StartFail, Acquire, Release,
      WsAccept, WsBind, WsEnd, BeginReload, CloseSocket, PreloadFail,
      BuildFail

\* A request holds its manager's backend, or one unloaded after a drain timeout.
LEMMA HoldStep == IInv /\ TypeOK' /\ [Next]_vars => HoldInv'
<1> SUFFICES ASSUME IInv, TypeOK', [Next]_vars PROVE HoldInv'
  OBVIOUS
<1> USE DEF NoBackend, NoKind
<1>1. ASSUME NEW r \in Requests, NEW k \in Kinds, Acquire(r, k) PROVE HoldInv'
  BY <1>1, KindsAssumption DEF Acquire, IsReady, IInv, TypeOK, HoldInv, Nothing
<1>2. ASSUME NEW r \in Requests, Release(r) PROVE HoldInv'
  BY <1>2 DEF Release, IInv, TypeOK, HoldInv, Nothing
<1>3. ASSUME NEW k \in Kinds, NEW b \in Ids, StartOk(k, b) PROVE HoldInv'
  <2>1. current[k] = NoBackend
    BY <1>3 DEF StartOk, IInv, PhaseInv, ServeInv
  <2> QED
    BY <1>3, <2>1 DEF StartOk, IInv, TypeOK, HoldInv
<1>4. ASSUME NEW k \in Kinds, NEW d \in BOOLEAN, EndDrain(k, d) PROVE HoldInv'
  <2>1. \A q \in Requests : holds[q].kind = k /\ d => FALSE
    <3> SUFFICES ASSUME NEW q \in Requests, holds[q].kind = k, d PROVE FALSE
      OBVIOUS
    <3>1. inflight[k] = 0
      BY <1>4 DEF EndDrain, DrainOver
    <3>2. Cardinality(Holders(k)) = 0
      BY <3>1 DEF IInv, HoldersCounted
    <3>3. Holders(k) = {}
      BY <3>2, HoldersFinite, FS_EmptySet
    <3> QED BY <3>3 DEF Holders
  <2>2. current[k] = rl[k].old
    BY <1>4 DEF EndDrain, IInv, PhaseInv
  <2> QED
    BY <1>4, <2>1, <2>2 DEF EndDrain, IInv, TypeOK, HoldInv
<1>5. ASSUME NEW k \in Kinds, NEW b \in Ids, BuildOk(k, b) PROVE HoldInv'
  <2>1. current[k] = NoBackend
    BY <1>5 DEF BuildOk, IInv, PhaseInv, ServeInv
  <2> QED
    BY <1>5, <2>1 DEF BuildOk, IInv, TypeOK, HoldInv
<1>6. ASSUME NEW k \in Kinds, NEW b \in Ids, RollbackOk(k, b) PROVE HoldInv'
  <2>1. current[k] = NoBackend
    BY <1>6 DEF RollbackOk, IInv, PhaseInv, ServeInv
  <2> QED
    BY <1>6, <2>1 DEF RollbackOk, IInv, TypeOK, HoldInv
<1>7. ASSUME NEW k \in Kinds, NEW b \in Ids, RollbackPreloadFail(k, b) PROVE HoldInv'
  BY <1>7 DEF RollbackPreloadFail, IInv, TypeOK, HoldInv, PhaseInv, ServeInv
<1>8. ASSUME NEW k \in Kinds, RollbackFail(k) PROVE HoldInv'
  BY <1>8 DEF RollbackFail, IInv, TypeOK, HoldInv, PhaseInv, ServeInv
<1>9. CASE UNCHANGED <<holds, forced, current>>
  BY <1>9 DEF IInv, HoldInv
<1> QED
  BY <1>1, <1>2, <1>3, <1>4, <1>5, <1>6, <1>7, <1>8, <1>9
  DEF Next, ReloadStep, vars, StartPreloadFail, StartFail, WsAccept, WsBind,
      WsEnd, BeginReload, CloseSocket, PreloadFail, BuildFail

\* An open registered session is bound to the serving backend at most, and is on
\* the list of a reload that is closing sessions.
LEMMA SessionStep == IInv /\ TypeOK' /\ [Next]_vars => SessionInv'
<1> SUFFICES ASSUME IInv, TypeOK', [Next]_vars PROVE SessionInv'
  OBVIOUS
<1> USE DEF NoBackend, NoKind
<1>1. ASSUME NEW k \in Kinds, NEW b \in Ids, StartOk(k, b) PROVE SessionInv'
  BY <1>1 DEF StartOk, IInv, TypeOK, SessionInv, PhaseInv
<1>2. ASSUME NEW k \in Kinds, NEW b \in Ids, StartPreloadFail(k, b) PROVE SessionInv'
  BY <1>2 DEF StartPreloadFail, IInv, TypeOK, SessionInv, PhaseInv
<1>3. ASSUME NEW k \in Kinds, StartFail(k) PROVE SessionInv'
  BY <1>3 DEF StartFail, IInv, TypeOK, SessionInv, PhaseInv
<1>4. ASSUME NEW s \in Sockets, WsAccept(s) PROVE SessionInv'
  BY <1>4 DEF WsAccept, IInv, TypeOK, SessionInv, NoSession, IsReady, PhaseInv, Session
<1>5. ASSUME NEW s \in Sockets, WsBind(s) PROVE SessionInv'
  <2>1. PICK ks \in SUBSET Kinds :
          /\ \A k \in ks : cache[k] \in live
          /\ ws' = [ws EXCEPT ![s].st = "bound",
               ![s].be = [k \in Kinds |-> IF k \in ks THEN cache[k] ELSE NoBackend]]
    BY <1>5 DEF WsBind
  <2> DEFINE f == [k \in Kinds |-> IF k \in ks THEN cache[k] ELSE NoBackend]
  <2>a. ws'[s] = [ws[s] EXCEPT !.st = "bound", !.be = f] /\ ws[s] \in Session
    BY <2>1 DEF IInv, TypeOK
  <2>b. ws'[s].reg = ws[s].reg /\ ws'[s].be = f
    BY <2>a DEF Session
  <2>2. /\ ws'[s].reg = ws[s].reg /\ ws[s].st # "closing"
        /\ \A k \in Kinds : ws'[s].be[k] = IF k \in ks THEN cache[k] ELSE NoBackend
    BY <1>5, <2>b DEF WsBind
  <2>3. \A q \in Sockets \ {s} : ws'[q] = ws[q]
    BY <2>1 DEF IInv, TypeOK
  <2>4. UNCHANGED <<rl, state, current>>
    BY <1>5 DEF WsBind
  <2>5. \A k \in ks : cache[k] = current[k]
    BY <2>1 DEF IInv, ServeInv
  <2> QED
    BY <2>2, <2>3, <2>4, <2>5 DEF IInv, SessionInv
<1>6. ASSUME NEW s \in Sockets, WsEnd(s) PROVE SessionInv'
  BY <1>6 DEF WsEnd, IInv, TypeOK, SessionInv, NoSession
<1>7. ASSUME NEW k \in Kinds, NEW ref \in Profiles, BeginReload(k, ref) PROVE SessionInv'
  BY <1>7 DEF BeginReload, IInv, TypeOK, SessionInv, Handles, IsReady, PhaseInv, LoopInv
<1>8. ASSUME NEW k \in Kinds, NEW s \in Sockets, CloseSocket(k, s) PROVE SessionInv'
  BY <1>8 DEF CloseSocket, IInv, TypeOK, SessionInv, Session, Reload
<1>9. ASSUME NEW k \in Kinds, NEW d \in BOOLEAN, EndDrain(k, d) PROVE SessionInv'
  BY <1>9 DEF EndDrain, IInv, TypeOK, SessionInv, Reload, PhaseInv
<1>10. ASSUME NEW k \in Kinds, NEW b \in Ids, BuildOk(k, b) PROVE SessionInv'
  BY <1>10 DEF BuildOk, IInv, TypeOK, SessionInv, PhaseInv, Finish, Reload
<1>11. ASSUME NEW k \in Kinds, NEW b \in Ids, PreloadFail(k, b) PROVE SessionInv'
  BY <1>11 DEF PreloadFail, IInv, TypeOK, SessionInv, PhaseInv
<1>12. ASSUME NEW k \in Kinds, BuildFail(k) PROVE SessionInv'
  BY <1>12 DEF BuildFail, IInv, TypeOK, SessionInv, PhaseInv
<1>13. ASSUME NEW k \in Kinds, NEW b \in Ids, RollbackOk(k, b) PROVE SessionInv'
  BY <1>13 DEF RollbackOk, IInv, TypeOK, SessionInv, PhaseInv, Finish, Reload
<1>14. ASSUME NEW k \in Kinds, NEW b \in Ids, RollbackPreloadFail(k, b) PROVE SessionInv'
  BY <1>14 DEF RollbackPreloadFail, IInv, TypeOK, SessionInv, PhaseInv, Finish, Reload
<1>15. ASSUME NEW k \in Kinds, RollbackFail(k) PROVE SessionInv'
  BY <1>15 DEF RollbackFail, IInv, TypeOK, SessionInv, PhaseInv, Finish, Reload
<1>16. CASE UNCHANGED <<ws, rl, state, current>>
  BY <1>16 DEF IInv, SessionInv
<1> QED
  BY <1>1, <1>2, <1>3, <1>4, <1>5, <1>6, <1>7, <1>8, <1>9, <1>10, <1>11,
     <1>12, <1>13, <1>14, <1>15, <1>16
  DEF Next, ReloadStep, vars, Acquire, Release

\* The server starts in the invariant.
LEMMA InitInv == Init => IInv
<1> SUFFICES ASSUME Init PROVE IInv
  OBVIOUS
<1> USE DEF NoBackend, NoKind
<1>1. TypeOK
  <2>1. rl \in [Kinds -> Reload]
    BY ProfileAssumption DEF Init, Reload, Phases
  <2>2. ws \in [Sockets -> Session]
    BY DEF Init, Session, NoSession
  <2>3. holds \in [Requests -> Held]
    BY DEF Init, Held, Nothing
  <2>4. DOMAIN built = {} /\ built \in [DOMAIN built -> Profiles]
    BY DEF Init
  <2>5. /\ state \in [Kinds -> States]
        /\ current \in [Kinds -> Ids \cup {NoBackend}]
        /\ cache \in [Kinds -> Ids \cup {NoBackend}]
        /\ inflight \in [Kinds -> Nat]
        /\ lastRef \in [Kinds -> Profiles] /\ profile \in Profiles
        /\ live = {} /\ dead = {} /\ forced = {} /\ loop = NoKind
        /\ reloads \in 0 .. MaxReloads
    BY ProfileAssumption, BoundAssumption DEF Init, States
  <2> QED
    BY <2>1, <2>2, <2>3, <2>4, <2>5 DEF TypeOK
<1>2. HoldersCounted
  <2>1. \A k \in Kinds : Holders(k) = {}
    BY KindsAssumption DEF Init, Holders, Nothing
  <2> QED
    BY <2>1, FS_EmptySet DEF Init, HoldersCounted
<1>3. BuiltInv /\ LoopInv /\ PhaseInv
  BY KindsAssumption DEF Init, BuiltInv, LoopInv, PhaseInv
<1>4. ServeInv /\ ApartInv
  BY DEF Init, ServeInv, ApartInv
<1>5. HoldInv /\ SessionInv
  BY DEF Init, HoldInv, SessionInv, NoSession
<1> QED
  BY <1>1, <1>2, <1>3, <1>4, <1>5 DEF IInv

\* Every step of the coordinator, of a reload and of a session keeps the invariant.
LEMMA InvStep == IInv /\ [Next]_vars => IInv'
<1>1. IInv /\ [Next]_vars => TypeOK'
  BY TypeStep DEF IInv
<1> QED
  BY <1>1, CountStep, BuiltStep, LoopStep, PhaseStep, ServeStep, ApartStep,
     HoldStep, SessionStep
  DEF IInv

-----------------------------------------------------------------------------
(* The theorems *)

\* Type correctness: every variable keeps its type.
THEOREM TypeCorrect == Spec => []TypeOK
<1>1. Init => TypeOK
  BY InitInv DEF IInv
<1> QED BY <1>1, TypeStep, PTL DEF Spec

\* The strengthening of the safety invariants is an invariant of the system.
THEOREM Invariance == Spec => []IInv
BY InitInv, InvStep, PTL DEF Spec

\* _inflight_http equals the number of requests inside acquire(), for any
\* number of managers, requests and reloads.
THEOREM CountCorrect == Spec => []HoldersCounted
<1>1. IInv => HoldersCounted
  BY DEF IInv
<1> QED BY <1>1, Invariance, PTL

\* reload() unloads no backend under a request, except after a drain timeout.
THEOREM DrainCorrect == Spec => []UnloadedOnlyAfterDrain
<1>1. IInv => UnloadedOnlyAfterDrain
  <2> SUFFICES ASSUME IInv, NEW r \in Requests, holds[r].be \in dead
               PROVE  holds[r].be \in forced
    BY DEF UnloadedOnlyAfterDrain
  <2>1. holds[r].be # NoBackend
    BY NoIdZero DEF IInv, BuiltInv, TypeOK
  <2>2. holds[r] # Nothing
    BY <2>1 DEF Nothing
  <2> QED
    BY <2>1, <2>2 DEF IInv, HoldInv, ServeInv
<1> QED BY <1>1, Invariance, PTL

\* A READY manager serves a preloaded backend that was never unloaded, and the
\* module global holds the same one.
THEOREM ServeCorrect == Spec => []ReadyServesLive
<1>1. IInv => ReadyServesLive
  BY DEF IInv, ServeInv, ReadyServesLive
<1> QED BY <1>1, Invariance, PTL

\* A registered session is told to close before its backend is unloaded.
THEOREM CloseCorrect == Spec => []RegisteredClosedFirst
<1>1. IInv => RegisteredClosedFirst
  <2> SUFFICES ASSUME IInv, NEW s \in Sockets, NEW k \in Kinds, k \in ws[s].reg,
                      ws[s].be[k] \in dead, ws[s].st # "closing"
               PROVE  FALSE
    BY DEF RegisteredClosedFirst
  <2>1. NoBackend \notin dead
    BY NoIdZero DEF IInv, BuiltInv, TypeOK
  <2> QED
    BY <2>1 DEF IInv, SessionInv, ServeInv
<1> QED BY <1>1, Invariance, PTL

-----------------------------------------------------------------------------
(* The managers implement BackendService *)

Ready == {k \in Kinds : state[k] = "ready"}
Retired == dead \cap live

\* Who uses the backend that a manager serves came in through this manager.
LEMMA UsersAreHolders ==
  ASSUME IInv, NEW k \in Kinds, current[k] # NoBackend, state[k] \in {"ready", "draining"}
  PROVE  Service!Users(current[k]) \subseteq Holders(k)
<1> SUFFICES ASSUME NEW r \in Requests, holds[r] # Nothing, holds[r].be = current[k]
             PROVE  r \in Holders(k)
  BY DEF Service!Users
<1>1. current[k] \notin forced
  BY DEF IInv, ServeInv, BuiltInv
<1>2. holds[r].kind \in Kinds /\ holds[r].be = current[holds[r].kind]
  BY <1>1 DEF IInv, HoldInv
<1>3. holds[r].kind = k
  BY <1>2 DEF IInv, ApartInv
<1> QED
  BY <1>3 DEF Holders

\* A backend that comes up while its manager has none was never served.
LEMMA ComesUp ==
  ASSUME IInv, NEW k \in Kinds, NEW b \in Ids,
         state[k] \in {"init", "reloading"}, cache[k] = NoBackend => Fresh(b),
         current' = [current EXCEPT ![k] = b], state' = [state EXCEPT ![k] = "ready"],
         live' = live \cup {b}, UNCHANGED <<holds, dead, forced>>
  PROVE  Service!Serve(k, b)
<1>1. cache[k] = NoBackend /\ current[k] = NoBackend
  BY DEF IInv, ServeInv
<1>2. b \notin DOMAIN built
  BY <1>1 DEF Fresh
<1>3. b \notin live /\ b \notin dead
  BY <1>2 DEF IInv, BuiltInv
<1>4. Ready' = Ready \cup {k}
  BY DEF Ready, IInv, TypeOK
<1>5. Retired' = Retired
  BY <1>3 DEF Retired
<1> QED
  BY <1>1, <1>3, <1>4, <1>5 DEF Service!Serve, Ready, Retired

\* Every step of the managers is a step of the service or changes nothing of it.
LEMMA ServiceStep ==
  ASSUME IInv, [Next]_vars
  PROVE  [Service!Next]_<<current, Ready, holds, live, Retired, forced>>
<1> DEFINE Step == [Service!Next]_<<current, Ready, holds, live, Retired, forced>>
<1> SUFFICES Step
  OBVIOUS
<1>0. ASSUME UNCHANGED <<current, holds, live, forced>>, Ready' = Ready, Retired' = Retired
      PROVE  Step
  BY <1>0
<1>00. ASSUME UNCHANGED <<current, holds, live, forced, state, dead>> PROVE Step
  BY <1>00, <1>0 DEF Ready, Retired
<1>01. ASSUME Service!Next PROVE Step
  BY <1>01
<1> HIDE DEF Step
<1>1. ASSUME NEW k \in Kinds, NEW b \in Ids, StartOk(k, b) PROVE Step
  <2>1. Service!Serve(k, b)
    BY <1>1, ComesUp DEF StartOk, Factory
  <2> QED
    BY <2>1, <1>01 DEF Service!Next
<1>2. ASSUME NEW k \in Kinds, StartFail(k) \/ \E b \in Ids : StartPreloadFail(k, b) PROVE Step
  <2>1. Ready' = Ready
    BY <1>2 DEF StartFail, StartPreloadFail, Ready, IInv, TypeOK
  <2> QED
    BY <1>2, <2>1, <1>0 DEF StartFail, StartPreloadFail, Retired
<1>3. ASSUME NEW r \in Requests, NEW k \in Kinds, Acquire(r, k) PROVE Step
  <2>1. Service!Enter(r, k)
    BY <1>3 DEF Acquire, IsReady, Service!Enter
  <2> QED
    BY <2>1, <1>01 DEF Service!Next
<1>4. ASSUME NEW r \in Requests, Release(r) PROVE Step
  <2>1. Service!Leave(r)
    BY <1>4 DEF Release, Service!Leave
  <2> QED
    BY <2>1, <1>01 DEF Service!Next
<1>5. ASSUME NEW s \in Sockets, WsAccept(s) \/ WsBind(s) \/ WsEnd(s) PROVE Step
  BY <1>5, <1>00 DEF WsAccept, WsBind, WsEnd
<1>6. ASSUME NEW k \in Kinds, NEW ref \in Profiles, BeginReload(k, ref) PROVE Step
  <2>1. k \in Ready /\ Ready' = Ready \ {k}
    BY <1>6 DEF BeginReload, IsReady, Ready, IInv, TypeOK
  <2>2. Service!Close(k)
    BY <1>6, <2>1 DEF BeginReload, Service!Close, Ready, Retired
  <2> QED
    BY <2>2, <1>01 DEF Service!Next
<1>7. ASSUME NEW k \in Kinds, NEW s \in Sockets, CloseSocket(k, s) PROVE Step
  BY <1>7, <1>00 DEF CloseSocket
<1>8. ASSUME NEW k \in Kinds, NEW drained \in BOOLEAN, EndDrain(k, drained) PROVE Step
  <2>1. /\ state[k] = "draining" /\ rl[k].old = current[k] /\ current[k] \in live \ dead
        /\ current[k] # NoBackend
    BY <1>8, NoIdZero DEF EndDrain, IInv, PhaseInv, ServeInv, BuiltInv, TypeOK
  <2>2. Ready' = Ready /\ k \notin Ready
    BY <1>8, <2>1 DEF EndDrain, Ready, IInv, TypeOK
  <2>3. Retired' = Retired \cup {current[k]}
    BY <1>8, <2>1 DEF EndDrain, Retired
  <2>4. drained => Service!Users(current[k]) = {}
    <3> SUFFICES ASSUME drained PROVE Service!Users(current[k]) = {}
      OBVIOUS
    <3>1. Cardinality(Holders(k)) = 0
      BY <1>8 DEF EndDrain, DrainOver, IInv, HoldersCounted
    <3>2. Holders(k) = {}
      BY <3>1, HoldersFinite, FS_EmptySet
    <3> QED
      BY <3>2, <2>1, UsersAreHolders
  <2>5. forced' = forced \/ forced' = forced \cup {current[k]}
    BY <1>8, <2>1 DEF EndDrain
  <2>6. forced' = forced => drained \/ current[k] \in forced
    BY <1>8, <2>1 DEF EndDrain
  <2>7. current[k] \notin forced
    BY <2>1 DEF IInv, BuiltInv
  <2>8. /\ current' = [current EXCEPT ![k] = NoBackend]
        /\ UNCHANGED <<holds, live>>
    BY <1>8 DEF EndDrain
  <2>9. Service!Retire(k)
    BY <2>1, <2>2, <2>3, <2>4, <2>5, <2>6, <2>7, <2>8 DEF Service!Retire, Ready, Retired
  <2> QED
    BY <2>9, <1>01 DEF Service!Next
<1>9. ASSUME NEW k \in Kinds, NEW b \in Ids, BuildOk(k, b) PROVE Step
  <2>1. state[k] = "reloading"
    BY <1>9 DEF BuildOk, IInv, PhaseInv
  <2>2. Service!Serve(k, b)
    BY <1>9, <2>1, ComesUp DEF BuildOk, Factory
  <2> QED
    BY <2>2, <1>01 DEF Service!Next
<1>10. ASSUME NEW k \in Kinds, NEW b \in Ids, PreloadFail(k, b) PROVE Step
  <2>1. cache[k] = NoBackend
    BY <1>10 DEF PreloadFail, IInv, PhaseInv, ServeInv
  <2>2. b \notin live
    BY <1>10, <2>1 DEF PreloadFail, Factory, Fresh, IInv, BuiltInv
  <2> QED
    BY <1>10, <2>2, <1>0 DEF PreloadFail, Ready, Retired
<1>11. ASSUME NEW k \in Kinds, BuildFail(k) PROVE Step
  BY <1>11, <1>00 DEF BuildFail
<1>12. ASSUME NEW k \in Kinds, NEW b \in Ids, RollbackOk(k, b) PROVE Step
  <2>1. state[k] = "reloading"
    BY <1>12 DEF RollbackOk, IInv, PhaseInv
  <2>2. Service!Serve(k, b)
    BY <1>12, <2>1, ComesUp DEF RollbackOk, Factory
  <2> QED
    BY <2>2, <1>01 DEF Service!Next
<1>13. ASSUME NEW k \in Kinds,
              RollbackFail(k) \/ \E b \in Ids : RollbackPreloadFail(k, b)
       PROVE  Step
  <2>1. state[k] = "reloading" /\ current[k] = NoBackend
    BY <1>13 DEF RollbackFail, RollbackPreloadFail, IInv, PhaseInv, ServeInv
  <2>2. current' = current
    BY <1>13, <2>1 DEF RollbackFail, RollbackPreloadFail, IInv, TypeOK
  <2>3. Ready' = Ready
    BY <1>13, <2>1 DEF RollbackFail, RollbackPreloadFail, Ready, IInv, TypeOK
  <2> QED
    BY <1>13, <2>2, <2>3, <1>0 DEF RollbackFail, RollbackPreloadFail, Retired
<1>14. CASE UNCHANGED vars
  BY <1>14, <1>00 DEF vars
<1> QED
  BY <1>1, <1>2, <1>3, <1>4, <1>5, <1>6, <1>7, <1>8, <1>9, <1>10, <1>11, <1>12, <1>13, <1>14
  DEF Next, ReloadStep

\* The managers are a BackendService, for any number of managers, requests, sessions,
\* profiles and reloads: what the endpoints of app/main.py get from acquire().
THEOREM ServiceImplemented == Spec => ServiceSpec
<1>1. Init => Service!Init
  BY DEF Init, Service!Init
<1>2. IInv /\ [Next]_vars => [Service!Next]_<<current, Ready, holds, live, Retired, forced>>
  BY ServiceStep
<1> QED
  BY <1>1, <1>2, Invariance, PTL DEF Spec, ServiceSpec, Service!Spec, Ready, Retired
=============================================================================
