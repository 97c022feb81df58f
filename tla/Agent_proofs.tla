---------------------------- MODULE Agent_proofs ----------------------------
(***************************************************************************)
(* TLAPS proofs about the agent (SlvClient, Conversation, LlmClient,       *)
(* AgentLife, Dialogue): the client of the speech server never leaks a     *)
(* socket, every request to the language model is a well-formed            *)
(* conversation, a turn speaks what one call of the model said, the gate   *)
(* closes only after enough failures, shutdown() leaves no pump and no     *)
(* stream behind, and nobody waits for a turn that was not told to end,    *)
(* for any callers, budgets, thresholds and numbers of calls.              *)
(***************************************************************************)
EXTENDS SlvClient, Conversation, LlmClient, AgentLife, Dialogue,
        FiniteSetTheorems, SequenceTheorems, WellFoundedInduction, TLAPS

-----------------------------------------------------------------------------
(* SlvClient *)

\* Where a caller is while it holds the lock of the connection.
Held == {"gone", "open", "config", "grace", "opened", "failed"}
\* Only the holder of _send_lock opens a socket, and it starts without one.
SockInv ==
  /\ cPc \in [Callers -> Held \cup {"start", "idle", "lock", "events", "over"}]
  /\ \A a \in Callers : cPc[a] \in Held => cLock = a
  /\ cPc["disp"] = "start" => cPc["wake"] = "idle" /\ cPc["mic"] = "idle"
  /\ NoSock \notin cOpen
  /\ ~cClosed => cOpen \subseteq {cWs}
  /\ ~cClosed => \A a \in Callers : cPc[a] \in {"gone", "open"} => cWs = NoSock

\* The least member of a set of numbers.
LEMMA MinExists ==
  ASSUME NEW S \in SUBSET Nat, S # {}
  PROVE  Min(S) \in S /\ \A y \in S : Min(S) <= y
<1>1. PICK x \in S : \A y \in S : ~ (<<y, x>> \in OpToRel(<, Nat))
  BY NatLessThanWellFounded, WFMin
<1>2. \A y \in S : ~(y < x)
  BY <1>1 DEF OpToRel
<1>3. \A y \in S : x <= y
  BY <1>2
<1> QED
  BY <1>3 DEF Min

\* A step of caller a.
LEMMA CallerMoves ==
  ASSUME SockInv, NEW a \in Callers,
         NEW p \in Held \cup {"idle", "lock", "events", "over"},
         cPc' = [cPc EXCEPT ![a] = p],
         cPc[a] # "start",
         p \in Held => cLock' = a,
         cLock' = cLock \/ cLock \in {a, NobodyHolds},
         a # "disp" => cPc["disp"] # "start"
  PROVE  /\ cPc' \in [Callers -> Held \cup {"start", "idle", "lock", "events", "over"}]
         /\ \A b \in Callers : cPc'[b] \in Held => cLock' = b
         /\ cPc'["disp"] = "start" => cPc'["wake"] = "idle" /\ cPc'["mic"] = "idle"
         /\ \A b \in Callers : cPc'[b] = IF b = a THEN p ELSE cPc[b]
         /\ cLock \in {a, NobodyHolds} => \A b \in Callers : b # a => cPc[b] \notin Held
<1>0. NobodyHolds \notin Callers /\ {"disp", "wake", "mic"} = Callers
  BY DEF NobodyHolds, Callers
<1>1. cPc \in [Callers -> Held \cup {"start", "idle", "lock", "events", "over"}]
      /\ \A b \in Callers : cPc[b] \in Held => cLock = b
  BY DEF SockInv
<1>2. cPc' \in [Callers -> Held \cup {"start", "idle", "lock", "events", "over"}]
  BY <1>1
<1>3. \A b \in Callers : cPc'[b] = IF b = a THEN p ELSE cPc[b]
  BY <1>1
<1>4. cLock \in {a, NobodyHolds} => \A b \in Callers : b # a => cPc[b] \notin Held
  BY <1>0, <1>1
<1>5. \A b \in Callers : cPc'[b] \in Held => cLock' = b
  BY <1>1, <1>3, <1>4
<1>6. cPc'["disp"] # "start"
  <2>1. "disp" \in Callers
    BY DEF Callers
  <2>2. p # "start"
    BY DEF Held
  <2> QED
    BY <1>3, <2>1, <2>2
<1> QED
  BY <1>2, <1>3, <1>4, <1>5, <1>6

\* Where nobody but a may be opening, the sockets are a's business.
LEMMA CallerOpens ==
  ASSUME SockInv, NEW a \in Callers,
         NEW p \in Held \cup {"idle", "lock", "events", "over"},
         cPc' = [cPc EXCEPT ![a] = p], cPc[a] # "start",
         p \in Held => cLock' = a,
         cLock \in {a, NobodyHolds},
         a # "disp" => cPc["disp"] # "start",
         NoSock \notin cOpen',
         ~cClosed' => ~cClosed,
         ~cClosed' => cOpen' \subseteq {cWs'},
         ~cClosed' => (p \in {"gone", "open"} => cWs' = NoSock)
  PROVE  SockInv'
<1>1. /\ cPc' \in [Callers -> Held \cup {"start", "idle", "lock", "events", "over"}]
      /\ \A b \in Callers : cPc'[b] \in Held => cLock' = b
      /\ cPc'["disp"] = "start" => cPc'["wake"] = "idle" /\ cPc'["mic"] = "idle"
      /\ \A b \in Callers : cPc'[b] = IF b = a THEN p ELSE cPc[b]
      /\ \A b \in Callers : b # a => cPc[b] \notin Held
  BY CallerMoves
<1>2. ASSUME ~cClosed' PROVE \A b \in Callers : cPc'[b] \in {"gone", "open"} => cWs' = NoSock
  BY <1>1, <1>2 DEF Held
<1> QED
  BY <1>1, <1>2 DEF SockInv

\* A step of a that leaves the sockets alone, and begins no opening.
LEMMA CallerWaits ==
  ASSUME SockInv, NEW a \in Callers,
         NEW p \in {"config", "grace", "opened", "failed", "idle", "lock", "events", "over"},
         cPc' = [cPc EXCEPT ![a] = p], cPc[a] # "start",
         p \in Held => cLock' = a,
         cLock' = cLock \/ cLock \in {a, NobodyHolds},
         a # "disp" => cPc["disp"] # "start",
         cOpen' = cOpen, cWs' = cWs, ~cClosed' => ~cClosed
  PROVE  SockInv'
<1>0. p \in Held \cup {"idle", "lock", "events", "over"} /\ p \notin {"gone", "open"}
  BY DEF Held
<1>1. /\ cPc' \in [Callers -> Held \cup {"start", "idle", "lock", "events", "over"}]
      /\ \A b \in Callers : cPc'[b] \in Held => cLock' = b
      /\ cPc'["disp"] = "start" => cPc'["wake"] = "idle" /\ cPc'["mic"] = "idle"
      /\ \A b \in Callers : cPc'[b] = IF b = a THEN p ELSE cPc[b]
  BY <1>0, CallerMoves
<1>2. ASSUME ~cClosed' PROVE \A b \in Callers : cPc'[b] \in {"gone", "open"} => cWs' = NoSock
  BY <1>0, <1>1, <1>2 DEF SockInv
<1> QED
  BY <1>1, <1>2 DEF SockInv

\* Every step of the client keeps the invariant.
LEMMA SockStep ==
  ASSUME SockInv, [CNext]_cVars
  PROVE  SockInv'
<1> USE DEF cSelf, cNet, CGoto
<1>0. \A a \in Callers : cPc[a] \notin {"start", "idle"} => (cPc["disp"] = "start" => a = "disp")
  BY DEF SockInv, Callers
<1>00. \A a \in Callers : cPc[a] \in Held => cLock = a /\ cPc[a] # "start" /\ (a # "disp"
       => cPc["disp"] # "start")
  BY <1>0 DEF SockInv, Held
<1>1. ASSUME NEW a \in Callers, Opening(a) PROVE SockInv'
  <2>0. cPc[a] \in Held
    BY <1>1 DEF Opening, OpenRaises, OpenSocket, SendConfig, ConfigRefused, GraceDies,
                GraceSurvived, ReconOpens, ReconReturns, Held
  <2>1. cLock = a /\ cPc[a] # "start" /\ (a # "disp" => cPc["disp"] # "start")
    BY <1>00, <2>0
  <2>2. CASE OpenRaises(a)
    <3>1. cPc' = [cPc EXCEPT ![a] = "failed"] /\ cLock' = cLock /\ cOpen' = cOpen
          /\ cWs' = cWs /\ cClosed' = cClosed
      BY <2>2 DEF OpenRaises
    <3> QED
      BY <2>1, <3>1, CallerWaits
  <2>3. CASE OpenSocket(a)
    <3> DEFINE s == Min(Unused)
    <3>1. /\ cPc[a] = "open" /\ cPc' = [cPc EXCEPT ![a] = "config"] /\ cLock' = cLock
             /\ cClosed' = cClosed
          /\ cWs' = s /\ cOpen' = cOpen \cup {s} /\ Unused # {}
      BY <2>3 DEF OpenSocket
    <3>2. Unused \in SUBSET Nat /\ Unused \subseteq Socks
      BY SlvSocks DEF Unused, Socks
    <3>3. s \in Socks
      BY <3>1, <3>2, MinExists
    <3>4. s # NoSock
      BY <3>3, SlvSocks DEF Socks, NoSock
    <3> HIDE DEF s
    <3>5. NoSock \notin cOpen' /\ (~cClosed' => cOpen' \subseteq {cWs'})
      BY <3>1, <3>4 DEF SockInv
    <3>6. "config" \in Held
      BY DEF Held
    <3> QED
      BY <2>1, <3>1, <3>5, <3>6, CallerOpens
  <2>4. CASE SendConfig(a)
    <3>1. cPc' = [cPc EXCEPT ![a] = "grace"] /\ cLock' = cLock /\ cOpen' = cOpen
          /\ cWs' = cWs /\ cClosed' = cClosed
      BY <2>4 DEF SendConfig
    <3> QED
      BY <2>1, <3>1, CallerWaits
  <2>5. CASE ConfigRefused(a) \/ GraceDies(a)
    <3>1. /\ cLock' = cLock /\ cClosed' = cClosed /\ cWs' = NoSock /\ cOpen' = cOpen \ {cWs}
          /\ \E p \in {"open", "failed"} : cPc' = [cPc EXCEPT ![a] = p]
      BY <2>5 DEF ConfigRefused, GraceDies, CloseSock, AttemptFails
    <3>2. NoSock \notin cOpen' /\ (~cClosed' => cOpen' \subseteq {cWs'})
      BY <3>1 DEF SockInv
    <3>3. {"open", "failed"} \subseteq Held
      BY DEF Held
    <3> QED
      BY <2>1, <3>1, <3>2, <3>3, CallerOpens
  <2>6. CASE GraceSurvived(a)
    <3>1. cPc' = [cPc EXCEPT ![a] = "opened"] /\ cLock' = cLock /\ cOpen' = cOpen
          /\ cWs' = cWs /\ cClosed' = cClosed
      BY <2>6 DEF GraceSurvived
    <3> QED
      BY <2>1, <3>1, CallerWaits
  <2>7. CASE ReconOpens(a)
    <3>1. cPc[a] = "gone" /\ cPc' = [cPc EXCEPT ![a] = "open"] /\ cLock' = cLock /\ cOpen' = cOpen
          /\ cWs' = cWs /\ cClosed' = cClosed
      BY <2>7 DEF ReconOpens
    <3>2. NoSock \notin cOpen' /\ (~cClosed' => cOpen' \subseteq {cWs'} /\ cWs' = NoSock)
      BY <3>1 DEF SockInv
    <3>3. "open" \in Held
      BY DEF Held
    <3> QED
      BY <2>1, <3>1, <3>2, <3>3, CallerOpens
  <2>8. CASE ReconReturns(a)
    <3>1. cPc' = [cPc EXCEPT ![a] = After(a)] /\ cOpen' = cOpen /\ cWs' = cWs /\ cClosed' = cClosed
      BY <2>8 DEF ReconReturns
    <3>2. After(a) \in {"events", "idle", "over"} /\ After(a) \notin Held
      BY DEF After, Held, Callers
    <3> QED
      BY <2>1, <3>1, <3>2, CallerWaits
  <2> QED
    BY <1>1, <2>2, <2>3, <2>4, <2>5, <2>6, <2>7, <2>8 DEF Opening
<1>2. ASSUME NEW a \in Callers, ReconBegins(a) PROVE SockInv'
  <2>1. /\ a = "wake" /\ cPc[a] = "idle" /\ cPc["disp"] # "start"
           /\ cPc' = [cPc EXCEPT ![a] = "lock"]
        /\ cLock' = cLock /\ cOpen' = cOpen /\ cWs' = cWs /\ cClosed' = cClosed
    BY <1>2 DEF ReconBegins
  <2>2. "lock" \notin Held
    BY DEF Held
  <2> QED
    BY <2>1, <2>2, CallerWaits
<1>3. ASSUME NEW a \in Callers, ReconLocks(a) PROVE SockInv'
  <2>1. /\ cPc[a] = "lock" /\ cLock = NobodyHolds /\ cLock' = a /\ cPc' = [cPc EXCEPT ![a] = "gone"]
        /\ cOpen' = cOpen \ {cWs} /\ cWs' = NoSock /\ cClosed' = cClosed
    BY <1>3 DEF ReconLocks, DropOld, CloseSock
  <2>2. "gone" \in Held /\ (a # "disp" => cPc["disp"] # "start")
    BY <1>0, <2>1 DEF Held
  <2>3. NoSock \notin cOpen' /\ (~cClosed' => cOpen' \subseteq {cWs'})
    BY <2>1 DEF SockInv
  <2> QED
    BY <2>1, <2>2, <2>3, CallerOpens
<1>4. ASSUME NEW a \in Callers, WaitForTimeout(a) PROVE SockInv'
  <2>1. /\ cPc[a] \in {"lock", "gone", "open", "grace"} /\ cPc' = [cPc EXCEPT ![a] = After(a)]
        /\ cLock' = (IF cLock = a THEN NobodyHolds ELSE cLock)
        /\ cOpen' = cOpen /\ cWs' = cWs /\ cClosed' = cClosed
    BY <1>4 DEF WaitForTimeout
  <2>2. After(a) \in {"events", "idle", "over"} /\ After(a) \notin Held
    BY DEF After, Held, Callers
  <2>3. cPc[a] # "start" /\ (a # "disp" => cPc["disp"] # "start")
    BY <1>0, <2>1
  <2>4. cLock' = cLock \/ cLock \in {a, NobodyHolds}
    BY <2>1
  <2> QED
    BY <2>1, <2>2, <2>3, <2>4, CallerWaits
<1>5. CASE Connect
  <2>1. cPc["disp"] = "start" /\ \A a \in Callers : cPc[a] \notin Held
    BY <1>5 DEF Connect, SockInv, Held, Callers
  <2>2. cPc \in [Callers -> Held \cup {"start", "idle", "lock", "events", "over"}]
        /\ "disp" \in Callers
    BY DEF SockInv, Callers
  <2>3. \E p \in {"events", "over"} : cPc' = [cPc EXCEPT !["disp"] = p]
    BY <1>5 DEF Connect
  <2>4. /\ cPc' \in [Callers -> Held \cup {"start", "idle", "lock", "events", "over"}]
        /\ \A a \in Callers : cPc'[a] \notin Held /\ cPc'["disp"] # "start"
    BY <2>1, <2>2, <2>3 DEF Held
  <2>5. (cOpen' = {1} /\ cWs' = 1) \/ (cClosed' = TRUE /\ cOpen' = cOpen)
    BY <1>5 DEF Connect
  <2>6. NoSock \notin cOpen' /\ (~cClosed' => cOpen' \subseteq {cWs'})
    BY <2>5 DEF SockInv, NoSock
  <2> QED
    BY <2>4, <2>6 DEF SockInv, Held
<1>6. CASE EventsClears \/ \E s \in Socks : ReaderEnds(s) \/ ServerCloses(s) \/ ServerFrees(s)
  <2>1. cPc' = cPc /\ cLock' = cLock /\ cOpen' = cOpen /\ cWs' = cWs /\ cClosed' = cClosed
    BY <1>6 DEF EventsClears, ReaderEnds, ServerCloses, ServerFrees
  <2> QED
    BY <2>1 DEF SockInv
<1>7. CASE ServerGone \/ ServerBack \/ UNCHANGED cVars
  <2>1. cPc' = cPc /\ cLock' = cLock /\ cOpen' = cOpen /\ cWs' = cWs /\ cClosed' = cClosed
    BY <1>7 DEF ServerGone, ServerBack, cVars
  <2> QED
    BY <2>1 DEF SockInv
<1>8. CASE EventsReturn
  <2>1. /\ cPc["disp"] = "events" /\ cLock' = cLock /\ cOpen' = cOpen /\ cWs' = cWs
           /\ cClosed' = cClosed
        /\ \E p \in {"over", "lock"} : cPc' = [cPc EXCEPT !["disp"] = p]
    BY <1>8 DEF EventsReturn
  <2>2. "disp" \in Callers /\ "over" \notin Held /\ "lock" \notin Held
    BY DEF Callers, Held
  <2> QED
    BY <2>1, <2>2, CallerWaits
<1>9. CASE SendBegins
  <2>1. /\ cPc["mic"] = "idle" /\ cPc["disp"] # "start" /\ cPc' = [cPc EXCEPT !["mic"] = "lock"]
        /\ cLock' = cLock /\ cOpen' = cOpen /\ cWs' = cWs /\ cClosed' = cClosed
    BY <1>9 DEF SendBegins
  <2>2. "mic" \in Callers /\ "lock" \notin Held
    BY DEF Callers, Held
  <2> QED
    BY <2>1, <2>2, CallerWaits
<1>10. CASE SendLocked
  <2>1. cPc["mic"] = "lock" /\ cLock = NobodyHolds /\ cClosed' = cClosed
    BY <1>10 DEF SendLocked
  <2>2. "mic" \in Callers /\ "idle" \notin Held /\ "open" \in Held /\ "mic" # "disp"
        /\ cPc["disp"] # "start"
    BY <1>0, <2>1 DEF Callers, Held
  <2>3. CASE cWs # NoSock
    <3>1. /\ cPc' = [cPc EXCEPT !["mic"] = "idle"] /\ cWs' = AfterSend
          /\ cOpen' = cOpen \ ({cWs} \ {AfterSend})
      BY <1>10, <2>3 DEF SendLocked
    <3>2. AfterSend \in {NoSock, cWs}
      BY DEF AfterSend
    <3>3. NoSock \notin cOpen' /\ (~cClosed' => cOpen' \subseteq {cWs'})
      BY <2>1, <3>1, <3>2 DEF SockInv
    <3> QED
      BY <2>1, <2>2, <3>1, <3>3, CallerOpens
  <2>4. CASE cWs = NoSock /\ cClosed
    <3>1. cPc' = [cPc EXCEPT !["mic"] = "idle"] /\ cWs' = cWs /\ cOpen' = cOpen /\ cLock' = cLock
      BY <1>10, <2>4 DEF SendLocked
    <3> QED
      BY <2>1, <2>2, <3>1, CallerWaits
  <2>5. CASE cWs = NoSock /\ ~cClosed
    <3>1. cPc' = [cPc EXCEPT !["mic"] = "open"] /\ cWs' = cWs /\ cOpen' = cOpen /\ cLock' = "mic"
      BY <1>10, <2>5 DEF SendLocked
    <3>2. NoSock \notin cOpen' /\ (~cClosed' => cOpen' \subseteq {cWs'})
      BY <2>1, <3>1 DEF SockInv
    <3> QED
      BY <2>1, <2>2, <2>5, <3>1, <3>2, CallerOpens
  <2> QED
    BY <2>3, <2>4, <2>5
<1>11. CASE CloseClient
  <2>1. cPc' = cPc /\ cLock' = cLock /\ cOpen' = cOpen \ {cWs} /\ cClosed' = TRUE
    BY <1>11 DEF CloseClient, CloseSock
  <2> QED
    BY <2>1 DEF SockInv
<1> QED
  BY <1>1, <1>2, <1>3, <1>4, <1>5, <1>6, <1>7, <1>8, <1>9, <1>10, <1>11
  DEF CNext, Events

\* A client has at most one open socket, and it is the one it refers to: agent
\* slv client, connect(), the reconnects and close().
THEOREM OneSocketCorrect == CSpec => []OneSocket
<1>1. CInit => SockInv
  BY DEF CInit, SockInv, Callers, Held
<1>2. SockInv /\ [CNext]_cVars => SockInv'
  BY SockStep
<1>3. SockInv => OneSocket
  BY DEF SockInv, OneSocket
<1> QED
  BY <1>1, <1>2, <1>3, PTL DEF CSpec

-----------------------------------------------------------------------------
(* Conversation *)

Messages == [role : {"user", "reply", "calls", "result"}, n : Nat]

\* The rounds of a history whose last one lacks m results.
Rounds(h, m) ==
  /\ \A i \in 1 .. Len(h) : h[i].role = "calls" =>
       /\ h[i].n = RoundCalls /\ i + RoundCalls <= Len(h) + m
       /\ \A k \in 1 .. RoundCalls : i + k <= Len(h) => h[i + k].role = "result"
  /\ \A i \in 1 .. Len(h) : h[i].role = "result" =>
       \E k \in 1 .. RoundCalls : i > k /\ h[i - k].role = "calls"
  /\ m > 0 => Len(h) + m > RoundCalls /\ h[Len(h) + m - RoundCalls].role = "calls"

\* The fields of a message.
LEMMA MessagesAre ==
  /\ User \in Messages /\ CallsMsg \in Messages /\ Result \in Messages
  /\ \A n \in 0 .. 1 : Reply(n) \in Messages /\ Reply(n).role = "reply"
  /\ User.role = "user" /\ CallsMsg.role = "calls" /\ CallsMsg.n = RoundCalls
  /\ Result.role = "result"
BY ConversationBounds DEF User, CallsMsg, Result, Reply, Messages

\* What Append does.
LEMMA Appended ==
  ASSUME NEW h \in Seq(Messages), NEW x \in Messages
  PROVE  /\ Append(h, x) \in Seq(Messages) /\ Len(h) \in Nat /\ Len(Append(h, x)) = Len(h) + 1
         /\ \A i \in 1 .. Len(h) : Append(h, x)[i] = h[i]
         /\ Append(h, x)[Len(h) + 1] = x
         /\ \A i \in 1 .. (Len(h) + 1) : i \in 1 .. Len(h) \/ i = Len(h) + 1
         /\ \A i \in 1 .. Len(h) : h[i] \in Messages
<1>1. Len(h) \in Nat
  BY LenProperties
<1>2. /\ Append(h, x) \in Seq(Messages) /\ Len(Append(h, x)) = Len(h) + 1
      /\ \A i \in 1 .. Len(h) : Append(h, x)[i] = h[i]
      /\ Append(h, x)[Len(h) + 1] = x
  BY AppendProperties
<1>3. \A i \in 1 .. (Len(h) + 1) : i \in 1 .. Len(h) \/ i = Len(h) + 1
  BY <1>1
<1>4. \A i \in 1 .. Len(h) : h[i] \in Messages
  BY ElementOfSeq
<1> QED
  BY <1>1, <1>2, <1>3, <1>4

\* The result of a call that the open round still waits for.
LEMMA ResultAppended ==
  ASSUME NEW h \in Seq(Messages), NEW m \in 1 .. RoundCalls, Rounds(h, m)
  PROVE  Rounds(Append(h, Result), m - 1)
<1> DEFINE g == Append(h, Result)
           l == Len(h)
<1>1. /\ g \in Seq(Messages) /\ l \in Nat /\ Len(g) = l + 1
      /\ \A i \in 1 .. l : g[i] = h[i]
      /\ g[l + 1].role = "result"
      /\ \A i \in 1 .. (l + 1) : i \in 1 .. l \/ i = l + 1
  BY Appended, MessagesAre
<1>2. RoundCalls \in Nat \ {0} /\ m \in Nat /\ m >= 1 /\ m <= RoundCalls
  BY ConversationBounds
<1>3. /\ \A i \in 1 .. l : h[i].role = "calls" =>
           /\ h[i].n = RoundCalls /\ i + RoundCalls <= l + m
           /\ \A k \in 1 .. RoundCalls : i + k <= l => h[i + k].role = "result"
      /\ \A i \in 1 .. l : h[i].role = "result" =>
           \E k \in 1 .. RoundCalls : i > k /\ h[i - k].role = "calls"
      /\ l + m > RoundCalls /\ h[l + m - RoundCalls].role = "calls"
  <2>1. m > 0
    BY <1>2
  <2> QED
    BY <2>1, Zenon DEF Rounds
<1> HIDE DEF g, l
<1>4. ASSUME NEW i \in 1 .. (l + 1), g[i].role = "calls"
      PROVE  /\ g[i].n = RoundCalls /\ i + RoundCalls <= (l + 1) + (m - 1)
             /\ \A k \in 1 .. RoundCalls : i + k <= l + 1 => g[i + k].role = "result"
  <2>1. i \in 1 .. l
    BY <1>1, <1>4
  <2>2. g[i] = h[i] /\ h[i].n = RoundCalls /\ i + RoundCalls <= l + m
    BY <1>1, <1>3, <1>4, <2>1
  <2>3. i + RoundCalls <= (l + 1) + (m - 1)
    BY <1>1, <1>2, <2>1, <2>2
  <2>4. ASSUME NEW k \in 1 .. RoundCalls, i + k <= l + 1 PROVE g[i + k].role = "result"
    <3>1. CASE i + k = l + 1
      BY <1>1, <3>1
    <3>2. CASE i + k <= l
      <4>1. i + k \in 1 .. l
        BY <1>1, <1>2, <2>1, <3>2
      <4>2. h[i + k].role = "result"
        BY <1>3, <1>1, <1>4, <2>1, <2>2, <3>2
      <4> QED
        BY <1>1, <4>1, <4>2
    <3> QED
      BY <1>1, <1>2, <2>1, <2>4, <3>1, <3>2
  <2> QED
    BY <2>2, <2>3, <2>4
<1>5. ASSUME NEW i \in 1 .. (l + 1), g[i].role = "result"
      PROVE  \E k \in 1 .. RoundCalls : i > k /\ g[i - k].role = "calls"
  <2>1. CASE i = l + 1
    <3> DEFINE k == (RoundCalls - m) + 1
    <3>1. k \in 1 .. RoundCalls /\ i > k /\ i - k = l + m - RoundCalls
          /\ l + m - RoundCalls \in 1 .. l
      BY <1>1, <1>2, <1>3, <2>1
    <3>2. g[i - k].role = "calls"
      BY <1>1, <1>3, <3>1
    <3> HIDE DEF k
    <3> QED
      BY <3>1, <3>2
  <2>2. CASE i \in 1 .. l
    <3>1. PICK k \in 1 .. RoundCalls : i > k /\ h[i - k].role = "calls"
      BY <1>1, <1>3, <1>5, <2>2
    <3>2. i - k \in 1 .. l
      BY <1>1, <1>2, <2>2, <3>1
    <3> QED
      BY <1>1, <3>1, <3>2
  <2> QED
    BY <1>1, <2>1, <2>2
<1>6. (l + 1) + (m - 1) - RoundCalls = l + m - RoundCalls /\ (l + 1) + (m - 1) = l + m
  <2>1. l \in Nat /\ m \in Nat /\ RoundCalls \in Nat
    BY <1>1, <1>2
  <2> QED
    BY ONLY <2>1
<1>7. g[l + m - RoundCalls].role = "calls"
  <2>1. l + m - RoundCalls \in 1 .. l
    BY <1>1, <1>2, <1>3
  <2> QED
    BY <1>1, <1>3, <2>1
<1>8. \A i \in 1 .. Len(g) : g[i].role = "calls" =>
        /\ g[i].n = RoundCalls /\ i + RoundCalls <= Len(g) + (m - 1)
        /\ \A k \in 1 .. RoundCalls : i + k <= Len(g) => g[i + k].role = "result"
  BY <1>1, <1>4, Zenon
<1>9. \A i \in 1 .. Len(g) : g[i].role = "result" =>
        \E k \in 1 .. RoundCalls : i > k /\ g[i - k].role = "calls"
  BY <1>1, <1>5, Zenon
<1>10. Len(g) + (m - 1) > RoundCalls /\ g[Len(g) + (m - 1) - RoundCalls].role = "calls"
  BY <1>1, <1>3, <1>6, <1>7, Zenon
<1> QED
  BY <1>8, <1>9, <1>10, Zenon DEF g, Rounds

\* A message of the user or a reply, on a history with no open round.
LEMMA PlainAppended ==
  ASSUME NEW h \in Seq(Messages), Rounds(h, 0), NEW x \in Messages, x.role \in {"user", "reply"}
  PROVE  Rounds(Append(h, x), 0)
<1> DEFINE g == Append(h, x)
           l == Len(h)
<1>1. /\ g \in Seq(Messages) /\ l \in Nat /\ Len(g) = l + 1
      /\ \A i \in 1 .. l : g[i] = h[i]
      /\ g[l + 1].role \notin {"calls", "result"}
      /\ \A i \in 1 .. (l + 1) : i \in 1 .. l \/ i = l + 1
  BY Appended
<1>2. RoundCalls \in Nat \ {0}
  BY ConversationBounds
<1>3. /\ \A i \in 1 .. l : h[i].role = "calls" =>
           /\ h[i].n = RoundCalls /\ i + RoundCalls <= l + 0
           /\ \A k \in 1 .. RoundCalls : i + k <= l => h[i + k].role = "result"
      /\ \A i \in 1 .. l : h[i].role = "result" =>
           \E k \in 1 .. RoundCalls : i > k /\ h[i - k].role = "calls"
  BY DEF Rounds
<1> HIDE DEF g, l
<1>4. ASSUME NEW i \in 1 .. (l + 1), g[i].role = "calls"
      PROVE  /\ g[i].n = RoundCalls /\ i + RoundCalls <= (l + 1) + 0
             /\ \A k \in 1 .. RoundCalls : i + k <= l + 1 => g[i + k].role = "result"
  <2>1. i \in 1 .. l
    BY <1>1, <1>4
  <2>2. g[i] = h[i] /\ h[i].n = RoundCalls /\ i + RoundCalls <= l
    BY <1>1, <1>3, <1>4, <2>1
  <2>3. i + RoundCalls <= (l + 1) + 0
    BY <1>1, <1>2, <2>1, <2>2
  <2>4. ASSUME NEW k \in 1 .. RoundCalls PROVE g[i + k].role = "result"
    <3>1. i + k \in 1 .. l /\ i + k <= l
      BY <1>1, <1>2, <2>1, <2>2
    <3>2. h[i + k].role = "result"
      BY <1>3, <1>4, <2>1, <2>2, <3>1
    <3> QED
      BY <1>1, <3>1, <3>2
  <2> QED
    BY <2>2, <2>3, <2>4
<1>5. ASSUME NEW i \in 1 .. (l + 1), g[i].role = "result"
      PROVE  \E k \in 1 .. RoundCalls : i > k /\ g[i - k].role = "calls"
  <2>1. i \in 1 .. l
    BY <1>1, <1>5
  <2>2. PICK k \in 1 .. RoundCalls : i > k /\ h[i - k].role = "calls"
    BY <1>1, <1>3, <1>5, <2>1
  <2>3. i - k \in 1 .. l
    BY <1>1, <1>2, <2>1, <2>2
  <2> QED
    BY <1>1, <2>2, <2>3
<1> QED
  BY <1>1, <1>4, <1>5 DEF g, Rounds

\* A message of the model with calls opens a round, on a history with no open one.
LEMMA CallsAppended ==
  ASSUME NEW h \in Seq(Messages), Rounds(h, 0)
  PROVE  Rounds(Append(h, CallsMsg), RoundCalls)
<1> DEFINE g == Append(h, CallsMsg)
           l == Len(h)
<1>1. /\ g \in Seq(Messages) /\ l \in Nat /\ Len(g) = l + 1
      /\ \A i \in 1 .. l : g[i] = h[i]
      /\ g[l + 1].role = "calls" /\ g[l + 1].n = RoundCalls
      /\ \A i \in 1 .. (l + 1) : i \in 1 .. l \/ i = l + 1
  BY Appended, MessagesAre
<1>2. RoundCalls \in Nat \ {0}
  BY ConversationBounds
<1>3. /\ \A i \in 1 .. l : h[i].role = "calls" =>
           /\ h[i].n = RoundCalls /\ i + RoundCalls <= l + 0
           /\ \A k \in 1 .. RoundCalls : i + k <= l => h[i + k].role = "result"
      /\ \A i \in 1 .. l : h[i].role = "result" =>
           \E k \in 1 .. RoundCalls : i > k /\ h[i - k].role = "calls"
  BY DEF Rounds
<1> HIDE DEF g, l
<1>4. ASSUME NEW i \in 1 .. (l + 1), g[i].role = "calls"
      PROVE  /\ g[i].n = RoundCalls /\ i + RoundCalls <= (l + 1) + RoundCalls
             /\ \A k \in 1 .. RoundCalls : i + k <= l + 1 => g[i + k].role = "result"
  <2>1. CASE i \in 1 .. l
    <3>2. g[i] = h[i] /\ h[i].n = RoundCalls /\ i + RoundCalls <= l
      BY <1>1, <1>3, <1>4, <2>1
    <3>4. ASSUME NEW k \in 1 .. RoundCalls PROVE g[i + k].role = "result"
      <4>1. i + k \in 1 .. l /\ i + k <= l
        BY <1>1, <1>2, <2>1, <3>2
      <4>2. h[i + k].role = "result"
        BY <1>3, <1>4, <2>1, <3>2, <4>1
      <4> QED
        BY <1>1, <4>1, <4>2
    <3>5. i + RoundCalls <= (l + 1) + RoundCalls
      BY <1>1, <1>2, <2>1
    <3> QED
      BY <3>2, <3>4, <3>5, Zenon
  <2>2. CASE i = l + 1
    <3>1. \A k \in 1 .. RoundCalls : ~(i + k <= l + 1)
      BY <1>1, <1>2, <2>2
    <3> QED
      BY <1>1, <1>2, <2>2, <3>1
  <2> QED
    BY <1>1, <2>1, <2>2
<1>5. ASSUME NEW i \in 1 .. (l + 1), g[i].role = "result"
      PROVE  \E k \in 1 .. RoundCalls : i > k /\ g[i - k].role = "calls"
  <2>1. i \in 1 .. l
    BY <1>1, <1>5
  <2>2. PICK k \in 1 .. RoundCalls : i > k /\ h[i - k].role = "calls"
    BY <1>1, <1>3, <1>5, <2>1
  <2>3. i - k \in 1 .. l
    BY <1>1, <1>2, <2>1, <2>2
  <2> QED
    BY <1>1, <2>2, <2>3
<1>6. (l + 1) + RoundCalls > RoundCalls /\ (l + 1) + RoundCalls - RoundCalls = l + 1
  BY <1>1, <1>2
<1>8. \A i \in 1 .. Len(g) : g[i].role = "calls" =>
        /\ g[i].n = RoundCalls /\ i + RoundCalls <= Len(g) + RoundCalls
        /\ \A k \in 1 .. RoundCalls : i + k <= Len(g) => g[i + k].role = "result"
  BY <1>1, <1>4, Zenon
<1>9. \A i \in 1 .. Len(g) : g[i].role = "result" =>
        \E k \in 1 .. RoundCalls : i > k /\ g[i - k].role = "calls"
  BY <1>1, <1>5, Zenon
<1>10. Len(g) + RoundCalls > RoundCalls /\ g[Len(g) + RoundCalls - RoundCalls].role = "calls"
  BY <1>1, <1>6, Zenon
<1> QED
  BY <1>8, <1>9, <1>10, Zenon DEF g, Rounds

\* A prefix up to a user message has whole rounds.
LEMMA RoundsPrefix ==
  ASSUME NEW h \in Seq(Messages), NEW m \in Nat, Rounds(h, m),
         NEW a \in 1 .. Len(h), h[a].role = "user"
  PROVE  /\ RollbackTo(h, a) \in Seq(Messages) /\ Rounds(RollbackTo(h, a), 0)
         /\ RollbackTo(h, a) # <<>> /\ RollbackTo(h, a)[1] = h[1]
<1> DEFINE g == RollbackTo(h, a)
           l == Len(h)
<1>0. RoundCalls \in Nat \ {0} /\ l \in Nat /\ a \in 1 .. l /\ \A i \in 1 .. l : h[i] \in Messages
  BY ConversationBounds, LenProperties, ElementOfSeq
<1>1. g \in Seq(Messages) /\ Len(g) = a /\ \A i \in 1 .. a : g[i] = h[i]
  <2>1. CASE a >= l
    BY <1>0, <2>1 DEF RollbackTo
  <2>2. CASE ~(a >= l)
    <3>1. g = SubSeq(h, 1, a)
      BY <2>2 DEF RollbackTo
    <3>2. \A i \in 1 .. a : h[i] \in Messages
      BY <1>0
    <3>3. /\ SubSeq(h, 1, a) \in Seq(Messages) /\ Len(SubSeq(h, 1,
             a)) = IF 1 <= a THEN a - 1 + 1 ELSE 0
          /\ \A i \in 1 .. (a - 1 + 1) : SubSeq(h, 1, a)[i] = h[1 + i - 1]
      BY <3>2, SubSeqProperties
    <3>4. a - 1 + 1 = a /\ 1 <= a /\ \A i \in Nat : 1 + i - 1 = i
      BY <1>0
    <3> QED
      BY <3>1, <3>3, <3>4
  <2> QED
    BY <2>1, <2>2
<1>2. /\ \A i \in 1 .. l : h[i].role = "calls" =>
           /\ h[i].n = RoundCalls
           /\ \A k \in 1 .. RoundCalls : i + k <= l => h[i + k].role = "result"
      /\ \A i \in 1 .. l : h[i].role = "result" =>
           \E k \in 1 .. RoundCalls : i > k /\ h[i - k].role = "calls"
  BY DEF Rounds
<1> HIDE DEF g, l
<1>3. ASSUME NEW i \in 1 .. a, g[i].role = "calls"
      PROVE  /\ g[i].n = RoundCalls /\ i + RoundCalls <= a + 0
             /\ \A k \in 1 .. RoundCalls : i + k <= a => g[i + k].role = "result"
  <2>1. i \in 1 .. l /\ g[i] = h[i] /\ h[i].n = RoundCalls
    BY <1>0, <1>1, <1>2, <1>3
  <2>2. \A k \in 1 .. RoundCalls : i + k <= l => h[i + k].role = "result"
    BY <1>2, <1>3, <2>1
  <2>3. i + RoundCalls <= a
    <3> SUFFICES ASSUME ~(i + RoundCalls <= a) PROVE FALSE
      OBVIOUS
    <3>1. i # a
      BY <1>3, <2>1
    <3>2. a - i \in 1 .. RoundCalls /\ i + (a - i) = a /\ a <= l
      BY <1>0, <2>1, <3>1
    <3>3. h[i + (a - i)].role = "result"
      BY <2>2, <3>2
    <3> QED
      BY <3>2, <3>3
  <2>4. ASSUME NEW k \in 1 .. RoundCalls, i + k <= a PROVE g[i + k].role = "result"
    <3>1. i + k \in 1 .. a /\ i + k <= l
      BY <1>0, <2>1, <2>4
    <3> QED
      BY <1>1, <2>2, <3>1
  <2> QED
    BY <1>0, <2>1, <2>3, <2>4
<1>4. ASSUME NEW i \in 1 .. a, g[i].role = "result"
      PROVE  \E k \in 1 .. RoundCalls : i > k /\ g[i - k].role = "calls"
  <2>1. i \in 1 .. l /\ g[i] = h[i]
    BY <1>0, <1>1
  <2>2. PICK k \in 1 .. RoundCalls : i > k /\ h[i - k].role = "calls"
    BY <1>2, <1>4, <2>1
  <2>3. i - k \in 1 .. a
    BY <1>0, <2>1, <2>2
  <2> QED
    BY <1>1, <2>2, <2>3
<1>5. g # <<>> /\ g[1] = h[1]
  BY <1>0, <1>1
<1> QED
  BY <1>1, <1>3, <1>4, <1>5 DEF g, Rounds

\* A suffix from a user message on as well.
LEMMA RoundsSuffix ==
  ASSUME NEW h \in Seq(Messages), Rounds(h, 0), NEW c \in 1 .. Len(h), h[c].role = "user"
  PROVE  /\ SubSeq(h, c, Len(h)) \in Seq(Messages) /\ Rounds(SubSeq(h, c, Len(h)), 0)
         /\ SubSeq(h, c, Len(h)) # <<>> /\ SubSeq(h, c, Len(h))[1] = h[c]
<1> DEFINE l == Len(h)
           g == SubSeq(h, c, l)
           d == c - 1
           n == l - d
<1>0. /\ RoundCalls \in Nat \ {0} /\ l \in Nat /\ c \in 1 .. l
         /\ \A i \in 1 .. l : h[i] \in Messages
      /\ d \in Nat /\ n \in Nat /\ n >= 1 /\ c = d + 1 /\ l = d + n
  <2>1. RoundCalls \in Nat \ {0} /\ l \in Nat /\ c \in 1 .. l /\ \A i \in 1 .. l : h[i] \in Messages
    BY ConversationBounds, LenProperties, ElementOfSeq
  <2> HIDE DEF l
  <2> QED
    BY <2>1
<1>1. g \in Seq(Messages) /\ Len(g) = n /\ \A i \in 1 .. n : g[i] = h[i + d]
  <2>1. c \in Int /\ l \in Int /\ \A i \in c .. l : h[i] \in Messages
    BY <1>0
  <2>2. /\ g \in Seq(Messages) /\ Len(g) = IF c <= l THEN l - c + 1 ELSE 0
        /\ \A i \in 1 .. (l - c + 1) : g[i] = h[c + i - 1]
    BY <2>1, SubSeqProperties
  <2>3. l - c + 1 = n /\ c <= l /\ \A i \in Nat : c + i - 1 = i + d
    <3>1. l \in Nat /\ c \in 1 .. l /\ d = c - 1 /\ n = l - d
      BY <1>0
    <3> HIDE DEF l, d, n
    <3> QED
      BY ONLY <3>1
  <2> QED
    BY <2>2, <2>3
<1>2. /\ \A i \in 1 .. l : h[i].role = "calls" =>
           /\ h[i].n = RoundCalls /\ i + RoundCalls <= l + 0
           /\ \A k \in 1 .. RoundCalls : i + k <= l => h[i + k].role = "result"
      /\ \A i \in 1 .. l : h[i].role = "result" =>
           \E k \in 1 .. RoundCalls : i > k /\ h[i - k].role = "calls"
  BY DEF Rounds
<1>3. h[d + 1].role = "user"
  BY <1>0
<1> HIDE DEF g, l, d, n
<1>4. ASSUME NEW i \in 1 .. n, g[i].role = "calls"
      PROVE  /\ g[i].n = RoundCalls /\ i + RoundCalls <= n + 0
             /\ \A k \in 1 .. RoundCalls : i + k <= n => g[i + k].role = "result"
  <2>1. i + d \in 1 .. l /\ g[i] = h[i + d]
    BY <1>0, <1>1
  <2>2. h[i + d].n = RoundCalls /\ (i + d) + RoundCalls <= l + 0
        /\ \A k \in 1 .. RoundCalls : (i + d) + k <= l => h[(i + d) + k].role = "result"
    BY <1>2, <1>4, <2>1
  <2>3. i + RoundCalls <= n + 0
    BY <1>0, <2>2
  <2>4. ASSUME NEW k \in 1 .. RoundCalls, i + k <= n PROVE g[i + k].role = "result"
    <3>1. i + k \in 1 .. n /\ (i + d) + k <= l /\ (i + k) + d = (i + d) + k
      BY <1>0, <2>4
    <3> QED
      BY <1>1, <2>2, <3>1
  <2> QED
    BY <2>1, <2>2, <2>3, <2>4
<1>5. ASSUME NEW i \in 1 .. n, g[i].role = "result"
      PROVE  \E k \in 1 .. RoundCalls : i > k /\ g[i - k].role = "calls"
  <2>1. i + d \in 1 .. l /\ g[i] = h[i + d]
    BY <1>0, <1>1
  <2>2. PICK k \in 1 .. RoundCalls : i + d > k /\ h[(i + d) - k].role = "calls"
    BY <1>2, <1>5, <2>1
  <2>3. i > k
    <3> SUFFICES ASSUME ~(i > k) PROVE FALSE
      OBVIOUS
    <3> DEFINE j == (i + d) - k
    <3>1. j \in 1 .. l /\ j <= d /\ (d + 1) - j \in Nat /\ (d + 1) - j >= 1
          /\ j + ((d + 1) - j) = d + 1 /\ d + 1 <= l
      BY <1>0, <2>2
    <3>2. (d + 1) - j <= RoundCalls
      BY <1>0, <2>2
    <3>3. (d + 1) - j \in 1 .. RoundCalls
      BY <1>0, <3>1, <3>2
    <3>4. h[j].role = "calls"
      BY <2>2
    <3> HIDE DEF j
    <3>5. h[j + ((d + 1) - j)].role = "result"
      BY <1>2, <3>1, <3>3, <3>4
    <3> QED
      BY <1>3, <3>1, <3>5
  <2>4. i - k \in 1 .. n /\ (i - k) + d = (i + d) - k
    BY <1>0, <2>2, <2>3
  <2>5. g[i - k].role = "calls"
    BY <1>1, <2>2, <2>4
  <2> QED
    BY <2>3, <2>5
<1>6. g # <<>> /\ g[1] = h[c]
  <2>1. 1 \in 1 .. n /\ 1 + d = c
    BY <1>0
  <2>2. g[1] = h[c]
    BY <1>1, <2>1
  <2>3. g # <<>>
    BY <1>0, <1>1
  <2> QED
    BY <2>2, <2>3
<1>8. \A i \in 1 .. Len(g) : g[i].role = "calls" =>
        /\ g[i].n = RoundCalls /\ i + RoundCalls <= Len(g) + 0
        /\ \A k \in 1 .. RoundCalls : i + k <= Len(g) => g[i + k].role = "result"
  BY <1>1, <1>4, Zenon
<1>9. \A i \in 1 .. Len(g) : g[i].role = "result" =>
        \E k \in 1 .. RoundCalls : i > k /\ g[i - k].role = "calls"
  BY <1>1, <1>5, Zenon
<1>10. ~(0 > 0)
  OBVIOUS
<1>11. Rounds(g, 0)
  BY <1>8, <1>9, <1>10, Zenon DEF Rounds
<1> QED
  BY <1>1, <1>6, <1>11, Zenon DEF g, l

\* A set of numbers has a least one.
LEMMA LeastExists ==
  ASSUME NEW S \in SUBSET Nat, S # {}
  PROVE  \E x \in S : \A y \in S : x <= y
  BY MinExists

\* A set of numbers below a bound has a greatest one.
LEMMA GreatestExists ==
  ASSUME NEW b \in Nat, NEW S \in SUBSET (0 .. b), S # {}
  PROVE  \E x \in S : \A y \in S : y <= x
<1> DEFINE T == {b - x : x \in S}
<1>1. T \in SUBSET Nat
  OBVIOUS
<1>2. PICK x0 \in S : TRUE
  OBVIOUS
<1>3. b - x0 \in T
  OBVIOUS
<1>4. PICK m \in T : \A y \in T : m <= y
  BY <1>1, <1>3, LeastExists
<1>5. PICK x \in S : m = b - x
  BY <1>4
<1>6. ASSUME NEW y \in S PROVE x >= y
  <2>1. b - y \in T
    OBVIOUS
  <2>2. m <= b - y
    BY <1>4, <2>1
  <2> HIDE DEF T
  <2> QED
    BY <1>5, <2>2
<1> QED
  BY <1>6

\* The trim keeps whole turns, and the history that a user opened stays one.
LEMMA TrimKeepsRounds ==
  ASSUME NEW h \in Seq(Messages), Rounds(h, 0), h # <<>>, h[1].role = "user"
  PROVE  /\ TrimToBudget(h) \in Seq(Messages) /\ Rounds(TrimToBudget(h), 0)
         /\ TrimToBudget(h) # <<>> /\ TrimToBudget(h)[1].role = "user"
<1> DEFINE starts == {i \in DOMAIN h : h[i].role = "user"}
           fits == {i \in starts : Len(h) - i + 1 <= Budget}
           last == CHOOSE i \in starts : \A j \in starts : j <= i
           least == CHOOSE i \in fits : \A j \in fits : i <= j
           cut == IF fits = {} THEN last ELSE least
<1>1. Len(h) \in Nat /\ DOMAIN h = 1 .. Len(h) /\ Len(h) >= 1
  <2>1. Len(h) \in Nat /\ DOMAIN h = 1 .. Len(h)
    BY LenProperties
  <2>2. Len(h) # 0
    BY EmptySeq
  <2> QED
    BY <2>1, <2>2
<1>2. 1 \in starts
  BY <1>1
<1>3. last \in starts
  <2>1. starts \in SUBSET (0 .. Len(h))
    BY <1>1
  <2>2. \E i \in starts : \A j \in starts : j <= i
    BY <1>1, <1>2, <2>1, GreatestExists
  <2> HIDE DEF starts
  <2> QED
    BY <2>2
<1>4. fits # {} => least \in fits
  <2>1. fits \in SUBSET Nat
    BY <1>1
  <2>2. fits # {} => \E i \in fits : \A j \in fits : i <= j
    BY <2>1, LeastExists
  <2> HIDE DEF fits
  <2> QED
    BY <2>2
<1>5. cut \in starts
  BY <1>3, <1>4
<1>6. cut \in 1 .. Len(h) /\ h[cut].role = "user"
  BY <1>1, <1>5
<1>7. TrimToBudget(h) \in {h, SubSeq(h, cut, Len(h))}
  <2>1. starts # {}
    BY <1>2
  <2> QED
    BY <2>1, Zenon DEF TrimToBudget
<1> HIDE DEF cut
<1>8. /\ SubSeq(h, cut, Len(h)) \in Seq(Messages) /\ Rounds(SubSeq(h, cut, Len(h)), 0)
      /\ SubSeq(h, cut, Len(h)) # <<>> /\ SubSeq(h, cut, Len(h))[1] = h[cut]
  BY <1>6, RoundsSuffix
<1> QED
  BY <1>6, <1>7, <1>8

-----------------------------------------------------------------------------
TurnPcs == {"off", "stream", "tool", "flush", "translate", "abort"}
TurnRecords ==
  [pc : TurnPcs, anchor : Nat,
   msgs : Seq(Messages), iter : Nat, left : Nat, sent : BOOLEAN]
\* What a turn in the middle of its rounds has written, and shows the LLM.
TurnInv(t) ==
  hTurn[t].pc \in {"stream", "tool"} =>
    /\ hTurn[t].anchor \in 1 .. Len(hHist) /\ hHist[hTurn[t].anchor].role = "user"
    /\ hTurn[t].msgs # <<>> /\ hTurn[t].msgs[1].role = "user"
    /\ \E m \in 0 .. RoundCalls :
         /\ Rounds(hHist, m) /\ Rounds(hTurn[t].msgs, m)
         /\ hTurn[t].pc = "stream" => m = 0
         /\ hTurn[t].pc = "tool" => m = hTurn[t].left
\* One turn writes at a time; the history is empty or begins with a user's message, and its
\* rounds are whole between turns.
HistoryInv ==
  /\ hHist \in Seq(Messages) /\ (hHist # <<>> => hHist[1].role = "user")
  /\ hTurn \in [Turns2 -> TurnRecords]
  /\ \A t \in Turns2 : Running(t) => ~Running(Other(t))
  /\ (\A t \in Turns2 : hTurn[t].pc \notin {"stream", "tool"}) => Rounds(hHist, 0)
  /\ \A t \in Turns2 : TurnInv(t)
TalkInv == hMixed \in BOOLEAN /\ (~hMixed => HistoryInv)

\* The record of a turn that goes to another point.
LEMMA TurnAt ==
  ASSUME NEW x \in TurnRecords, NEW p \in TurnPcs
  PROVE  /\ [x EXCEPT !.pc = p] \in TurnRecords
         /\ [x EXCEPT !.pc = p].pc = p 
         /\ [x EXCEPT !.pc = p].anchor = x.anchor /\ [x EXCEPT !.pc = p].msgs = x.msgs
         /\ [x EXCEPT !.pc = p].left = x.left
<1>1. [x EXCEPT !.pc = p] \in TurnRecords
  BY DEF TurnRecords, TurnPcs
<1>2. [x EXCEPT !.pc = p].pc = p
  BY DEF TurnRecords
<1>3. [x EXCEPT !.pc = p].anchor = x.anchor /\ [x EXCEPT !.pc = p].msgs = x.msgs
         /\ [x EXCEPT !.pc = p].left = x.left
  BY DEF TurnRecords
<1> QED
  BY <1>1, <1>2, <1>3

\* A request that has been sent and found valid.
LEMMA TurnSent ==
  ASSUME NEW x \in TurnRecords, NEW p \in TurnPcs
  PROVE  /\ [x EXCEPT !.pc = p, !.sent = TRUE] \in TurnRecords
         /\ [x EXCEPT !.pc = p, !.sent = TRUE].pc = p 
  BY DEF TurnRecords, TurnPcs

\* The record of no turn.
LEMMA TurnRests0 == Resting \in TurnRecords
BY EmptySeq DEF Resting, TurnRecords, TurnPcs

\* The record of a turn that goes into its next iteration.
LEMMA TurnAgain ==
  ASSUME NEW x \in TurnRecords, NEW i \in Nat, NEW r, r = [x EXCEPT !.pc = "stream", !.iter = i]
  PROVE  r \in TurnRecords /\ r.pc = "stream" /\ r.msgs = x.msgs /\ r.anchor = x.anchor
BY DEF TurnRecords, TurnPcs

\* The record of a turn that has spoken.
LEMMA TurnHasSpoken ==
  ASSUME NEW x \in TurnRecords, NEW r, r = [x EXCEPT !.sent = TRUE]
  PROVE  r \in TurnRecords /\ r.pc = x.pc /\ r.left = x.left /\ r.msgs = x.msgs
         /\ r.anchor = x.anchor
BY DEF TurnRecords, TurnPcs

\* Rounds without a missing result are what an OpenAI server accepts.
LEMMA WholeRounds ==
  ASSUME NEW h \in Seq(Messages), Rounds(h, 0)
  PROVE  RoundsComplete(h)
<1>1. Len(h) \in Nat /\ DOMAIN h = 1 .. Len(h) /\ RoundCalls \in Nat
  BY LenProperties, ConversationBounds
<1>2. ASSUME NEW i \in 1 .. Len(h), h[i].role = "calls", NEW k \in 1 .. h[i].n
      PROVE  i + k <= Len(h) /\ h[i + k].role = "result"
  <2>1. /\ h[i].n = RoundCalls /\ i + RoundCalls <= Len(h) + 0
        /\ \A j \in 1 .. RoundCalls : i + j <= Len(h) => h[i + j].role = "result"
    BY <1>2 DEF Rounds
  <2>2. k \in 1 .. RoundCalls
    BY <1>2, <2>1
  <2>3. i + k <= Len(h)
    BY <1>1, <2>1, <2>2
  <2> QED
    BY <2>1, <2>2, <2>3
<1>3. \A i \in 1 .. Len(h) : h[i].role = "result" =>
        \E k \in 1 .. RoundCalls : i > k /\ h[i - k].role = "calls"
  BY DEF Rounds
<1> QED
  BY <1>1, <1>2, <1>3 DEF RoundsComplete

\* The invariant implies the property.
LEMMA TalkValid ==
  ASSUME TalkInv
  PROVE  RequestsValid
<1> SUFFICES ASSUME ~hMixed PROVE RequestsValid
  BY DEF RequestsValid
<1>1. HistoryInv
  BY DEF TalkInv
<1>2. ASSUME \A t \in Turns2 : ~Running(t) PROVE RoundsComplete(hHist)
  <2>1. Rounds(hHist, 0)
    BY <1>1, <1>2 DEF HistoryInv, Running
  <2> QED
    BY <1>1, <2>1, WholeRounds DEF HistoryInv
<1>3. ASSUME NEW t \in Turns2, hTurn[t].pc = "stream"
      PROVE  /\ RoundsComplete(hTurn[t].msgs)
             /\ hTurn[t].msgs # <<>> /\ Head(hTurn[t].msgs).role = "user"
             /\ hHist[hTurn[t].anchor].role = "user"
  <2>1. TurnInv(t)
    BY <1>1 DEF HistoryInv
  <2>2. /\ hHist[hTurn[t].anchor].role = "user"
        /\ hTurn[t].msgs # <<>> /\ hTurn[t].msgs[1].role = "user"
        /\ Rounds(hTurn[t].msgs, 0)
    BY <1>3, <2>1 DEF TurnInv
  <2>3. hTurn[t].msgs \in Seq(Messages)
    BY <1>1 DEF HistoryInv, TurnRecords
  <2>4. RoundsComplete(hTurn[t].msgs)
    BY <2>2, <2>3, WholeRounds
  <2>5. Head(hTurn[t].msgs) = hTurn[t].msgs[1]
    BY <2>2, <2>3
  <2> QED
    BY <2>2, <2>4, <2>5
<1> QED
  BY <1>2, <1>3 DEF RequestsValid

\* Turn t becomes r and the history h, while no other turn runs.
LEMMA Written ==
  ASSUME HistoryInv, NEW t \in Turns2, NEW r \in TurnRecords, NEW h \in Seq(Messages),
         hHist' = h, hTurn' = [hTurn EXCEPT ![t] = r], ~Running(Other(t)),
         h # <<>> => h[1].role = "user",
         r.pc \notin {"stream", "tool"} => Rounds(h, 0),
         r.pc \in {"stream", "tool"} =>
           /\ r.anchor \in 1 .. Len(h) /\ h[r.anchor].role = "user"
           /\ r.msgs # <<>> /\ r.msgs[1].role = "user"
           /\ \E m \in 0 .. RoundCalls :
                /\ Rounds(h, m) /\ Rounds(r.msgs, m)
                /\ r.pc = "stream" => m = 0
                /\ r.pc = "tool" => m = r.left
  PROVE  HistoryInv'
<1>1. hTurn \in [Turns2 -> TurnRecords]
  BY DEF HistoryInv
<1>2. Other(t) \in Turns2 /\ Other(t) # t /\ Turns2 = {t, Other(t)} /\ Other(Other(t)) = t
  BY DEF Other, Turns2
<1>3. hTurn' \in [Turns2 -> TurnRecords]
  BY <1>1
<1>4. hTurn'[t] = r /\ hTurn'[Other(t)] = hTurn[Other(t)] /\ hTurn[Other(t)].pc = "off"
  BY <1>1, <1>2 DEF Running
<1>5. \A u \in Turns2 : hTurn'[u].pc # "off" => u = t
  BY <1>2, <1>4
<1>6. \A u \in Turns2 : Running(u)' => ~Running(Other(u))'
  BY <1>2, <1>5 DEF Running, Other, Turns2
<1>7. (\A u \in Turns2 : hTurn'[u].pc \notin {"stream", "tool"}) => Rounds(hHist', 0)
  BY <1>4
<1>8. \A u \in Turns2 : TurnInv(u)'
  <2> SUFFICES ASSUME NEW u \in Turns2, hTurn'[u].pc \in {"stream", "tool"} PROVE TurnInv(u)'
    BY DEF TurnInv
  <2>1. u = t
    BY <1>5
  <2> QED
    BY <1>4, <2>1, Zenon DEF TurnInv
<1> QED
  BY <1>3, <1>6, <1>7, <1>8, Zenon DEF HistoryInv

\* run_default_dialogue_turn() begins, on a history with whole rounds.
LEMMA DefaultBegins ==
  ASSUME HistoryInv, ~hMixed', NEW t \in Turns2, NEW h \in Seq(Messages), BeginDefault(t, h),
         Rounds(h, 0), h # <<>> => h[1].role = "user", ~Running(Other(t))
  PROVE  HistoryInv'
<1> DEFINE with == Append(h, User)
           trim == TrimToBudget(with)
           r == [Resting EXCEPT !.pc = "stream", !.anchor = Len(with), !.msgs = trim, !.iter = 1]
<1>1. hHist' = with /\ hTurn' = [hTurn EXCEPT ![t] = r]
  BY DEF BeginDefault, Write, Step
<1>2. /\ with \in Seq(Messages) /\ Len(h) \in Nat /\ Len(with) = Len(h) + 1
      /\ \A i \in 1 .. Len(h) : with[i] = h[i]
      /\ with[Len(h) + 1] = User
  BY Appended, MessagesAre
<1>3. Rounds(with, 0)
  BY PlainAppended, MessagesAre
<1>4. with # <<>> /\ with[1].role = "user"
  <2>1. with # <<>>
    BY <1>2
  <2>2. CASE h = <<>>
    BY <1>2, <2>2, MessagesAre
  <2>3. CASE h # <<>>
    <3>1. Len(h) # 0
      BY <2>3, EmptySeq
    <3>2. 1 \in 1 .. Len(h)
      BY <1>2, <3>1
    <3> QED
      BY <1>2, <2>3, <3>2
  <2> QED
    BY <2>1, <2>2, <2>3
<1> HIDE DEF with
<1>5. trim \in Seq(Messages) /\ Rounds(trim, 0) /\ trim # <<>> /\ trim[1].role = "user"
  BY <1>2, <1>3, <1>4, TrimKeepsRounds
<1> HIDE DEF trim
<1>6. /\ r \in TurnRecords /\ r.pc = "stream" /\ r.anchor = Len(with) /\ r.msgs = trim
  <2>1. Len(with) \in Nat
    BY <1>2
  <2> QED
    <3>1. r = [Resting EXCEPT !.pc = "stream", !.anchor = Len(with), !.msgs = trim, !.iter = 1]
      OBVIOUS
    <3> HIDE DEF r
    <3>2. Len(with) \in Nat /\ trim \in Seq(Messages)
      BY <1>5, <2>1
    <3> QED
      BY <3>1, <3>2, TurnRests0 DEF TurnRecords, TurnPcs
<1>7. r.anchor \in 1 .. Len(with) /\ with[r.anchor].role = "user" /\ 0 \in 0 .. RoundCalls
  BY <1>2, <1>6, MessagesAre, ConversationBounds
<1> HIDE DEF r
<1>8. \E m \in 0 .. RoundCalls :
        /\ Rounds(with, m) /\ Rounds(r.msgs, m)
        /\ r.pc = "stream" => m = 0
        /\ r.pc = "tool" => m = r.left
  BY <1>3, <1>5, <1>6, <1>7, Zenon
<1> QED
  BY <1>1, <1>2, <1>4, <1>5, <1>6, <1>7, <1>8, Written

\* A turn ends, or waits for nothing that reads the history, which has whole rounds.
LEMMA TurnRests ==
  ASSUME HistoryInv, NEW t \in Turns2, NEW r \in TurnRecords, NEW h \in Seq(Messages),
         hHist' = h, hTurn' = [hTurn EXCEPT ![t] = r], ~Running(Other(t)),
         h # <<>> => h[1].role = "user",
         r.pc \notin {"stream", "tool"}, Rounds(h, 0)
  PROVE  HistoryInv'
BY Written

\* The answer is added, or the echo loop empties the history.
LEMMA AssistantAdded ==
  ASSUME HistoryInv, Rounds(hHist, 0), hHist # <<>>, NEW n \in 0 .. 1
  PROVE  LET h == AddAssistant(hHist, Reply(n))
         IN  h \in Seq(Messages) /\ Rounds(h, 0) /\ (h # <<>> => h[1].role = "user")
<1>1. hHist \in Seq(Messages) /\ hHist[1].role = "user" /\ Reply(n) \in Messages
      /\ Reply(n).role = "reply"
  BY MessagesAre DEF HistoryInv
<1>2. /\ Append(hHist, Reply(n)) \in Seq(Messages) /\ Len(hHist) \in Nat
      /\ \A i \in 1 .. Len(hHist) : Append(hHist, Reply(n))[i] = hHist[i]
  BY <1>1, Appended
<1>3. Rounds(Append(hHist, Reply(n)), 0)
  BY <1>1, PlainAppended
<1>4. 1 \in 1 .. Len(hHist)
  <2>1. Len(hHist) # 0
    BY <1>1, EmptySeq
  <2> QED
    BY <1>2, <2>1
<1>5. Append(hHist, Reply(n))[1].role = "user"
  BY <1>1, <1>2, <1>4
<1>6. AddAssistant(hHist, Reply(n)) \in {<<>>, Append(hHist, Reply(n))}
  BY DEF AddAssistant
<1>7. <<>> \in Seq(Messages) /\ Rounds(<<>>, 0)
  <2>1. <<>> \in Seq(Messages) /\ Len(<<>>) = 0 /\ 1 .. 0 = {} /\ ~(0 > 0)
    OBVIOUS
  <2> QED
    BY <2>1 DEF Rounds
<1> QED
  BY <1>2, <1>3, <1>5, <1>6, <1>7

\* The history of a new session.
LEMMA EmptyHistory == <<>> \in Seq(Messages) /\ Rounds(<<>>, 0)
<1>1. <<>> \in Seq(Messages) /\ Len(<<>>) = 0 /\ 1 .. 0 = {} /\ ~(0 > 0)
  OBVIOUS
<1> QED
  BY <1>1 DEF Rounds

\* The fields of a turn.
LEMMA TurnFields ==
  ASSUME HistoryInv, NEW t \in Turns2
  PROVE  /\ hTurn[t] \in TurnRecords
         /\ hTurn[t].anchor \in Nat /\ hTurn[t].msgs \in Seq(Messages) /\ hTurn[t].iter \in Nat
         /\ hTurn[t].left \in Nat /\ hTurn[t].sent \in BOOLEAN
         /\ Resting \in TurnRecords /\ Resting.pc = "off"
         /\ Running(t) => ~Running(Other(t))
<1>1. hTurn[t] \in TurnRecords
  BY DEF HistoryInv
<1>2. /\ hTurn[t].anchor \in Nat /\ hTurn[t].msgs \in Seq(Messages) /\ hTurn[t].iter \in Nat
      /\ hTurn[t].left \in Nat /\ hTurn[t].sent \in BOOLEAN
  BY <1>1 DEF TurnRecords
<1>5. Resting \in TurnRecords /\ Resting.pc = "off"
  BY EmptyHistory DEF Resting, TurnRecords, TurnPcs
<1>6. Running(t) => ~Running(Other(t))
  BY DEF HistoryInv
<1> QED
  BY <1>1, <1>2, <1>5, <1>6

\* A turn between its rounds: the history has whole rounds, unless a round is open.
LEMMA TurnHistory ==
  ASSUME HistoryInv, NEW t \in Turns2, Running(t),
         hTurn[t].pc = "tool" => hTurn[t].left = 0
  PROVE  /\ hHist \in Seq(Messages) /\ Rounds(hHist, 0) /\ (hHist # <<>> => hHist[1].role = "user")
         /\ hTurn[t].pc \in {"stream", "tool"} => hHist # <<>> /\ Rounds(hTurn[t].msgs, 0)
<1>1. hHist \in Seq(Messages) /\ (hHist # <<>> => hHist[1].role = "user")
  BY DEF HistoryInv
<1>2. CASE hTurn[t].pc \in {"stream", "tool"}
  <2>1. /\ hTurn[t].anchor \in 1 .. Len(hHist)
        /\ \E m \in 0 .. RoundCalls :
             /\ Rounds(hHist, m) /\ Rounds(hTurn[t].msgs, m)
             /\ hTurn[t].pc = "stream" => m = 0
             /\ hTurn[t].pc = "tool" => m = hTurn[t].left
    BY <1>2 DEF HistoryInv, TurnInv
  <2>2. Rounds(hHist, 0) /\ Rounds(hTurn[t].msgs, 0)
    BY <1>2, <2>1
  <2>3. hHist # <<>>
    BY <2>1
  <2> QED
    BY <1>1, <2>2, <2>3
<1>3. CASE hTurn[t].pc \notin {"stream", "tool"}
  <2>1. ASSUME NEW u \in Turns2 PROVE hTurn[u].pc \notin {"stream", "tool"}
    <3>1. u = t \/ u = Other(t)
      BY DEF Turns2, Other
    <3>2. ~Running(Other(t))
      BY DEF HistoryInv
    <3> QED
      BY <1>3, <3>1, <3>2 DEF Running
  <2>2. Rounds(hHist, 0)
    BY <2>1 DEF HistoryInv
  <2> QED
    BY <1>1, <1>3, <2>2
<1> QED
  BY <1>2, <1>3

\* A turn whose history is rolled back to its user message.
LEMMA TurnRolledBack ==
  ASSUME HistoryInv, NEW t \in Turns2, hTurn[t].pc \in {"stream", "tool"}
  PROVE  LET h == RollbackTo(hHist, hTurn[t].anchor)
         IN  h \in Seq(Messages) /\ Rounds(h, 0) /\ (h # <<>> => h[1].role = "user")
<1>1. /\ hTurn[t].anchor \in 1 .. Len(hHist) /\ hHist[hTurn[t].anchor].role = "user"
      /\ \E m \in 0 .. RoundCalls : Rounds(hHist, m)
  BY DEF HistoryInv, TurnInv
<1>2. PICK m \in 0 .. RoundCalls : Rounds(hHist, m)
  BY <1>1
<1>3. hHist \in Seq(Messages) /\ (hHist # <<>> => hHist[1].role = "user") /\ hHist # <<>>
      /\ m \in Nat
  BY <1>1 DEF HistoryInv
<1> QED
  BY <1>1, <1>2, <1>3, RoundsPrefix

\* The steps that leave turn t without open rounds.
LEMMA RestingSteps ==
  ASSUME HistoryInv, ~hMixed', NEW t \in Turns2,
         FinalText(t) \/ Template(t) \/ Flush(t) \/ Fails(t) \/ Aborted(t) \/ CancelledLate(t)
  PROVE  HistoryInv'
<1>1. Running(t) /\ ~Running(Other(t))
  <2>1. hTurn[t].pc # "off"
    BY DEF FinalText, Template, Flush, Fails, Aborted, CancelledLate
  <2> QED
    BY <2>1, TurnFields DEF Running
<1>2. CASE FinalText(t)
  <2>1. hTurn[t].pc = "stream" /\ hTurn' = [hTurn EXCEPT ![t] = [hTurn[t] EXCEPT !.pc = "flush"]]
    BY <1>2 DEF FinalText, Step
  <2>2. /\ hHist \in Seq(Messages) /\ Rounds(hHist, 0) /\ hHist # <<>> /\ hHist[1].role = "user"
    BY <1>1, <2>1, TurnHistory
  <2>3. hHist' = hHist \/ \E n \in 0 .. 1 : hHist' = AddAssistant(hHist, Reply(n))
    BY <1>2 DEF FinalText, Write
  <2>4. hHist' \in Seq(Messages) /\ Rounds(hHist', 0) /\ (hHist' # <<>> => hHist'[1].role = "user")
    BY <2>2, <2>3, AssistantAdded
  <2>5. [hTurn[t] EXCEPT !.pc = "flush"] \in TurnRecords
        /\ [hTurn[t] EXCEPT !.pc = "flush"].pc = "flush"
    <3>1. hTurn[t] \in TurnRecords
      BY TurnFields
    <3>2. {"flush", "abort"} \subseteq TurnPcs
      BY DEF TurnPcs
    <3>3. "flush" \in TurnPcs /\ "abort" \in TurnPcs
      BY <3>2
    <3> QED
      BY <3>1, <3>3, TurnAt, TurnSent, Zenon
  <2> QED
    BY <1>1, <2>1, <2>4, <2>5, TurnRests
<1>3. CASE Template(t)
  <2>1. hTurn[t].pc = "tool" /\ hTurn[t].left = 0
        /\ hTurn' = [hTurn EXCEPT ![t] = [hTurn[t] EXCEPT !.pc = "flush", !.sent = TRUE]]
        /\ hHist' = AddAssistant(hHist, Reply(0))
    BY <1>3 DEF Template, Step, Write
  <2>2. /\ hHist \in Seq(Messages) /\ Rounds(hHist, 0) /\ hHist # <<>> /\ hHist[1].role = "user"
    BY <1>1, <2>1, TurnHistory
  <2>3. hHist' \in Seq(Messages) /\ Rounds(hHist', 0) /\ (hHist' # <<>> => hHist'[1].role = "user")
    BY <2>1, <2>2, AssistantAdded
  <2>4. /\ [hTurn[t] EXCEPT !.pc = "flush", !.sent = TRUE] \in TurnRecords
        /\ [hTurn[t] EXCEPT !.pc = "flush", !.sent = TRUE].pc = "flush"
    <3>1. hTurn[t] \in TurnRecords
      BY TurnFields
    <3>2. {"flush", "abort"} \subseteq TurnPcs
      BY DEF TurnPcs
    <3>3. "flush" \in TurnPcs /\ "abort" \in TurnPcs
      BY <3>2
    <3> QED
      BY <3>1, <3>3, TurnAt, TurnSent, Zenon
  <2> QED
    BY <1>1, <2>1, <2>3, <2>4, TurnRests
<1>4. CASE Flush(t) \/ Aborted(t) \/ CancelledLate(t)
  <2>1. hTurn[t].pc \notin {"stream", "tool"} /\ hTurn' = [hTurn EXCEPT ![t] = Resting]
        /\ hHist' = hHist
    BY <1>4 DEF Flush, Aborted, CancelledLate, Over, Step
  <2>2. hHist \in Seq(Messages) /\ Rounds(hHist, 0) /\ (hHist # <<>> => hHist[1].role = "user")
    BY <1>1, <2>1, TurnHistory
  <2>3. Resting \in TurnRecords /\ Resting.pc = "off"
    BY TurnFields
  <2> QED
    BY <1>1, <2>1, <2>2, <2>3, TurnRests
<1>5. CASE Fails(t)
  <2>1. hTurn[t].pc \in {"stream", "tool"} /\ hHist' = RollbackTo(hHist, hTurn[t].anchor)
    BY <1>5 DEF Fails
  <2>2. \/ hTurn' = [hTurn EXCEPT ![t] = [hTurn[t] EXCEPT !.pc = "abort"]]
        \/ hTurn' = [hTurn EXCEPT ![t] = Resting]
    BY <1>5 DEF Fails, Over, Step
  <2>3. hHist' \in Seq(Messages) /\ Rounds(hHist', 0) /\ (hHist' # <<>> => hHist'[1].role = "user")
    BY <2>1, TurnRolledBack
  <2>4. Resting \in TurnRecords /\ Resting.pc = "off"
    BY TurnFields
  <2>5. [hTurn[t] EXCEPT !.pc = "abort"] \in TurnRecords
        /\ [hTurn[t] EXCEPT !.pc = "abort"].pc = "abort"
    <3>1. hTurn[t] \in TurnRecords
      BY TurnFields
    <3>2. {"flush", "abort"} \subseteq TurnPcs
      BY DEF TurnPcs
    <3>3. "flush" \in TurnPcs /\ "abort" \in TurnPcs
      BY <3>2
    <3> QED
      BY <3>1, <3>3, TurnAt, TurnSent, Zenon
  <2> QED
    BY <1>1, <2>2, <2>3, <2>4, <2>5, TurnRests
<1> QED
  BY <1>2, <1>3, <1>4, <1>5

\* The steps of a round.
LEMMA RoundSteps ==
  ASSUME HistoryInv, ~hMixed', NEW t \in Turns2,
         Token(t) \/ CommitCalls(t) \/ ToolResult(t) \/ NextRound(t)
  PROVE  HistoryInv'
<1> DEFINE x == hTurn[t]
<1>0. x.pc \in {"stream", "tool"}
  BY DEF Token, CommitCalls, ToolResult, NextRound
<1>1. ~Running(Other(t)) /\ Running(t)
  BY <1>0, TurnFields DEF Running
<1>2. /\ x \in TurnRecords /\ x.msgs \in Seq(Messages) /\ x.left \in Nat /\ x.iter \in Nat
      /\ hHist \in Seq(Messages) /\ (hHist # <<>> => hHist[1].role = "user")
  BY TurnFields DEF HistoryInv
<1>3. /\ x.anchor \in 1 .. Len(hHist) /\ hHist[x.anchor].role = "user"
      /\ x.msgs # <<>> /\ x.msgs[1].role = "user"
      /\ \E m \in 0 .. RoundCalls :
           /\ Rounds(hHist, m) /\ Rounds(x.msgs, m)
           /\ x.pc = "stream" => m = 0
           /\ x.pc = "tool" => m = x.left
  BY <1>0 DEF HistoryInv, TurnInv
<1>4. /\ RoundCalls \in Nat \ {0} /\ 0 \in 0 .. RoundCalls /\ RoundCalls \in 0 .. RoundCalls
      /\ RoundCalls \in Nat /\ "stream" \in TurnPcs /\ "tool" \in TurnPcs
  BY ConversationBounds DEF TurnPcs
\* a message more, for the history and the LLM
<1>5. ASSUME NEW y \in Messages
      PROVE  /\ Append(hHist, y) \in Seq(Messages) /\ Append(x.msgs, y) \in Seq(Messages)
             /\ x.anchor \in 1 .. Len(Append(hHist, y)) /\ Append(hHist, y)[x.anchor].role = "user"
             /\ Append(x.msgs, y) # <<>> /\ Append(x.msgs, y)[1].role = "user"
             /\ Append(hHist, y)[1].role = "user"
  <2>1. /\ Append(hHist, y) \in Seq(Messages) /\ Len(Append(hHist, y)) = Len(hHist) + 1
        /\ Len(hHist) \in Nat /\ \A i \in 1 .. Len(hHist) : Append(hHist, y)[i] = hHist[i]
    BY <1>2, Appended
  <2>2. /\ Append(x.msgs, y) \in Seq(Messages) /\ Len(Append(x.msgs, y)) = Len(x.msgs) + 1
        /\ Len(x.msgs) \in Nat /\ \A i \in 1 .. Len(x.msgs) : Append(x.msgs, y)[i] = x.msgs[i]
    BY <1>2, Appended
  <2>3. 1 \in 1 .. Len(hHist) /\ hHist # <<>> /\ x.anchor \in 1 .. (Len(hHist) + 1)
    BY <1>3, <2>1
  <2>4. 1 \in 1 .. Len(x.msgs)
    <3>1. Len(x.msgs) # 0
      BY <1>2, <1>3, EmptySeq
    <3> QED
      BY <2>2, <3>1
  <2>5. Append(hHist, y)[x.anchor].role = "user" /\ Append(hHist, y)[1].role = "user"
    BY <1>2, <1>3, <2>1, <2>3
  <2>6. Append(x.msgs, y) # <<>> /\ Append(x.msgs, y)[1].role = "user"
    BY <1>3, <2>2, <2>4
  <2> QED
    BY <2>1, <2>2, <2>3, <2>5, <2>6
<1>6. CASE Token(t)
  <2>1. hHist' = hHist /\ hTurn' = [hTurn EXCEPT ![t] = [x EXCEPT !.sent = TRUE]]
    BY <1>6 DEF Token, Speaks, Step
  <2> DEFINE r == [x EXCEPT !.sent = TRUE]
  <2>2. r \in TurnRecords /\ r.pc = x.pc /\ r.left = x.left /\ r.msgs = x.msgs
        /\ r.anchor = x.anchor
    BY <1>2, <1>4, TurnHasSpoken, Zenon
  <2> HIDE DEF r, x
  <2> QED
    BY <1>0, <1>1, <1>2, <1>3, <2>1, <2>2, Written DEF r
<1>7. CASE CommitCalls(t)
  <2> DEFINE g == Append(x.msgs, CallsMsg)
             h == Append(hHist, CallsMsg)
             r == [x EXCEPT !.pc = "tool", !.left = RoundCalls, !.msgs = g]
  <2>1. x.pc = "stream" /\ hHist' = h /\ hTurn' = [hTurn EXCEPT ![t] = r]
    BY <1>7 DEF CommitCalls, Write, Step
  <2>2. Rounds(hHist, 0) /\ Rounds(x.msgs, 0)
    BY <1>3, <2>1
  <2>3. Rounds(h, RoundCalls) /\ Rounds(g, RoundCalls)
    BY <1>2, <2>2, CallsAppended
  <2>4. /\ h \in Seq(Messages) /\ g \in Seq(Messages)
        /\ x.anchor \in 1 .. Len(h) /\ h[x.anchor].role = "user"
        /\ g # <<>> /\ g[1].role = "user" /\ h[1].role = "user"
    BY <1>5, MessagesAre
  <2> HIDE DEF g, h
  <2>5. r \in TurnRecords /\ r.pc = "tool" /\ r.left = RoundCalls /\ r.msgs = g
        /\ r.anchor = x.anchor
    <3>1. r = [x EXCEPT !.pc = "tool", !.left = RoundCalls, !.msgs = g]
      OBVIOUS
    <3> HIDE DEF r, x
    <3>2. x \in TurnRecords /\ g \in Seq(Messages) /\ RoundCalls \in Nat
      BY <1>2, <1>4, <2>4
    <3> QED
      BY <3>1, <3>2 DEF TurnRecords, TurnPcs
  <2> HIDE DEF r, x
  <2>6. \E m \in 0 .. RoundCalls :
          /\ Rounds(h, m) /\ Rounds(r.msgs, m)
          /\ r.pc = "stream" => m = 0
          /\ r.pc = "tool" => m = r.left
    BY <1>4, <2>3, <2>5
  <2> QED
    BY <1>1, <2>1, <2>4, <2>5, <2>6, Written
<1>8. CASE ToolResult(t)
  <2> DEFINE g == Append(x.msgs, Result)
             h == Append(hHist, Result)
             l == x.left - 1
             r == [x EXCEPT !.left = l, !.msgs = g]
  <2>1. x.pc = "tool" /\ x.left > 0 /\ hHist' = h /\ hTurn' = [hTurn EXCEPT ![t] = r]
    BY <1>8 DEF ToolResult, Write, Step
  <2>2. Rounds(hHist, x.left) /\ Rounds(x.msgs, x.left) /\ x.left \in 1 .. RoundCalls
    BY <1>3, <1>4, <2>1
  <2>3. Rounds(h, l) /\ Rounds(g, l) /\ l \in 0 .. RoundCalls /\ l \in Nat
    <3>1. Rounds(h, l) /\ Rounds(g, l)
      BY <1>2, <2>2, ResultAppended
    <3>2. l \in 0 .. RoundCalls
      BY <1>4, <2>2
    <3> QED
      BY <3>1, <3>2
  <2>4. /\ h \in Seq(Messages) /\ g \in Seq(Messages)
        /\ x.anchor \in 1 .. Len(h) /\ h[x.anchor].role = "user"
        /\ g # <<>> /\ g[1].role = "user" /\ h[1].role = "user"
    BY <1>5, MessagesAre
  <2> HIDE DEF g, h, l
  <2>5. r \in TurnRecords /\ r.pc = x.pc /\ r.left = l /\ r.msgs = g /\ r.anchor = x.anchor
    <3>1. r = [x EXCEPT !.left = l, !.msgs = g]
      OBVIOUS
    <3> HIDE DEF r, x
    <3>2. x \in TurnRecords /\ g \in Seq(Messages) /\ l \in Nat
      BY <1>2, <2>3, <2>4
    <3> QED
      BY <3>1, <3>2 DEF TurnRecords, TurnPcs
  <2> HIDE DEF r, x
  <2>6. \E m \in 0 .. RoundCalls :
          /\ Rounds(h, m) /\ Rounds(r.msgs, m)
          /\ r.pc = "stream" => m = 0
          /\ r.pc = "tool" => m = r.left
    BY <1>4, <2>1, <2>3, <2>5
  <2> QED
    BY <1>1, <2>1, <2>4, <2>5, <2>6, Written
<1>9. CASE NextRound(t)
  <2>1. x.pc = "tool" /\ x.left = 0
    BY <1>9 DEF NextRound
  <2>2. Rounds(hHist, 0) /\ Rounds(x.msgs, 0)
    BY <1>3, <2>1
  <2>3. CASE x.iter < MaxIterations
    <3> DEFINE i == x.iter + 1
               r == [x EXCEPT !.pc = "stream", !.iter = i]
    <3>1. hHist' = hHist /\ hTurn' = [hTurn EXCEPT ![t] = r]
      BY <1>9, <2>3 DEF NextRound, Step
    <3>2. i \in Nat
      BY <1>2
    <3> HIDE DEF i
    <3>3. r \in TurnRecords /\ r.pc = "stream" /\ r.msgs = x.msgs /\ r.anchor = x.anchor
      <4>1. r = [x EXCEPT !.pc = "stream", !.iter = i]
        OBVIOUS
      <4> HIDE DEF r, x
      <4> QED
        BY <1>2, <1>4, <3>2, <4>1, TurnAgain
    <3> HIDE DEF r, x
    <3>4. \E m \in 0 .. RoundCalls :
            /\ Rounds(hHist, m) /\ Rounds(r.msgs, m)
            /\ r.pc = "stream" => m = 0
            /\ r.pc = "tool" => m = r.left
      BY <1>4, <2>2, <3>3
    <3> QED
      BY <1>1, <1>2, <1>3, <3>1, <3>3, <3>4, Written
  <2>4. CASE ~(x.iter < MaxIterations)
    <3>1. hHist' = RollbackTo(hHist, x.anchor)
          /\ hTurn' = [hTurn EXCEPT ![t] = [x EXCEPT !.pc = "flush"]]
      BY <1>9, <2>4 DEF NextRound, CapRollback, Step
    <3>2. hHist' \in Seq(Messages) /\ Rounds(hHist', 0) /\ (hHist' # <<>>
          => hHist'[1].role = "user")
      BY <1>0, <3>1, TurnRolledBack
    <3>3. [x EXCEPT !.pc = "flush"] \in TurnRecords /\ [x EXCEPT !.pc = "flush"].pc = "flush"
      BY <1>2, TurnAt DEF TurnPcs
    <3> QED
      BY <1>1, <3>1, <3>2, <3>3, TurnRests
  <2> QED
    BY <2>3, <2>4
<1> QED
  BY <1>6, <1>7, <1>8, <1>9

\* A turn begins while none runs.
LEMMA BeginSteps ==
  ASSUME HistoryInv, ~hMixed,  ~hMixed',
         (\E t \in Turns2 : Chat(t)) \/ Interpret \/ Translated
  PROVE  HistoryInv'
<1>0. /\ "user" \in Turns2 /\ "loop" \in Turns2 /\ Other("user") = "loop" /\ Other("loop") = "user"
      /\ \A t \in Turns2 : t = "user" \/ t = "loop"
  BY DEF Turns2, Other
<1>1. hHist \in Seq(Messages) /\ (hHist # <<>> => hHist[1].role = "user")
  BY DEF HistoryInv
<1>2. ASSUME NEW t \in Turns2, Chat(t) PROVE HistoryInv'
  <2>1. ~Running(t) /\ ~Running(Other(t)) /\ BeginDefault(t, hHist)
    BY <1>2 DEF Chat
  <2>2. \A u \in Turns2 : hTurn[u].pc \notin {"stream", "tool"}
    BY <1>0, <2>1 DEF Running
  <2>3. Rounds(hHist, 0)
    BY <2>2 DEF HistoryInv
  <2> QED
    BY <1>1, <2>1, <2>3, DefaultBegins
<1>3. CASE Interpret
  <2>1. ~Running("user") /\ ~Running("loop")
    BY <1>3 DEF Interpret
  <2>2. CASE BeginDefault("user", <<>>)
    BY <1>0, <2>1, <2>2, EmptyHistory, DefaultBegins
  <2>3. CASE hHist' = <<>> /\ Step("user", [Resting EXCEPT !.pc = "translate"])
    <3>1. hTurn' = [hTurn EXCEPT !["user"] = [Resting EXCEPT !.pc = "translate"]]
      BY <2>3 DEF Step
    <3>2. "translate" \in TurnPcs
      BY DEF TurnPcs
    <3>3. /\ [Resting EXCEPT !.pc = "translate"] \in TurnRecords
          /\ [Resting EXCEPT !.pc = "translate"].pc = "translate"
      BY <3>2, TurnRests0, TurnAt, Zenon
    <3> QED
      BY <1>0, <2>1, <2>3, <3>1, <3>3, EmptyHistory, TurnRests
  <2> QED
    BY <1>3, <2>2, <2>3 DEF Interpret
<1>4. CASE Translated
  <2>1. Running("user") /\ ~Running("loop") /\ hTurn["user"].pc = "translate"
    BY <1>4 DEF Translated, Running
  <2>2. Rounds(hHist, 0)
    BY <1>0, <2>1, TurnHistory
  <2>3. CASE BeginDefault("user", hHist)
    BY <1>0, <1>1, <2>1, <2>2, <2>3, DefaultBegins
  <2>4. CASE Step("user", [hTurn["user"] EXCEPT !.pc = "flush", !.sent = TRUE]) /\ UNCHANGED hHist
    <3>1. hTurn' = [hTurn EXCEPT !["user"] = [hTurn["user"] EXCEPT !.pc = "flush", !.sent = TRUE]]
      BY <2>4 DEF Step
    <3>2. "flush" \in TurnPcs /\ hTurn["user"] \in TurnRecords
      BY <1>0, TurnFields DEF TurnPcs
    <3>3. /\ [hTurn["user"] EXCEPT !.pc = "flush", !.sent = TRUE] \in TurnRecords
          /\ [hTurn["user"] EXCEPT !.pc = "flush", !.sent = TRUE].pc = "flush"
      BY <3>2, TurnSent, Zenon
    <3> QED
      BY <1>0, <1>1, <2>1, <2>2, <2>4, <3>1, <3>3, TurnRests
  <2> QED
    BY <1>4, <2>3, <2>4 DEF Translated
<1> QED
  BY <1>2, <1>3, <1>4

\* Every step of the agent keeps the invariant.
LEMMA TalkStep ==
  ASSUME TalkInv, [HNext]_hVars
  PROVE  TalkInv'
<1>1. CASE hHist' = hHist /\ hTurn' = hTurn /\ hMixed' = hMixed
  BY <1>1 DEF TalkInv, HistoryInv, TurnInv, Running
<1>2. ASSUME NEW t \in Turns2, TurnSteps(t) \/ CancelledLate(t) PROVE TalkInv'
  <2>1. hMixed' = hMixed
    BY <1>2
    DEF TurnSteps, CancelledLate, Token, FinalText, CommitCalls, ToolResult, Template,
                NextRound, Flush, Fails, Aborted
  <2>2. ASSUME ~hMixed' PROVE HistoryInv'
    <3>1. HistoryInv
      BY <2>1, <2>2 DEF TalkInv
    <3>2. CASE FinalText(t) \/ Template(t) \/ Flush(t) \/ Fails(t) \/ Aborted(t) \/ CancelledLate(t)
      BY <2>2, <3>1, <3>2, RestingSteps
    <3>3. CASE Token(t) \/ CommitCalls(t) \/ ToolResult(t) \/ NextRound(t)
      BY <2>2, <3>1, <3>3, RoundSteps
    <3> QED
      BY <1>2, <3>2, <3>3 DEF TurnSteps
  <2> QED
    BY <2>1, <2>2 DEF TalkInv
<1>3. CASE (\E t \in Turns2 : Chat(t)) \/ Interpret \/ Translated
  <2>1. hMixed' \in BOOLEAN /\ (~hMixed' => ~hMixed)
    BY <1>3 DEF Chat, Interpret, Translated, TalkInv
  <2>2. ASSUME ~hMixed' PROVE HistoryInv'
    BY <1>3, <2>1, <2>2, BeginSteps DEF TalkInv
  <2> QED
    BY <2>1, <2>2 DEF TalkInv
<1>4. CASE SessionClear
  <2>1. hMixed' = (hMixed \/ \E t \in Turns2 : Running(t)) /\ hHist' = <<>>
    BY <1>4 DEF SessionClear
  <2>2. hMixed' \in BOOLEAN /\ (~hMixed' => ~hMixed /\ \A t \in Turns2 : ~Running(t))
    BY <2>1, Zenon DEF TalkInv
  <2>3. ASSUME ~hMixed' PROVE HistoryInv'
    <3>1. HistoryInv /\ "user" \in Turns2 /\ Other("user") \in Turns2
      BY <2>2, <2>3 DEF TalkInv, Turns2, Other
    <3>2. hTurn' = [hTurn EXCEPT !["user"] = hTurn["user"]]
      BY <1>4, <2>3 DEF SessionClear, Step
    <3>3. hTurn["user"] \in TurnRecords /\ hTurn["user"].pc = "off" /\ ~Running(Other("user"))
      BY <2>2, <2>3, <3>1, TurnFields DEF Running
    <3> QED
      BY <2>1, <3>1, <3>2, <3>3, EmptyHistory, TurnRests
  <2> QED
    BY <2>2, <2>3 DEF TalkInv
<1>5. CASE \E t \in Turns2 : Unavailable(t)
  BY <1>1, <1>5 DEF Unavailable
<1>6. CASE NoReply \/ (\E name \in ModeNames : Switch(name)) \/ Exited \/ UNCHANGED hVars
  BY <1>1, <1>6 DEF NoReply, Switch, Exited, hVars
<1> QED
  BY <1>2, <1>3, <1>4, <1>5, <1>6 DEF HNext

\* Every request sent to the model is a well-formed conversation, as long as no two turns
\* ran at once: agent llm.py, the history and its trimming.
THEOREM RequestsCorrect == HSpec => []RequestsValid
<1>1. HInit => TalkInv
  <2> SUFFICES ASSUME HInit PROVE TalkInv
    OBVIOUS
  <2>1. hHist = <<>> /\ hTurn = [t \in Turns2 |-> Resting] /\ hMixed = FALSE
    BY DEF HInit
  <2>2. hTurn \in [Turns2 -> TurnRecords] /\ \A t \in Turns2 : hTurn[t].pc = "off"
    BY <2>1, TurnRests0 DEF Resting
  <2> QED
    BY <2>1, <2>2, EmptyHistory DEF TalkInv, HistoryInv, TurnInv, Running
<1>2. TalkInv /\ [HNext]_hVars => TalkInv'
  BY TalkStep
<1>3. TalkInv => RequestsValid
  BY TalkValid
<1> QED
  BY <1>1, <1>2, <1>3, PTL DEF HSpec


-----------------------------------------------------------------------------
(* LlmClient *)

\* What the calls of a request may still become: the retries that are left, the fallback
\* while the prefix cache is in use, and the call that is about to be made.
CallsLeft == kAttempt + (IF kPrefix THEN 1 ELSE 0) + (IF kPc = "call" THEN 1 ELSE 0)
CallInv ==
  /\ kPc \in {"idle", "call", "stream", "report"} /\ kPrefix \in BOOLEAN
  /\ kAttempt \in Nat /\ kCalls \in Nat
  /\ kPc \in {"call", "stream"} => kCalls + CallsLeft <= RetryOnTransient + 2
  /\ kCalls <= RetryOnTransient + 2
\* A call is retried only if nothing of it, or of an earlier one, was spoken.
VoiceInv ==
  /\ kSpoken \subseteq {kCalls}
  /\ kPc = "call" => kSpoken = {}
LlmInv == CallInv /\ VoiceInv

\* Between two requests nothing is left of the last one.
LEMMA LlmStart == KInit => LlmInv
<1> SUFFICES ASSUME KInit PROVE LlmInv
  OBVIOUS
<1>1. kPc = "idle" /\ kPrefix = FALSE /\ kAttempt = 0 /\ kCalls = 0 /\ kSpoken = {}
  BY DEF KInit
<1>2. CallInv
  <2>1. kPrefix \in BOOLEAN
    BY <1>1, Zenon
  <2> QED
    BY <1>1, <2>1, LlmBounds DEF CallInv
<1>3. VoiceInv
  BY <1>1 DEF VoiceInv
<1> QED
  BY <1>2, <1>3 DEF LlmInv

\* At most one call has spoken, and the calls of a request are bounded.
LEMMA LlmVoice == LlmInv => OneVoicePerRequest
<1> SUFFICES ASSUME LlmInv PROVE OneVoicePerRequest
  OBVIOUS
<1>1. IsFiniteSet({kCalls}) /\ Cardinality({kCalls}) = 1
  BY FS_Singleton
<1>2. Cardinality(kSpoken) <= 1
  BY <1>1, FS_Subset DEF LlmInv, VoiceInv
<1> QED
  BY <1>2 DEF OneVoicePerRequest, LlmInv, CallInv

\* Every step keeps it: what the calls may still become goes down with each one made.
LEMMA LlmStep ==
  ASSUME LlmInv, [KNext]_kVars
  PROVE  LlmInv'
<1> USE LlmBounds DEF LlmInv, CallInv, VoiceInv, CallsLeft
<1>1. ASSUME UNCHANGED <<kPc, kPrefix, kAttempt, kCalls, kSpoken>> PROVE LlmInv'
  BY <1>1
<1>2. CASE Request
  BY <1>2 DEF Request
<1>3. CASE Upstream
  BY <1>3 DEF Upstream
<1>4. CASE Payload
  BY <1>4 DEF Payload
<1>5. CASE StreamDrained
  BY <1>5 DEF StreamDrained
<1>6. CASE CallFails
  <2>1. PICK transient, cache \in BOOLEAN :
          LET again == Retries(transient)
              latched == ~again /\ kPrefix /\ cache
              fallback == latched /\ kSpoken = {}
          IN  /\ kAttempt' = IF again THEN kAttempt - 1 ELSE 0
              /\ kPrefix' = (kPrefix /\ ~latched)
              /\ kPc' = IF again \/ fallback THEN "call" ELSE "report"
    BY <1>6 DEF CallFails
  <2>2. kPc = "stream" /\ kCalls' = kCalls /\ kSpoken' = kSpoken
    BY <1>6 DEF CallFails
  <2>3. CASE Retries(transient)
    BY <2>1, <2>2, <2>3 DEF Retries
  <2>4. CASE ~Retries(transient)
    <3>1. kAttempt' = 0 /\ kPc' \in {"call", "report"}
      BY <2>1, <2>4
    <3>2. CASE kPc' = "report"
      <4>1. kPrefix' \in BOOLEAN
        BY <2>1
      <4> QED
        BY <2>2, <3>1, <3>2, <4>1
    <3>3. CASE kPc' = "call"
      <4>1. kPrefix = TRUE /\ kSpoken = {} /\ kPrefix' = FALSE
        BY <2>1, <2>4, <3>3
      <4>2. kPrefix' \in BOOLEAN
        BY <4>1, Zenon
      <4>3. kCalls' + 1 <= RetryOnTransient + 2
        BY <2>2, <4>1
      <4>4. CallsLeft' = 1
        BY <3>1, <3>3, <4>1
      <4>5. CallInv'
        BY <2>2, <3>1, <3>3, <4>2, <4>3, <4>4 DEF CallInv
      <4>6. VoiceInv'
        BY <2>2, <4>1
      <4> QED
        BY <4>5, <4>6
    <3> QED
      BY <3>1, <3>2, <3>3
  <2> QED
    BY <2>3, <2>4
<1>7. CASE RequestCancelled \/ Report
  <2>1. kPc' = "idle" /\ kAttempt' = 0 /\ kPrefix' = FALSE /\ kCalls' = 0 /\ kSpoken' = {}
    BY <1>7 DEF RequestCancelled, Report
  <2>2. kPrefix' \in BOOLEAN
    BY <2>1, Zenon
  <2>3. CallInv'
    BY <2>1, <2>2
  <2> QED
    BY <2>1, <2>3
<1>8. CASE \E p \in Probers : ProbeBegins(p) \/ ProbeEnds(p)
  BY <1>1, <1>8 DEF ProbeBegins, ProbeEnds, kReq
<1>9. CASE Start \/ Stop \/ Flip \/ Warmup \/ Trimmed \/ Reset
  BY <1>1, <1>9 DEF Start, Stop, Flip, Warmup, Trimmed, Reset, kReq
<1>10. CASE UNCHANGED kVars
  BY <1>1, <1>10 DEF kVars
<1> QED
  BY <1>2, <1>3, <1>4, <1>5, <1>6, <1>7, <1>8, <1>9, <1>10 DEF KNext

\* What a turn speaks comes from one call of the LLM, and a request makes no more calls
\* than its attempts and one fallback: llm/openai_compat.py and llm/edge_llm.py.
THEOREM OneVoiceCorrect == KSpec => []OneVoicePerRequest
<1>1. LlmInv /\ [KNext]_kVars => LlmInv'
  BY LlmStep
<1> QED
  BY LlmStart, LlmVoice, <1>1, PTL DEF KSpec

\* The counter of failures stays within its threshold.
DownInv == DownIsEarned /\ kFail \in 0 .. FailuresToDown /\ kState \in AvailabilityStates

\* Every step of the availability machine keeps the counter in line with its state.
LEMMA DownStep ==
  ASSUME DownInv, [KNext]_kVars
  PROVE  DownInv'
<1> USE LlmBounds DEF DownInv, DownIsEarned, AvailabilityStates
<1>1. ASSUME UNCHANGED <<kFail, kState>> PROVE DownInv'
  BY <1>1
<1>2. ASSUME NEW ok, Advance(ok) PROVE DownInv'
  <2>1. CASE ok
    BY <1>2, <2>1 DEF Advance, AfterSuccess
  <2>2. CASE ~ok
    BY <1>2, <2>2 DEF Advance, AfterFailure, UpTo
  <2> QED
    BY <2>1, <2>2
<1>3. CASE \E p \in Probers : ProbeEnds(p)
  <2>1. Advance(TRUE) \/ Advance(FALSE) \/ NoAnswer
    BY <1>3 DEF ProbeEnds
  <2>2. NoAnswer => DownInv'
    BY DEF NoAnswer
  <2> QED
    BY <1>2, <2>1, <2>2
<1>4. CASE Report
  <2>1. (kOn /\ Advance(kOk)) \/ UNCHANGED <<kFail, kState>>
    BY <1>4 DEF Report
  <2> QED
    BY <1>1, <1>2, <2>1
<1>5. CASE \E p \in Probers : ProbeBegins(p)
  BY <1>1, <1>5 DEF ProbeBegins
<1>6. CASE Start \/ Stop \/ Flip \/ Warmup \/ Trimmed \/ Reset
  BY <1>1, <1>6 DEF Start, Stop, Flip, Warmup, Trimmed, Reset, kAvail
<1>7. CASE Request \/ Upstream \/ Payload \/ StreamDrained \/ CallFails \/ RequestCancelled
  BY <1>1, <1>7 DEF Request, Upstream, Payload, StreamDrained, CallFails, RequestCancelled, kAvail
<1>8. CASE UNCHANGED kVars
  BY <1>1, <1>8 DEF kVars
<1> QED
  BY <1>3, <1>4, <1>5, <1>6, <1>7, <1>8 DEF KNext

\* The gate in front of the turns closes only after as many failures as its threshold, and
\* a success that is seen as HEALTHY wipes them out: plugins/llm_availability.py.
THEOREM DownCorrect == KSpec => []DownIsEarned
<1>1. KInit => DownInv
  BY LlmBounds DEF KInit, DownInv, DownIsEarned, AvailabilityStates
<1>2. DownInv /\ [KNext]_kVars => DownInv'
  BY DownStep
<1>3. DownInv => DownIsEarned
  BY DEF DownInv
<1> QED
  BY <1>1, <1>2, <1>3, PTL DEF KSpec

-----------------------------------------------------------------------------
(* AgentLife *)

\* Which phase of shutdown() has put an end to what; the phases after the plugins have
\* stopped find no restart under way.
LifeInv ==
  /\ lPc \in [Restarters -> {"off", "idle", "lock", "wait"}]
  /\ RestartsExclude
  /\ lPhase = "start" => lPc["dog"] = "off" /\ ~lPlugins
  /\ ~lPlugins => lPc["api"] = "off"
  /\ lPhase \in {"mic", "plugins", "dispatch", "closed"} => lPc["dog"] = "off"
  /\ lPhase \in {"plugins", "dispatch", "closed"} => ~lPlugins
  /\ lPhase \in {"dispatch", "closed"} => ~lDisp
  /\ lPhase = "closed" => lPump = "done" /\ lIn = "none" /\ ~lOut /\ ~lSlv

\* The phases of the process follow one another; only shutdown() ends what it ends.
LEMMA LifeStep ==
  ASSUME LifeInv, [LNext]_lVars
  PROVE  LifeInv'
<1> USE DEF LifeInv, RestartsExclude, Restarters, NobodyIn
<1>1. CASE Boot
  BY <1>1 DEF Boot
<1>2. CASE StartPlugins
  BY <1>2 DEF StartPlugins, lCapture
<1>3. ASSUME NEW ok \in BOOLEAN, PumpOpens(ok) PROVE LifeInv'
  BY <1>3 DEF PumpOpens, lRestarts, lRest
<1>4. CASE PumpEnds \/ OldGenCloses \/ PumpChunk
  BY <1>4 DEF PumpEnds, OldGenCloses, PumpChunk, lRestarts, lRest
<1>5. ASSUME NEW ok \in BOOLEAN, DevicesChange(ok) PROVE LifeInv'
  BY <1>5 DEF DevicesChange, lRestarts, lRest
<1>6. CASE StreamSilent \/ EnsureOutput
  BY <1>6 DEF StreamSilent, EnsureOutput, lRestarts, lRest
<1>7. CASE WatchdogRestarts \/ ApiRestarts
  BY <1>7 DEF WatchdogRestarts, ApiRestarts, lCapture, lRest
<1>8. ASSUME NEW a \in Restarters, RestartLocks(a) PROVE LifeInv'
  BY <1>8 DEF RestartLocks, lRest
<1>9. ASSUME NEW a \in Restarters, RestartPump(a) PROVE LifeInv'
  BY <1>9 DEF RestartPump, lRest
<1>10. CASE TurnStarts \/ TurnEnds \/ TimerSet \/ SleepFires
  <2>1. UNCHANGED <<lPhase, lCapture, lRestarts, lDisp, lPlugins, lSlv>>
    BY <1>10 DEF TurnStarts, TurnEnds, TimerSet, SleepFires
  <2> QED
    BY <2>1 DEF lCapture, lRestarts
<1>11. CASE ShutdownBegins
  BY <1>11 DEF ShutdownBegins, LPhase, lCapture
<1>12. CASE StopMic
  BY <1>12 DEF StopMic, LPhase, lRest
<1>13. CASE StopPlugins
  BY <1>13 DEF StopPlugins, LPhase, lCapture
<1>14. CASE StopDispatch
  BY <1>14 DEF StopDispatch, LPhase, lCapture, lRestarts
<1>15. CASE CloseTransport
  BY <1>15 DEF CloseTransport, LPhase, lRestarts
<1>16. CASE UNCHANGED lVars
  BY <1>16 DEF lVars
<1> QED
  BY <1>1, <1>2, <1>3, <1>4, <1>5, <1>6, <1>7, <1>8, <1>9, <1>10, <1>11, <1>12, <1>13, <1>14,
     <1>15, <1>16 DEF LNext, Capture, Restarting

\* The process starts with nobody restarting anything.
LEMMA LifeStart == LInit => LifeInv
BY DEF LInit, LifeInv, RestartsExclude, Restarters, NobodyIn

\* The watchdog and the dashboard exclude each other in restart_mic_capture(): one waits
\* for the old pump, and one pump comes after it (app_base.py).
THEOREM RestartsExcludeCorrect == LSpec => []RestartsExclude
<1>1. LifeInv /\ [LNext]_lVars => LifeInv'
  BY LifeStep
<1>2. LifeInv => RestartsExclude
  BY DEF LifeInv
<1> QED
  BY LifeStart, <1>1, <1>2, PTL DEF LSpec

\* After shutdown() no pump runs or can be started and no audio stream is open, whatever
\* restarts, device changes and silent streams came before: app_base.py and audio_io.py.
THEOREM ClosedIsSilentCorrect == LSpec => []ClosedIsSilent
<1>1. LifeInv /\ [LNext]_lVars => LifeInv'
  BY LifeStep
<1>2. LifeInv => ClosedIsSilent
  BY DEF LifeInv, ClosedIsSilent, Restarters
<1> QED
  BY LifeStart, <1>1, <1>2, PTL DEF LSpec

\* Every step keeps the types.
LEMMA LTypeStep ==
  ASSUME LTypeOK, [LNext]_lVars
  PROVE  LTypeOK'
<1> USE LifeBounds DEF LTypeOK, Restarters, NobodyIn, lCapture, lRest, lRestarts, LPhase, Fault
<1>1. CASE Boot
  BY <1>1 DEF Boot
<1>2. CASE StartPlugins
  BY <1>2 DEF StartPlugins
<1>3. ASSUME NEW ok \in BOOLEAN, PumpOpens(ok) PROVE LTypeOK'
  <2>1. OpenInput(ok) /\ (lFaults' = lFaults \/ Fault) /\ lPump' \in {"reading", "done"}
    BY <1>3 DEF PumpOpens
  <2>2. lIn' \in {"none", "open"} /\ lFails' \in Nat /\ (lOut' = lOut \/ lOut' = FALSE)
    BY <2>1 DEF OpenInput
  <2>3. lWatch' \in BOOLEAN
    BY <1>3, Zenon DEF PumpOpens
  <2>4. lFaults' \in 0 .. MaxFaults
    BY <2>1
  <2>5. UNCHANGED <<lPhase, lOldGen, lRestarts, lRest>>
    BY <1>3 DEF PumpOpens
  <2> QED
    BY <2>1, <2>2, <2>3, <2>4, <2>5
<1>4. CASE PumpEnds
  <2>1. lWatch' \in BOOLEAN /\ lOldGen' \in BOOLEAN /\ lIn' \in {lIn, "none"}
    BY <1>4 DEF PumpEnds
  <2> QED
    BY <1>4, <2>1 DEF PumpEnds
<1>5. CASE OldGenCloses
  BY <1>5 DEF OldGenCloses
<1>6. CASE PumpChunk
  BY <1>6 DEF PumpChunk
<1>7. ASSUME NEW ok \in BOOLEAN, DevicesChange(ok) PROVE LTypeOK'
  <2>1. /\ Fault /\ UNCHANGED <<lPhase, lPump, lWatch, lOldGen, lRestarts, lRest>>
        /\ \/ UNCHANGED <<lIn, lFails>> /\ lOut' = FALSE
           \/ OpenInput(ok)
    BY <1>7 DEF DevicesChange
  <2>2. lIn' \in {"none", "open", "silent"} /\ lFails' \in Nat /\ (lOut' = lOut \/ lOut' = FALSE)
    BY <2>1 DEF OpenInput
  <2>3. lFaults' \in 0 .. MaxFaults
    BY <2>1
  <2> QED
    BY <2>1, <2>2, <2>3
<1>8. CASE StreamSilent
  BY <1>8 DEF StreamSilent
<1>9. CASE EnsureOutput
  BY <1>9 DEF EnsureOutput
<1>10. CASE WatchdogRestarts \/ ApiRestarts
  BY <1>10 DEF WatchdogRestarts, ApiRestarts
<1>11. ASSUME NEW a \in Restarters, RestartLocks(a) PROVE LTypeOK'
  BY <1>11 DEF RestartLocks, Cancelled
<1>12. ASSUME NEW a \in Restarters, RestartPump(a) PROVE LTypeOK'
  BY <1>12 DEF RestartPump
<1>13. CASE TurnStarts \/ TurnEnds \/ TimerSet \/ SleepFires
  <2>1. /\ UNCHANGED <<lPhase, lCapture, lRestarts, lDisp, lPlugins, lSlv, lFaults>>
        /\ lTurn' \in {lTurn, TRUE, FALSE} /\ lTimer' \in {lTimer, TRUE, FALSE}
    BY <1>13 DEF TurnStarts, TurnEnds, TimerSet, SleepFires
  <2>2. lTurn' \in BOOLEAN /\ lTimer' \in BOOLEAN
    BY <2>1, Zenon
  <2> QED
    BY <2>1, <2>2
<1>14. CASE ShutdownBegins
  BY <1>14 DEF ShutdownBegins
<1>15. CASE StopMic
  BY <1>15 DEF StopMic, Cancelled
<1>16. CASE StopPlugins
  BY <1>16 DEF StopPlugins
<1>17. CASE StopDispatch
  BY <1>17 DEF StopDispatch
<1>18. CASE CloseTransport
  BY <1>18 DEF CloseTransport
<1>19. CASE UNCHANGED lVars
  BY <1>19 DEF lVars
<1> QED
  BY <1>1, <1>2, <1>3, <1>4, <1>5, <1>6, <1>7, <1>8, <1>9, <1>10, <1>11, <1>12, <1>13, <1>14,
     <1>15, <1>16, <1>17, <1>18, <1>19 DEF LNext, Capture, Restarting

\* The state of the process is well typed, for any threshold and number of faults:
\* app_base.py and audio_io.py.
THEOREM LifeTypeCorrect == LSpec => []LTypeOK
<1>1. LInit => LTypeOK
  <2> SUFFICES ASSUME LInit PROVE LTypeOK
    OBVIOUS
  <2>1. /\ {lTurn, lDisp, lPlugins, lSlv, lTimer} \subseteq BOOLEAN
        /\ {lOut, lWatch, lOldGen} \subseteq BOOLEAN
    BY Zenon DEF LInit
  <2> QED
    BY <2>1, LifeBounds DEF LInit, LTypeOK, Restarters, NobodyIn
<1>2. LTypeOK /\ [LNext]_lVars => LTypeOK'
  BY LTypeStep
<1> QED
  BY <1>1, <1>2, PTL DEF LSpec

-----------------------------------------------------------------------------
(* Dialogue *)

\* Every wait is for a cancelled turn, and only the six coroutines wait.
TurnsInv == AwaitedTurnsEnd /\ DOMAIN dAwait = Actors

\* What a step does with the turn tasks: nothing, it cancels the current one, one ends,
\* a new one starts, or the pump gives up its wait.
Cancels == /\ dCur \in dLive /\ dKill' = dKill \cup {dCur} /\ dLive' = dLive
           /\ \E a \in Actors : dAwait' = [dAwait EXCEPT ![a] = dCur]
Spawns == dLive' \subseteq Turns /\ dLive \subseteq dLive' /\ UNCHANGED <<dKill, dAwait>>
GivesUp == dAwait' = [dAwait EXCEPT !["mic"] = NoTurn] /\ UNCHANGED <<dLive, dKill>>
Tasks == UNCHANGED dTask \/ Cancels \/ (\E t \in Turns : TurnOver(t)) \/ Spawns \/ GivesUp

\* cancel() of the current turn's task, and the wait for it.
LEMMA CancelCancels ==
  ASSUME NEW a \in Actors, NEW l, CancelTurn(a, l)
  PROVE  Cancels
BY DEF CancelTurn, Cancels

\* interrupt() cancels the turn that runs, if one does.
LEMMA InterruptTasks ==
  ASSUME NEW a \in Actors, Interrupt(a)
  PROVE  Tasks
BY CancelCancels DEF Interrupt, Tasks

\* The part of a final that follows its reconnect.
LEMMA FinalTasks ==
  ASSUME TurnsInv, NEW a \in Actors, InFinal(a)
  PROVE  Tasks
<1>1. CASE FinalNoise(a) \/ FinalReal(a) \/ StopIntent(a)
  BY <1>1 DEF FinalNoise, FinalReal, StopIntent, Tasks
<1>2. CASE FinalCancels(a)
  BY <1>2, CancelCancels DEF FinalCancels, Tasks
<1>3. CASE SpawnTurn(a)
  <2>1. FreeTurns \subseteq Turns /\ FreeTurns # {}
    BY <1>3 DEF SpawnTurn, FreeTurns
  <2>2. FreeTurns \in SUBSET Nat
    BY <2>1, DialogueBounds
  <2>3. Min(FreeTurns) \in FreeTurns
    BY <2>1, <2>2, MinExists
  <2> QED
    BY <1>3, <2>1, <2>3 DEF SpawnTurn, Tasks, Spawns, TurnsInv, AwaitedTurnsEnd
<1> QED
  BY <1>1, <1>2, <1>3 DEF InFinal

\* sleep() cancels the turn that runs, or finds none.
LEMMA SleepTasks ==
  ASSUME NEW a \in Actors, Sleeping(a)
  PROVE  Tasks
<1>1. CASE SleepCancels(a)
  BY <1>1, CancelCancels DEF SleepCancels, Tasks
<1>2. CASE SleepAborts(a) \/ Sleeps(a)
  BY <1>2 DEF SleepAborts, Sleeps, Tasks
<1> QED
  BY <1>1, <1>2 DEF Sleeping

\* Every step is one of these.
LEMMA StepTasks ==
  ASSUME TurnsInv, [DNext]_dVars
  PROVE  Tasks
<1> USE DEF Actors
<1>1. CASE Dispatching
  <2>1. CASE InFinal("disp")
    BY <2>1, FinalTasks
  <2>2. CASE ErrorCancels
    <3>1. \E l : CancelTurn("disp", l)
      BY <2>2 DEF ErrorCancels
    <3> QED
      BY <3>1, CancelCancels DEF Tasks
  <2>3. CASE BargeStops("disp") \/ BargeEnds("disp") \/ ReconAsleep \/ Play \/ TtsDoneEnds
    BY <2>3 DEF BargeStops, BargeEnds, ReconAsleep, Play, TtsDoneEnds, Tasks
  <2>4. CASE ErrorEnds \/ DispatchReconnects \/ \E ok \in BOOLEAN : FinalReconnects(ok)
    BY <2>4 DEF ErrorEnds, DispatchReconnects, FinalReconnects, Tasks
  <2> QED
    BY <1>1, <2>1, <2>2, <2>3, <2>4 DEF Dispatching
<1>2. CASE OnPartial
  BY <1>2, InterruptTasks DEF OnPartial
<1>3. CASE SpeechStarts
  <2>1. Interrupt("mic") \/ UNCHANGED dTask
    BY <1>3 DEF SpeechStarts
  <2> QED
    BY <2>1, InterruptTasks DEF Tasks
<1>4. CASE Final \/ (\E c \in BOOLEAN : OnFinalAsleep(c)) \/ OnTtsStarted \/ OnTtsAudio \/ OnTtsDone
  BY <1>4 DEF Final, OnFinal, OnFinalAsleep, OnTtsStarted, OnTtsAudio, OnTtsDone, Tasks
<1>5. CASE OnError \/ ConnectionLost \/ SpeechEnds \/ Drained \/ AsrFinalWatchdog \/ SleepTimer
  BY <1>5 DEF OnError, ConnectionLost, SpeechEnds, Drained, AsrFinalWatchdog, SleepTimer, Tasks
<1>6. CASE InFinal("inj")
  BY <1>6, FinalTasks
<1>7. CASE Pumping
  BY <1>7 DEF Pumping, BargeStops, BargeEnds, SendEos, EosSent, UtteranceEnds, Tasks
<1>8. CASE DogRuns
  <2>1. CASE ThinkingWatchdog
    <3>1. CancelTurn("dog", "turn") \/ UNCHANGED dTask
      BY <2>1 DEF ThinkingWatchdog
    <3> QED
      BY <3>1, CancelCancels DEF Tasks
  <2>2. CASE DogReconnects \/ DogRecovers
    BY <2>2 DEF DogReconnects, DogRecovers, Tasks
  <2> QED
    BY <1>8, <2>1, <2>2 DEF DogRuns
<1>9. CASE Sleeping("tmr")
  BY <1>9, SleepTasks
<1>10. CASE (\E then \in WakeThens : CallWake(then)) \/ CallPttEnd \/ CallSleep \/ CallSendText
  BY <1>10 DEF CallWake, CallPttEnd, CallSleep, CallSendText, Tasks
<1>11. CASE CallAbort \/ CallReconnect
  BY <1>11 DEF CallAbort, CallReconnect, Tasks
<1>12. CASE CallRestartMic
  BY <1>12 DEF CallRestartMic, Tasks, GivesUp
<1>13. CASE Controlling
  <2>1. CASE Sleeping("api")
    BY <2>1, SleepTasks
  <2>2. CASE SendEos("api") \/ EosSent("api") \/ UtteranceEnds("api")
    BY <2>2 DEF SendEos, EosSent, UtteranceEnds, Tasks
  <2>3. CASE \/ Wakes \/ PttStart \/ Inject
             \/ \E ok \in BOOLEAN : WakeReconnects(ok) \/ Reconnected(ok)
    BY <2>3 DEF Wakes, PttStart, Inject, WakeReconnects, Reconnected, Tasks
  <2> QED
    BY <1>13, <2>1, <2>2, <2>3 DEF Controlling
<1>14. ASSUME NEW t \in Turns, TurnSpeaks(t) \/ TurnRuns(t) PROVE Tasks
  BY <1>14 DEF TurnSpeaks, TurnRuns, TurnFlushes, TurnFails, TurnCancelled, Tasks
<1>15. CASE UNCHANGED dVars
  BY <1>15 DEF dVars, dTask, Tasks
<1> QED
  BY <1>1, <1>2, <1>3, <1>4, <1>5, <1>6, <1>7, <1>8, <1>9, <1>10, <1>11, <1>12, <1>13, <1>14,
     <1>15 DEF DNext

\* None of them leaves a wait for a turn that has not been told to end.
LEMMA TasksKeep ==
  ASSUME TurnsInv, Tasks
  PROVE  TurnsInv'
<1> USE DEF TurnsInv, AwaitedTurnsEnd
<1>1. CASE UNCHANGED dTask
  BY <1>1 DEF dTask
<1>2. CASE Cancels
  BY <1>2 DEF Cancels
<1>3. ASSUME NEW t \in Turns, TurnOver(t) PROVE TurnsInv'
  BY <1>3 DEF TurnOver
<1>4. CASE Spawns
  BY <1>4 DEF Spawns
<1>5. CASE GivesUp
  BY <1>5 DEF GivesUp
<1> QED
  BY <1>1, <1>2, <1>3, <1>4, <1>5 DEF Tasks

\* Whoever waits for a turn of the language model waits for one that has been cancelled,
\* for any interleaving of the app's coroutines: app_base.py.
THEOREM AwaitedTurnsEndCorrect == DSpec => []AwaitedTurnsEnd
<1>1. DInit => TurnsInv
  BY DEF DInit, TurnsInv, AwaitedTurnsEnd
<1>2. TurnsInv /\ [DNext]_dVars => TurnsInv'
  BY StepTasks, TasksKeep
<1>3. TurnsInv => AwaitedTurnsEnd
  BY DEF TurnsInv
<1> QED
  BY <1>1, <1>2, <1>3, PTL DEF DSpec

=============================================================================
