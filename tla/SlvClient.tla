------------------------------ MODULE SlvClient ------------------------------
(***************************************************************************)
(* agent/openvoicestream_agent/slv_client.py: the one WebSocket of the agent *)
(* to /v2v/stream, with the coroutines that use it: the dispatch loop and    *)
(* whoever else reconnects (wake, a watchdog, the dashboard), the microphone *)
(* pump that sends and may connect, and close().  The server (external) has  *)
(* one session slot and frees it some time after a socket is closed.         *)
(***************************************************************************)
EXTENDS Naturals, FiniteSetsExt

CONSTANTS
  NSocks,     \* bound: sockets that are not yet forgotten by all
  Attempts,   \* len(_RECONNECT_BACKOFFS) + 1
  MaxDown,    \* bound: how often the server ends a session or goes away
  MaxCut      \* bound: reconnects cut off by wait_for()

ASSUME SlvSocks == NSocks \in Nat
ASSUME SlvAttempts == Attempts \in Nat \ {0} /\ {MaxDown, MaxCut} \subseteq Nat

Callers == {"disp", "wake", "mic"}
Socks == 1 .. NSocks
NoSock == 0
NobodyHolds == "nobody"

VARIABLES
  cClosed,   \* _closed
  cWs,       \* _ws
  cReader,   \* the socket of _reader_task, NoSock for None
  cReaders,  \* reader tasks that run
  cDone,     \* _reader_done
  cLock,     \* _send_lock
  cRecon,    \* _reconnecting
  cPc,       \* where each caller is
  cLeft,     \* attempts left in _open_with_retry()
  cOpen,     \* sockets the client has not closed
  cDead,     \* ... that the server has
  cSlot,     \* sockets whose session the server still counts
  cUp, cDowns, cCuts

cVars == <<cClosed, cWs, cReader, cReaders, cDone, cLock, cRecon, cPc, cLeft, cOpen, cDead,
           cSlot, cUp, cDowns, cCuts>>
cNet == <<cSlot, cUp, cDowns, cCuts>>
cSelf == <<cClosed, cRecon, cLeft>>

CInit ==
  /\ cClosed = FALSE /\ cWs = NoSock /\ cReader = NoSock /\ cReaders = {}
  /\ cDone = FALSE /\ cLock = NobodyHolds /\ cRecon = FALSE
  /\ cPc = [a \in Callers |-> IF a = "disp" THEN "start" ELSE "idle"]
  /\ cLeft = 0
  /\ cOpen = {} /\ cDead = {} /\ cSlot = {} /\ cUp = TRUE /\ cDowns = 0 /\ cCuts = 0

CGoto(a, l) == cPc' = [cPc EXCEPT ![a] = l]
Alive == cReader \in cReaders

\* is_healthy()
Healthy == ~cClosed /\ cWs # NoSock /\ Alive

\* A cancelled or finished reader: its finally sets the shared event.
StopReader(r) ==
  /\ cReaders' = cReaders \ {r}
  /\ cDone' = (cDone \/ r \in cReaders)

CloseSock(s) == cOpen' = cOpen \ {s} /\ cDead' = cDead \ {s}

-----------------------------------------------------------------------------
(* _open_with_retry(), with the lock held by caller a *)

\* The server cannot be reached: ws_connect() raises, after the event has been
\* cleared.
OpenRaises(a) ==
  /\ cPc[a] = "open" /\ ~cUp
  /\ cDone' = FALSE
  /\ CGoto(a, "failed")
  /\ UNCHANGED <<cSelf, cWs, cReader, cReaders, cLock, cOpen, cDead, cNet>>

Unused == Socks \ (cOpen \cup cSlot \cup cReaders \cup {cReader})

\* A new socket; a server whose slot is taken closes it at once (4429).
OpenSocket(a) ==
  /\ cPc[a] = "open" /\ cUp
  /\ Unused # {}
  /\ LET s == Min(Unused) IN
       /\ cWs' = s
       /\ cOpen' = cOpen \cup {s}
       /\ cDead' = IF cSlot = {} THEN cDead ELSE cDead \cup {s}
       /\ cSlot' = IF cSlot = {} THEN {s} ELSE cSlot
  /\ cDone' = FALSE
  /\ CGoto(a, "config")
  /\ UNCHANGED <<cSelf, cReader, cReaders, cLock, cUp, cDowns, cCuts>>

\* The config frame is sent and the reader started.
SendConfig(a) ==
  /\ cPc[a] = "config" /\ cWs # NoSock
  /\ cReader' = cWs
  /\ cReaders' = cReaders \cup {cWs}
  /\ CGoto(a, "grace")
  /\ UNCHANGED <<cSelf, cWs, cDone, cLock, cOpen, cDead, cNet>>

\* One attempt fails: back off, or raise SLVReconnectError after the last.
AttemptFails(a) ==
  /\ cLeft' = cLeft - 1
  /\ CGoto(a, IF cLeft > 1 THEN "open" ELSE "failed")

\* The config frame meets a closed socket.
ConfigRefused(a) ==
  /\ cPc[a] = "config" /\ cWs \in cDead
  /\ CloseSock(cWs) /\ cWs' = NoSock
  /\ AttemptFails(a)
  /\ UNCHANGED <<cClosed, cRecon, cReader, cReaders, cDone, cLock, cNet>>

\* The event is set within the grace period: tear down and back off.
GraceDies(a) ==
  /\ cPc[a] = "grace" /\ cDone
  /\ StopReader(cReader)
  /\ CloseSock(cWs) /\ cWs' = NoSock /\ cReader' = NoSock
  /\ AttemptFails(a)
  /\ UNCHANGED <<cClosed, cRecon, cLock, cNet>>

GraceSurvived(a) ==
  /\ cPc[a] = "grace" /\ ~cDone
  /\ CGoto(a, "opened")
  /\ UNCHANGED <<cSelf, cWs, cReader, cReaders, cDone, cLock, cOpen, cDead, cNet>>

-----------------------------------------------------------------------------
(* reconnect(), called by the dispatch loop and by wake() and others *)

ReconBegins(a) ==
  /\ a = "wake" /\ cPc[a] = "idle"
  /\ ~cClosed /\ cPc["disp"] # "start"
  /\ cRecon' = TRUE
  /\ CGoto(a, "lock")
  /\ UNCHANGED <<cClosed, cLeft, cWs, cReader, cReaders, cDone, cLock, cOpen, cDead, cNet>>

\* mutant: the old socket is left open
KeepOld ==
  /\ StopReader(cReader)
  /\ cWs' = NoSock /\ cReader' = NoSock
  /\ UNCHANGED <<cOpen, cDead>>

\* Reader and socket of the old connection are given up.
DropOld ==
  /\ StopReader(cReader)
  /\ CloseSock(cWs)
  /\ cWs' = NoSock /\ cReader' = NoSock

ReconLocks(a) ==
  /\ cPc[a] = "lock" /\ a # "mic" /\ cLock = NobodyHolds
  /\ cLock' = a
  /\ DropOld
  /\ CGoto(a, "gone")
  /\ UNCHANGED <<cSelf, cNet>>

\* Fifty milliseconds later: the event is cleared, the attempts begin.
ReconOpens(a) ==
  /\ cPc[a] = "gone"
  /\ cDone' = FALSE
  /\ cLeft' = Attempts
  /\ CGoto(a, "open")
  /\ UNCHANGED <<cClosed, cRecon, cWs, cReader, cReaders, cLock, cOpen, cDead, cNet>>

\* Bound: the other caller reconnects once, the loop and the pump any number
\* of times.
After(a) == CASE a = "disp" -> "events" [] a = "mic" -> "idle" [] OTHER -> "over"

\* mutant: _reconnecting is cleared only when the socket is open
FlagKept(a) == IF a = "mic" \/ cPc[a] # "opened" THEN cRecon ELSE FALSE

\* The finally of reconnect(), although another reconnect() may have begun.
FlagAfter(a) == IF a = "mic" THEN cRecon ELSE FALSE

\* Opened or raised: the lock is released.  The pump's send() follows its connect().
ReconReturns(a) ==
  /\ cPc[a] \in {"opened", "failed"}
  /\ cLock' = NobodyHolds
  /\ cRecon' = FlagAfter(a)
  /\ CGoto(a, After(a))
  /\ cLeft' = IF cLock = a THEN 0 ELSE cLeft
  /\ UNCHANGED <<cClosed, cWs, cReader, cReaders, cDone, cOpen, cDead, cNet>>

\* asyncio.wait_for(): the caller is cancelled where it waits (a send() of the
\* config frame on a new socket does not).
WaitForTimeout(a) ==
  /\ cPc[a] \in {"lock", "gone", "open", "grace"}
  /\ cCuts < MaxCut /\ cCuts' = cCuts + 1
  /\ cLock' = IF cLock = a THEN NobodyHolds ELSE cLock
  /\ cRecon' = FlagAfter(a)
  /\ CGoto(a, After(a))
  /\ cLeft' = IF cLock = a THEN 0 ELSE cLeft
  /\ UNCHANGED <<cClosed, cWs, cReader, cReaders, cDone, cOpen, cDead, cSlot, cUp, cDowns>>

-----------------------------------------------------------------------------
(* The dispatch loop and events() *)

\* run(): connect() before any other coroutine exists; a failure ends the agent.
Connect ==
  /\ cPc["disp"] = "start"
  /\ \/ \E s \in {1} :
          /\ cWs' = s /\ cReader' = s /\ cReaders' = {s} /\ cOpen' = {s} /\ cSlot' = {s}
          /\ CGoto("disp", "events")
          /\ UNCHANGED cClosed
     \/ /\ cClosed' = TRUE
        /\ CGoto("disp", "over")
        /\ UNCHANGED <<cWs, cReader, cReaders, cOpen, cSlot>>
  /\ UNCHANGED <<cRecon, cLeft, cDone, cLock, cDead, cUp, cDowns, cCuts>>

\* A reader that runs although the event is set: an old one has set it late.
LateDone == Alive

EventsClears ==
  /\ cPc["disp"] = "events" /\ cDone /\ ~cClosed /\ LateDone
  /\ cDone' = FALSE
  /\ UNCHANGED <<cSelf, cWs, cReader, cReaders, cLock, cPc, cOpen, cDead, cNet>>

\* events() returns: the loop ends, or reconnects.
EventsReturn ==
  /\ cPc["disp"] = "events" /\ (cClosed \/ (cDone /\ ~LateDone))
  /\ CGoto("disp", IF cClosed THEN "over" ELSE "lock")
  /\ cRecon' = (cRecon \/ ~cClosed)
  /\ UNCHANGED <<cClosed, cLeft, cWs, cReader, cReaders, cDone, cLock, cOpen, cDead, cNet>>

-----------------------------------------------------------------------------
(* send_audio() and _send_json() *)

\* _send_audio_nonblocking(): not while reconnecting.
SendBegins ==
  /\ cPc["mic"] = "idle" /\ ~cRecon /\ ~cClosed /\ cPc["disp"] # "start"
  /\ CGoto("mic", "lock")
  /\ UNCHANGED <<cSelf, cWs, cReader, cReaders, cDone, cLock, cOpen, cDead, cNet>>

\* ConnectionClosed in send(): the next caller connects.
AfterSend == IF cWs \in cDead THEN NoSock ELSE cWs

\* With a socket the frame goes out, or the handle is dropped; without one the
\* sender connects first.
SendLocked ==
  /\ cPc["mic"] = "lock" /\ cLock = NobodyHolds
  /\ IF cWs # NoSock
     THEN /\ cWs' = AfterSend
          /\ cOpen' = cOpen \ ({cWs} \ {AfterSend})
          /\ cDead' = cDead \cap cOpen'
          /\ CGoto("mic", "idle")
          /\ UNCHANGED <<cLeft, cLock>>
     ELSE IF cClosed
     THEN CGoto("mic", "idle") /\ UNCHANGED <<cLeft, cLock, cWs, cOpen, cDead>>
     ELSE /\ cLock' = "mic" /\ cLeft' = Attempts
          /\ CGoto("mic", "open")
          /\ UNCHANGED <<cWs, cOpen, cDead>>
  /\ UNCHANGED <<cClosed, cRecon, cReader, cReaders, cDone, cNet>>

-----------------------------------------------------------------------------
\* _reader_loop(): the socket is closed, by the server or under the reader.
ReaderEnds(s) ==
  /\ s \in cReaders /\ (s \in cDead \/ s \notin cOpen)
  /\ StopReader(s)
  /\ UNCHANGED <<cSelf, cWs, cReader, cLock, cPc, cOpen, cDead, cNet>>

\* close(), which does not take the lock.
CloseClient ==
  /\ ~cClosed /\ cPc["disp"] # "start"
  /\ cClosed' = TRUE
  /\ StopReader(cReader)
  /\ CloseSock(cWs) /\ cWs' = NoSock
  /\ UNCHANGED <<cReader, cLock, cRecon, cPc, cLeft, cNet>>

-----------------------------------------------------------------------------
(* The server *)

ServerCloses(s) ==
  /\ s \in cOpen \ cDead
  /\ cDowns < MaxDown /\ cDowns' = cDowns + 1
  /\ cDead' = cDead \cup {s}
  /\ UNCHANGED <<cSelf, cWs, cReader, cReaders, cDone, cLock, cPc, cOpen, cSlot, cUp, cCuts>>

\* The teardown of a session ends (V2VTts: ClosedFreesSlot).
ServerFrees(s) ==
  /\ s \in cSlot /\ (s \notin cOpen \/ s \in cDead)
  /\ cSlot' = cSlot \ {s}
  /\ UNCHANGED <<cSelf, cWs, cReader, cReaders, cDone, cLock, cPc, cOpen, cDead, cUp, cDowns, cCuts>>

ServerGone ==
  /\ cUp /\ cDowns < MaxDown /\ cPc["disp"] # "start"
  /\ cUp' = FALSE /\ cDowns' = cDowns + 1
  /\ cSlot' = {} /\ cDead' = cOpen
  /\ UNCHANGED <<cSelf, cWs, cReader, cReaders, cDone, cLock, cPc, cOpen, cCuts>>

ServerBack ==
  /\ ~cUp
  /\ cUp' = TRUE
  /\ UNCHANGED <<cSelf, cWs, cReader, cReaders, cDone, cLock, cPc, cOpen, cDead, cSlot, cDowns, cCuts>>

-----------------------------------------------------------------------------
Opening(a) ==
  \/ OpenRaises(a) \/ OpenSocket(a) \/ SendConfig(a) \/ ConfigRefused(a)
  \/ GraceDies(a) \/ GraceSurvived(a) \/ ReconOpens(a) \/ ReconReturns(a)
Events == EventsClears \/ EventsReturn

CNext ==
  \/ \E a \in Callers : Opening(a) \/ ReconBegins(a) \/ ReconLocks(a) \/ WaitForTimeout(a)
  \/ Connect \/ Events \/ SendBegins \/ SendLocked \/ CloseClient
  \/ \E s \in Socks : ReaderEnds(s) \/ ServerCloses(s) \/ ServerFrees(s)
  \/ ServerGone \/ ServerBack

\* The coroutines run, asyncio.Lock is fair, the reader sees a closed socket,
\* the server frees the slot of a closed session and comes back.  Nothing makes
\* anybody send.
CFairness ==
  /\ \A a \in Callers : WF_cVars(Opening(a)) /\ SF_cVars(ReconLocks(a))
  /\ WF_cVars(Events) /\ SF_cVars(SendLocked)
  /\ \A s \in Socks : WF_cVars(ReaderEnds(s)) /\ WF_cVars(ServerFrees(s))
  /\ WF_cVars(ServerBack)

CSpec == CInit /\ [][CNext]_cVars /\ CFairness

-----------------------------------------------------------------------------
CTypeOK ==
  /\ {cClosed, cDone, cRecon, cUp} \subseteq BOOLEAN
  /\ {cWs, cReader} \subseteq Socks \cup {NoSock} /\ cReaders \subseteq Socks
  /\ cLock \in Callers \cup {NobodyHolds}
  /\ cPc \in [Callers -> {"start", "idle", "lock", "gone", "open", "config", "grace", "opened",
                          "failed", "events", "over"}]
  /\ cLeft \in 0 .. Attempts /\ cDowns \in 0 .. MaxDown /\ cCuts \in 0 .. MaxCut
  /\ cOpen \subseteq Socks /\ cDead \subseteq cOpen /\ cSlot \subseteq Socks

\* "One persistent WS": however many coroutines reconnect, connect, send and
\* time out at once, the client has no other socket open than _ws: one that it
\* forgot would hold the server's only slot for ever.
OneSocket == ~cClosed => cOpen \subseteq {cWs}

\* The connection in use: a socket the server has not closed, with its own reader.
Connected == Healthy /\ cWs = cReader /\ cWs \notin cDead

\* There is something to send again and again, while the reconnect gate is open;
\* asleep or quiet the pump sends nothing, and a connection may stay lost.
KeepsSending == []<>(cPc["mic"] # "idle" \/ cRecon \/ cClosed)

\* A connection that is lost is found again by whoever sends, unless the client is
\* closed: the server's slot may be taken for a while, the attempts may all fail,
\* the server may be away, and a timeout may cut a reconnect anywhere.
ComesBack ==
  KeepsSending =>
    ((~Connected /\ ~cClosed /\ cPc["disp"] # "start") ~> (Connected \/ cClosed))
=============================================================================
