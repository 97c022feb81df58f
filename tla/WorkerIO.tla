------------------------------ MODULE WorkerIO ------------------------------
(***************************************************************************)
(* app/core/worker_io.py: one worker subprocess shared by many requests.    *)
(* A semaphore bounds the requests in flight, _stdin_lock orders the writes *)
(* and close(), the reader thread demultiplexes stdout into one queue per   *)
(* request.  request() is the blocking generator of the backends,           *)
(* send_request() its asyncio twin.  The owning backend restarts the worker *)
(* with close() followed by kill() (TRTEdgeLLMASRBackend.restart_worker).   *)
(*                                                                         *)
(* A request is its id; ids are unique (uuid4).  The worker is external: it *)
(* answers a request with chunks and one terminal event, drops a cancel it  *)
(* does not know, and may stop reading or die at any moment.  A payload     *)
(* larger than the pipe's buffer is written only as the worker reads it.    *)
(***************************************************************************)
EXTENDS Naturals, Sequences, FiniteSets

CONSTANTS
  Requests,     \* request ids
  Async,        \* the ones made with send_request()
  Large,        \* the ones whose payload does not fit into the stdin pipe
  Streaming,    \* the ones answered with chunks before the terminal event
  Concurrency,  \* the semaphore's initial value
  MaxChunks     \* bound: chunk events the worker emits for one request

ASSUME RequestsFinite == IsFiniteSet(Requests)
ASSUME ConcurrencyAssumption == Concurrency \in Nat \ {0}
ASSUME MaxChunksAssumption == MaxChunks \in Nat
ASSUME KindsAssumption ==
  Async \subseteq Requests /\ Large \subseteq Requests /\ Streaming \subseteq Requests
ASSUME NoRequestAssumption == "none" \notin Requests

VARIABLES
  pc,        \* where each request's generator is
  permits,   \* _sem
  closed,    \* _closed
  holder,    \* the request that is inside a write and holds _stdin_lock
  inflight,  \* the keys of _inflight
  queue,     \* each request's queue.Queue
  owner,     \* the thread in restart_worker()
  owed,      \* close(): the queues still to be woken
  reader,    \* the reader thread: running or past its finally
  hand,      \* the event the reader has looked up a queue for
  alive,     \* the subprocess runs
  toWorker,  \* requests in the stdin pipe
  cancels,   \* cancel lines in the stdin pipe
  working,   \* requests the worker is answering
  out,       \* the events of each request in the stdout pipe
  sent       \* chunks emitted so far

vars == <<pc, permits, closed, holder, inflight, queue, owner, owed, reader, hand,
          alive, toWorker, cancels, working, out, sent>>
pipes == <<alive, toWorker, cancels, working, out, sent>>
closing == <<owner, owed>>
reading == <<reader, hand>>

NoRequest == "none"
Final == {"done", "cancelled"}
Exit == "_worker_exit"
Events == {"chunk", Exit} \cup Final
NoEvent == [r |-> NoRequest, e |-> "chunk"]

\* The points at which a request owns a slot of the semaphore, and those at
\* which its queue may be in _inflight.
Registered == {"write", "writing", "get", "yield", "last", "breaking", "finally"}
Holding == {"check", "register"} \cup Registered
Pcs == {"acquire", "gone", "late", "cancel", "end"} \cup Holding

Init ==
  /\ pc = [r \in Requests |-> "acquire"]
  /\ permits = Concurrency
  /\ closed = FALSE
  /\ holder = NoRequest
  /\ inflight = {}
  /\ queue = [r \in Requests |-> <<>>]
  /\ owner = "run" /\ owed = {}
  /\ reader = "read" /\ hand = NoEvent
  /\ alive = TRUE
  /\ toWorker = {} /\ cancels = {} /\ working = {}
  /\ out = [r \in Requests |-> <<>>]
  /\ sent = [r \in Requests |-> 0]

Goto(r, p) == pc' = [pc EXCEPT ![r] = p]

-----------------------------------------------------------------------------
(* A request: request(), and send_request() where they differ. *)

\* _sem.acquire(): on the caller's thread, or on an executor thread the
\* coroutine awaits.  A request that has not been made waits here too.
Acquire(r) ==
  /\ pc[r] = "acquire"
  /\ permits > 0
  /\ permits' = permits - 1
  /\ Goto(r, "check")
  /\ UNCHANGED <<closed, holder, inflight, queue, closing, reading, pipes>>

\* The task of a send_request() that waits for its slot is cancelled.  The
\* executor either has not begun the acquire(), and drops it, or a thread is
\* blocked in it and stays.
CancelWaiting(r) ==
  /\ r \in Async
  /\ pc[r] = "acquire"
  /\ \E p \in {"end", "gone"} : Goto(r, p)
  /\ UNCHANGED <<permits, closed, holder, inflight, queue, closing, reading, pipes>>

\* The thread left behind gets its slot.  _release_if_late_acquire() has run
\* already, on the cancelled future: f.result() raised CancelledError, and
\* nothing releases the token.
LateAcquire(r) ==
  /\ pc[r] = "gone"
  /\ permits > 0
  /\ permits' = permits - 1
  /\ Goto(r, "late")
  /\ UNCHANGED <<closed, holder, inflight, queue, closing, reading, pipes>>

\* mutant: waits for a worker that is never opened again
CheckSpins(r) ==
  /\ pc[r] = "check"
  /\ ~closed
  /\ Goto(r, "register")
  /\ UNCHANGED <<permits, closed, holder, inflight, queue, closing, reading, pipes>>

\* The fast-path look at _closed, without a lock.
Check(r) ==
  /\ pc[r] = "check"
  /\ \/ closed /\ permits' = permits + 1 /\ Goto(r, "end")
     \/ ~closed /\ Goto(r, "register") /\ UNCHANGED permits
  /\ UNCHANGED <<closed, holder, inflight, queue, closing, reading, pipes>>

Register(r) ==
  /\ pc[r] = "register"
  /\ inflight' = inflight \cup {r}
  /\ Goto(r, "write")
  /\ UNCHANGED <<permits, closed, holder, queue, closing, reading, pipes>>

\* _closed as it is read again under _stdin_lock.
ClosedUnderLock == closed

\* The write, under _stdin_lock: refused after close(), EPIPE when the worker
\* is dead, immediate when the payload fits.  A large payload keeps the lock.
Write(r) ==
  /\ pc[r] = "write"
  /\ holder = NoRequest
  /\ IF ClosedUnderLock \/ ~alive
     THEN Goto(r, "finally") /\ UNCHANGED <<holder, toWorker>>
     ELSE IF r \in Large
     THEN Goto(r, "writing") /\ holder' = r /\ UNCHANGED toWorker
     ELSE Goto(r, "get") /\ toWorker' = toWorker \cup {r} /\ UNCHANGED holder
  /\ UNCHANGED <<permits, closed, inflight, queue, closing, reading, alive, cancels,
                 working, out, sent>>

\* A large write ends with EPIPE when the worker dies under it.
WriteBroken(r) ==
  /\ pc[r] = "writing"
  /\ ~alive
  /\ holder' = NoRequest
  /\ Goto(r, "finally")
  /\ UNCHANGED <<permits, closed, inflight, queue, closing, reading, pipes>>

\* q.get() returns: the sentinel raises, any other event is yielded.
Get(r) ==
  /\ pc[r] = "get"
  /\ queue[r] # <<>>
  /\ queue' = [queue EXCEPT ![r] = Tail(@)]
  /\ Goto(r, CASE Head(queue[r]) = Exit -> "finally"
               [] Head(queue[r]) \in Final -> "last"
               [] OTHER -> "yield")
  /\ UNCHANGED <<permits, closed, holder, inflight, closing, reading, pipes>>

\* q.get() gives up after 60 s, or the awaiting task is cancelled.
GiveUp(r) ==
  /\ pc[r] = "get"
  /\ queue[r] = <<>> \/ r \in Async
  /\ Goto(r, "finally")
  /\ UNCHANGED <<permits, closed, holder, inflight, queue, closing, reading, pipes>>

\* The consumer asks for the next event.
Resume(r) ==
  /\ pc[r] = "yield"
  /\ Goto(r, "get")
  /\ UNCHANGED <<permits, closed, holder, inflight, queue, closing, reading, pipes>>

\* The consumer closes the generator: the TTS backend sends a cancel first, the
\* ASR backend, which wants one event only, just leaves.
Break(r) ==
  /\ pc[r] \in {"yield", "last"}
  /\ \/ Goto(r, "finally")
     \/ r \notin Async /\ Goto(r, "breaking")
  /\ UNCHANGED <<permits, closed, holder, inflight, queue, closing, reading, pipes>>

KeepSlot(r) == inflight' = inflight \ {r} /\ UNCHANGED permits  \* mutant: no release

\* The finally: the queue leaves _inflight and the slot goes back.
Pop(r) ==
  /\ inflight' = inflight \ {r}
  /\ permits' = permits + 1

\* The consumer asks again after the terminal event: the generator returns.
Return(r) ==
  /\ pc[r] = "last"
  /\ Pop(r)
  /\ Goto(r, "end")
  /\ UNCHANGED <<closed, holder, queue, closing, reading, pipes>>

\* Any other end; send_request() then cancels what the worker may still do.
Finally(r) ==
  /\ pc[r] = "finally"
  /\ Pop(r)
  /\ Goto(r, IF r \in Async THEN "cancel" ELSE "end")
  /\ UNCHANGED <<closed, holder, queue, closing, reading, pipes>>

\* cancel(): a line on stdin unless closed; a failed write is swallowed.
Cancel(r) ==
  /\ pc[r] \in {"breaking", "cancel"}
  /\ holder = NoRequest
  /\ Goto(r, IF pc[r] = "breaking" THEN "finally" ELSE "end")
  /\ cancels' = IF closed \/ ~alive THEN cancels ELSE cancels \cup {r}
  /\ UNCHANGED <<permits, closed, holder, inflight, queue, closing, reading, alive,
                 toWorker, working, out, sent>>

-----------------------------------------------------------------------------
(* restart_worker(): close(), then kill(). *)

BeginRestart ==
  /\ owner = "run"
  /\ owner' = "closing"
  /\ UNCHANGED <<pc, permits, closed, holder, inflight, queue, owed, reading, pipes>>

CloseFlag ==
  /\ owner = "closing"
  /\ holder = NoRequest
  /\ closed' = TRUE
  /\ owner' = "clearing"
  /\ UNCHANGED <<pc, permits, holder, inflight, queue, owed, reading, pipes>>

ForgetQueues == {}  \* mutant: cleared before it is copied

\* The queues to wake are copied and _inflight is emptied, under _inflight_lock.
ToWake == inflight

CloseClear ==
  /\ owner = "clearing"
  /\ owed' = ToWake
  /\ inflight' = {}
  /\ owner' = "waking"
  /\ UNCHANGED <<pc, permits, closed, holder, queue, reading, pipes>>

ClosePut(r) ==
  /\ owner = "waking"
  /\ r \in owed
  /\ owed' = owed \ {r}
  /\ queue' = [queue EXCEPT ![r] = Append(@, Exit)]
  /\ UNCHANGED <<pc, permits, closed, holder, inflight, owner, reading, pipes>>

Kill ==
  /\ owner = "waking"
  /\ owed = {}
  /\ owner' = "killed"
  /\ alive' = FALSE
  /\ UNCHANGED <<pc, permits, closed, holder, inflight, queue, owed, reading, toWorker,
                 cancels, working, out, sent>>

-----------------------------------------------------------------------------
(* _reader_loop. *)

\* One line: its queue is looked up under _inflight_lock; an event nobody waits
\* for is dropped.
ReadLine(r) ==
  /\ reader = "read"
  /\ hand = NoEvent
  /\ out[r] # <<>>
  /\ out' = [out EXCEPT ![r] = Tail(@)]
  /\ hand' = IF r \in inflight THEN [r |-> r, e |-> Head(out[r])] ELSE NoEvent
  /\ UNCHANGED <<pc, permits, closed, holder, inflight, queue, closing, reader, alive,
                 toWorker, cancels, working, sent>>

\* ... and the event is put into it after the lock is released.
Put ==
  /\ hand # NoEvent
  /\ queue' = [queue EXCEPT ![hand.r] = Append(@, hand.e)]
  /\ hand' = NoEvent
  /\ UNCHANGED <<pc, permits, closed, holder, inflight, closing, reader, pipes>>

\* The finally wakes whoever is still in flight.
Eof ==
  /\ reader = "read"
  /\ hand = NoEvent
  /\ ~alive
  /\ \A r \in Requests : out[r] = <<>>
  /\ queue' = [r \in Requests |-> IF r \in inflight THEN Append(queue[r], Exit) ELSE queue[r]]
  /\ inflight' = {}
  /\ reader' = "ended"
  /\ UNCHANGED <<pc, permits, closed, holder, closing, hand, pipes>>

-----------------------------------------------------------------------------
(* The worker process (external). *)

TakeIn(r) ==
  /\ alive
  /\ \/ r \in toWorker /\ toWorker' = toWorker \ {r} /\ UNCHANGED <<pc, holder>>
     \/ holder = r /\ holder' = NoRequest /\ Goto(r, "get") /\ UNCHANGED toWorker
  /\ working' = working \cup {r}
  /\ UNCHANGED <<permits, closed, inflight, queue, closing, reading, alive, cancels, out,
                 sent>>

EmitChunk(r) ==
  /\ alive
  /\ r \in working \cap Streaming
  /\ sent[r] < MaxChunks
  /\ sent' = [sent EXCEPT ![r] = @ + 1]
  /\ out' = [out EXCEPT ![r] = Append(@, "chunk")]
  /\ UNCHANGED <<pc, permits, closed, holder, inflight, queue, closing, reading, alive,
                 toWorker, cancels, working>>

EmitFinal(r, e) ==
  /\ alive
  /\ r \in working
  /\ e = "cancelled" => r \in cancels
  /\ out' = [out EXCEPT ![r] = Append(@, e)]
  /\ working' = working \ {r}
  /\ cancels' = cancels \ {r}
  /\ UNCHANGED <<pc, permits, closed, holder, inflight, queue, closing, reading, alive,
                 toWorker, sent>>

Die ==
  /\ alive
  /\ alive' = FALSE
  /\ UNCHANGED <<pc, permits, closed, holder, inflight, queue, closing, reading, toWorker,
                 cancels, working, out, sent>>

-----------------------------------------------------------------------------
Serve(r) ==
  \/ Acquire(r) \/ Check(r) \/ Register(r) \/ Write(r) \/ WriteBroken(r) \/ Get(r)
  \/ Resume(r) \/ Return(r) \/ Finally(r) \/ Cancel(r)
Leave(r) == CancelWaiting(r) \/ LateAcquire(r) \/ GiveUp(r) \/ Break(r)
Restart == CloseFlag \/ CloseClear \/ (\E r \in Requests : ClosePut(r)) \/ Kill
Read == (\E r \in Requests : ReadLine(r)) \/ Put \/ Eof
Work(r) == TakeIn(r) \/ EmitChunk(r) \/ \E e \in Final : EmitFinal(r, e)

Next ==
  \/ \E r \in Requests : Serve(r) \/ Leave(r) \/ Work(r)
  \/ BeginRestart \/ Restart \/ Read \/ Die

Spec == Init /\ [][Next]_vars

\* The threads of this process run and a consumer asks for its next event or
\* leaves; the worker and the 60 s timeout are not relied on.
FairSpec ==
  /\ Spec
  /\ \A r \in Requests : WF_vars(Serve(r))
  /\ WF_vars(Restart)
  /\ WF_vars(Read)

-----------------------------------------------------------------------------
(* Properties *)

\* Type invariant: the semaphore never exceeds its initial value, queues hold
\* events only.
TypeOK ==
  /\ pc \in [Requests -> Pcs]
  /\ permits \in 0 .. Concurrency
  /\ closed \in BOOLEAN
  /\ holder \in Requests \cup {NoRequest}
  /\ inflight \subseteq Requests
  /\ queue \in [Requests -> Seq(Events)]
  /\ owner \in {"run", "closing", "clearing", "waking", "killed"}
  /\ owed \subseteq Requests
  /\ reader \in {"read", "ended"}
  /\ hand \in [r : Requests \cup {NoRequest}, e : Events]
  /\ alive \in BOOLEAN
  /\ toWorker \subseteq Requests
  /\ cancels \subseteq Requests
  /\ working \subseteq Requests
  /\ out \in [Requests -> Seq(Events)]
  /\ sent \in [Requests -> 0 .. MaxChunks]

Taken == {r \in Requests : pc[r] \in Holding \cup {"late"}}

\* Every slot of the semaphore is free, or taken by one request, or lost to a
\* thread that got it late; and only a request with a slot has a queue in
\* _inflight, so that at most Concurrency of them wait for the worker.
SlotsAccounted ==
  /\ permits + Cardinality(Taken) = Concurrency
  /\ \A r \in inflight : pc[r] \in Registered

\* No write happens after close().
NoWriteAfterClose ==
  [][closed => /\ toWorker' \subseteq toWorker
               /\ cancels' \subseteq cancels
               /\ holder' = NoRequest]_vars

HasFinal(q) == \E i \in 1 .. Len(q) : q[i] # "chunk"

\* A request that waits for its next event is going to get one: something that
\* ends it is in its queue, or close() or the reader is about to put it there,
\* or its queue is registered with a running reader and the worker still owes it
\* an answer or is dead.  No answer is dropped as stale between the registration
\* and the write, and no caller misses the end of the worker.
WaiterHasNews ==
  \A r \in Requests : pc[r] \in {"get", "yield"} =>
     \/ HasFinal(queue[r])
     \/ r \in owed
     \/ hand.r = r /\ hand.e # "chunk"
     \/ /\ r \in inflight
        /\ reader = "read"
        /\ ~alive \/ r \in toWorker \/ r \in working \/ HasFinal(out[r])

\* After close(), or after the worker's death, every request that has a slot
\* ends, without the help of its 60 s timeout, as long as its consumer asks.
InFlightEnds ==
  \A r \in Requests :
     (pc[r] \in Holding /\ (closed \/ ~alive)) ~> (pc[r] \in {"cancel", "end"})

\* A slot comes back: with no request in flight the semaphore is full, also
\* after a send_request() was cancelled while it waited.
SlotsReturned == (\A r \in Requests : pc[r] \notin Holding) => permits = Concurrency

\* restart_worker() kills the worker, also one that has stopped reading.
RestartEnds == (owner = "closing") ~> (owner = "killed")
=============================================================================
