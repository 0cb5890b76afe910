--------------------------- MODULE AgentService ----------------------------
(***************************************************************************)
(* The host-side agent service: SQLiteAgentStore (request rows, device     *)
(* sessions and their history, which survive the process), AgentService    *)
(* with its bounded queue and its workers, and the turns CodexRuntime runs *)
(* on SDK threads.  One asyncio loop runs everything and the store calls   *)
(* are synchronous, so an action is the code between two awaits.  A worker *)
(* reads its device's session before it awaits the SDK and saves it after; *)
(* cancel reads the row and the session before it awaits the interrupt.    *)
(*                                                                         *)
(* A submission whose request id has a row changes nothing (it returns the *)
(* row, or idempotency_conflict) and is not an action.                     *)
(***************************************************************************)
EXTENDS Naturals, Sequences, FiniteSets

CONSTANTS Requests,   \* request ids
          Devices,    \* device ids
          DeviceOf,   \* the device each request is submitted for
          Workers,    \* the max_workers worker tasks
          Threads,    \* SDK thread ids
          MaxQueue,   \* max_queue
          MaxGen,     \* bound of the model: resets stop at this generation
          NoRequest, NoThread

ASSUME AgentServiceAssumption ==
  /\ IsFiniteSet(Requests)
  /\ DeviceOf \in [Requests -> Devices]
  /\ MaxQueue \in Nat \ {0}
  /\ MaxGen \in Nat \ {0}
  /\ NoRequest \notin Requests
  /\ NoThread \notin Threads

VARIABLES
  \* durable: tables requests, device_sessions, session_history; SDK threads
  status,   \* the status column, "absent" when there is no row
  created,  \* the created_at column, counted; 0 when there is no row
  gen,      \* generation of each device session, 0 when there is no row
  thread,   \* thread_id of each device session, NoThread for NULL
  history,  \* the <<generation, thread>> rows of session_history, by device
  threads,  \* the SDK threads that exist
  \* of the process
  up,       \* the service is started
  queue,    \* AgentService._queue
  pc,       \* where each worker waits
  req,      \* the request each worker executes
  wgen,     \* its local generation, read with the session
  wthread,  \* its local thread_id
  cached,   \* runtime._threads
  entry,    \* runtime._active: the request whose turn is registered for a thread
  turn,     \* the SDK turn of each request
  target,   \* the request whose turn a cancel of this request is interrupting
  \* history
  runs      \* how many SDK turns were created for the request

durable == <<status, created, gen, thread, history, threads>>
workers == <<pc, req, wgen, wthread>>
runtime == <<cached, entry, turn>>
vars == <<durable, up, queue, workers, runtime, target, runs>>

Terminal == {"completed", "failed", "cancelled", "interrupted"}
Statuses == {"absent", "queued", "running"} \cup Terminal

\* The awaits of a worker: the queue, thread_start, thread_resume or
\* thread_fork, thread.turn, the turn itself, and the interrupt of _stop_turn.
Awaits == {"idle", "starting", "resuming", "turning", "running", "stopping"}

TypeOK ==
  /\ status \in [Requests -> Statuses]
  /\ created \in [Requests -> Nat]
  /\ gen \in [Devices -> 0 .. MaxGen]
  /\ thread \in [Devices -> Threads \cup {NoThread}]
  /\ history \in [Devices -> SUBSET ((1 .. MaxGen) \X Threads)]
  /\ threads \subseteq Threads
  /\ up \in BOOLEAN
  /\ queue \in Seq(Requests) /\ Len(queue) <= MaxQueue
  /\ pc \in [Workers -> Awaits]
  /\ req \in [Workers -> Requests \cup {NoRequest}]
  /\ wgen \in [Workers -> 0 .. MaxGen]
  /\ wthread \in [Workers -> Threads \cup {NoThread}]
  /\ cached \subseteq threads
  /\ entry \in [Threads -> Requests \cup {NoRequest}]
  /\ turn \in [Requests -> {"none", "live", "interrupted", "over"}]
  /\ target \in [Requests -> Requests \cup {NoRequest}]
  /\ runs \in [Requests -> Nat]

Idle ==
  [pc |-> [w \in Workers |-> "idle"],
   req |-> [w \in Workers |-> NoRequest],
   wgen |-> [w \in Workers |-> 0],
   wthread |-> [w \in Workers |-> NoThread],
   entry |-> [t \in Threads |-> NoRequest],
   target |-> [r \in Requests |-> NoRequest]]

Init ==
  /\ status = [r \in Requests |-> "absent"]
  /\ created = [r \in Requests |-> 0]
  /\ gen = [d \in Devices |-> 0]
  /\ thread = [d \in Devices |-> NoThread]
  /\ history = [d \in Devices |-> {}]
  /\ threads = {}
  /\ up = FALSE
  /\ queue = <<>>
  /\ pc = Idle.pc /\ req = Idle.req /\ wgen = Idle.wgen /\ wthread = Idle.wthread
  /\ cached = {}
  /\ entry = Idle.entry
  /\ turn = [r \in Requests |-> "none"]
  /\ target = Idle.target
  /\ runs = [r \in Requests |-> 0]

-----------------------------------------------------------------------------
(* Faulty variants of definitions below, one for each property: what the   *)
(* code would say with a plausible mistake.  Nothing here uses them.       *)

QueuedFor(d) == \E r \in Requests : DeviceOf[r] = d /\ status[r] = "queued"
Replayed ==
  [r \in Requests |-> IF status[r] = "running" THEN "queued" ELSE status[r]]
SaveThreadEverywhere(d, g, t) ==
  /\ gen' = [gen EXCEPT ![d] = g]
  /\ thread' = [e \in Devices |-> t]
NoTimeOut(w) == FALSE

-----------------------------------------------------------------------------
(* The statements of SQLiteAgentStore.                                     *)

Queued == {r \in Requests : status[r] = "queued"}

\* active_for_device, and the same query inside accept_request
ActiveFor(d) ==
  \E r \in Requests : DeviceOf[r] = d /\ status[r] \in {"queued", "running"}

\* accept_request: the backlog has room
HasRoom == Cardinality(Queued) < MaxQueue

\* mark_running
MarksRunning(r) == status[r] = "queued"

\* set_terminal
Settled(r, s) ==
  [status EXCEPT ![r] = IF @ \in {"queued", "running"} THEN s ELSE @]

\* interrupt_running
Interrupted ==
  [r \in Requests |-> IF status[r] = "running" THEN "interrupted" ELSE status[r]]

\* The time a row is inserted at: later than that of every row there is.
Now == 1 + Cardinality({r \in Requests : status[r] # "absent"})

\* queued_requests: ORDER BY created_at
QueuedInOrder ==
  {s \in [1 .. Cardinality(Queued) -> Queued] :
     \A i, j \in DOMAIN s : i < j => created[s[i]] < created[s[j]]}

\* save_thread: an upsert that does not look at the row it replaces
SaveThread(d, g, t) ==
  /\ gen' = [gen EXCEPT ![d] = g]
  /\ thread' = [thread EXCEPT ![d] = t]

\* session_history: INSERT OR REPLACE, keyed by the generation
Archived(d) ==
  IF thread[d] = NoThread THEN history[d]
  ELSE {h \in history[d] : h[1] # gen[d]} \cup {<<gen[d], thread[d]>>}

-----------------------------------------------------------------------------
(* The handlers of the HTTP adapter.                                       *)

\* put_nowait, whose QueueFull nobody catches
Enqueued(r) == IF Len(queue) < MaxQueue THEN Append(queue, r) ELSE queue

\* submit of a new request id.  The row is committed before put_nowait: when
\* that fails the caller gets an error and the row stays queued.
Submit(r) ==
  /\ up
  /\ status[r] = "absent"
  /\ ~ActiveFor(DeviceOf[r])
  /\ HasRoom
  /\ status' = [status EXCEPT ![r] = "queued"]
  /\ created' = [created EXCEPT ![r] = Now]
  /\ queue' = Enqueued(r)
  /\ UNCHANGED <<gen, thread, history, threads, up, workers, runtime, target, runs>>

\* cancel up to its await: the turn registered for the thread of the session is
\* the one to interrupt; when there is none the row is settled at once.
Registered(r) ==
  LET t == thread[DeviceOf[r]] IN
  IF status[r] = "running" /\ t # NoThread THEN entry[t] ELSE NoRequest

CancelBegins(r) ==
  /\ up
  /\ status[r] \in {"queued", "running"}
  /\ target[r] = NoRequest
  /\ IF Registered(r) = NoRequest
     THEN status' = Settled(r, "cancelled") /\ UNCHANGED target
     ELSE target' = [target EXCEPT ![r] = Registered(r)] /\ UNCHANGED status
  /\ UNCHANGED <<created, gen, thread, history, threads, up, queue, workers,
                 runtime, runs>>

\* The SDK acts on the interrupt, before or after it answers.
InterruptArrives(r) ==
  /\ target[r] # NoRequest
  /\ turn[target[r]] = "live"
  /\ turn' = [turn EXCEPT ![target[r]] = "interrupted"]
  /\ UNCHANGED <<durable, up, queue, workers, cached, entry, target, runs>>

\* The answer, or an error cancel ignores.
CancelReturns(r, failed) ==
  /\ target[r] # NoRequest
  /\ turn[target[r]] # "live" \/ failed
  /\ target' = [target EXCEPT ![r] = NoRequest]
  /\ status' = Settled(r, "cancelled")
  /\ UNCHANGED <<created, gen, thread, history, threads, up, queue, workers,
                 runtime, runs>>

\* reset: refused while the device has a queued or running row.
Reset(d) ==
  /\ up
  /\ ~ActiveFor(d)
  /\ gen[d] < MaxGen
  /\ history' = [history EXCEPT ![d] = Archived(d)]
  /\ SaveThread(d, gen[d] + 1, NoThread)
  /\ UNCHANGED <<status, created, threads, up, queue, workers, runtime, target, runs>>

-----------------------------------------------------------------------------
(* A worker, from one await to the next.                                   *)

Leave(w) ==
  /\ pc' = [pc EXCEPT ![w] = "idle"]
  /\ req' = [req EXCEPT ![w] = NoRequest]
  /\ wgen' = [wgen EXCEPT ![w] = 0]
  /\ wthread' = [wthread EXCEPT ![w] = NoThread]

\* mark_running and the session read; resuming a cached thread does not wait.
TakeRequest(w) ==
  /\ up /\ pc[w] = "idle" /\ queue # <<>>
  /\ queue' = Tail(queue)
  /\ LET r == Head(queue)
         d == DeviceOf[r]
     IN IF MarksRunning(r)
        THEN /\ status' = [status EXCEPT ![r] = "running"]
             /\ req' = [req EXCEPT ![w] = r]
             /\ wgen' = [wgen EXCEPT ![w] = IF gen[d] = 0 THEN 1 ELSE gen[d]]
             /\ wthread' = [wthread EXCEPT ![w] = thread[d]]
             /\ pc' = [pc EXCEPT ![w] =
                         IF thread[d] = NoThread THEN "starting"
                         ELSE IF thread[d] \in cached THEN "turning" ELSE "resuming"]
        ELSE UNCHANGED <<status, workers>>
  /\ UNCHANGED <<created, gen, thread, history, threads, up, runtime, target, runs>>

\* start_thread returns a new thread; resume_thread the one asked for, or a
\* fork of it when another writer holds it.  The worker saves it at once.
ThreadReady(w, t) ==
  /\ \/ pc[w] \in {"starting", "resuming"} /\ t \notin threads
     \/ pc[w] = "resuming" /\ t = wthread[w]
  /\ threads' = threads \cup {t}
  /\ cached' = cached \cup {t}
  /\ SaveThread(DeviceOf[req[w]], wgen[w], t)
  /\ wthread' = [wthread EXCEPT ![w] = t]
  /\ pc' = [pc EXCEPT ![w] = "turning"]
  /\ UNCHANGED <<status, created, history, up, queue, req, wgen, entry, turn,
                 target, runs>>

\* thread.turn returned a handle: runtime.run registers it by its thread.
TurnCreated(w) ==
  /\ pc[w] = "turning"
  /\ pc' = [pc EXCEPT ![w] = "running"]
  /\ entry' = [entry EXCEPT ![wthread[w]] = req[w]]
  /\ turn' = [turn EXCEPT ![req[w]] = "live"]
  /\ runs' = [runs EXCEPT ![req[w]] = @ + 1]
  /\ UNCHANGED <<durable, up, queue, req, wgen, wthread, cached, target>>

\* An SDK call before the turn fails.
ThreadFails(w) ==
  /\ pc[w] \in {"starting", "resuming", "turning"}
  /\ status' = Settled(req[w], "failed")
  /\ Leave(w)
  /\ UNCHANGED <<created, gen, thread, history, threads, up, queue, runtime,
                 target, runs>>

\* The end of runtime.run: its finally pops whatever is registered for the
\* thread, and the worker settles the row and goes back to the queue.
EndTurn(w, s) ==
  /\ turn' = [turn EXCEPT ![req[w]] = "over"]
  /\ entry' = [entry EXCEPT ![wthread[w]] = NoRequest]
  /\ status' = Settled(req[w], s)
  /\ Leave(w)
  /\ UNCHANGED <<created, gen, thread, history, threads, up, queue, cached,
                 target, runs>>

\* The turn ends by itself; an unusable answer is a failure.
TurnEnds(w, s) ==
  /\ pc[w] = "running" /\ turn[req[w]] = "live"
  /\ s \in {"completed", "failed"}
  /\ EndTurn(w, s)

\* The turn timeout: _stop_turn interrupts the turn and waits for it.
TimeOut(w) ==
  /\ pc[w] = "running"
  /\ pc' = [pc EXCEPT ![w] = "stopping"]
  /\ UNCHANGED <<durable, up, queue, req, wgen, wthread, runtime, target, runs>>

\* A turn that was interrupted, by a cancel or by the timeout, has failed.
TurnStopped(w) ==
  /\ pc[w] = "stopping" \/ (pc[w] = "running" /\ turn[req[w]] = "interrupted")
  /\ EndTurn(w, "failed")

-----------------------------------------------------------------------------
(* Stop and start.                                                         *)

\* The process ends and its SDK child with it.
Volatile ==
  /\ up
  /\ up' = FALSE
  /\ queue' = <<>>
  /\ pc' = Idle.pc /\ req' = Idle.req /\ wgen' = Idle.wgen /\ wthread' = Idle.wthread
  /\ cached' = {}
  /\ entry' = Idle.entry
  /\ turn' = [r \in Requests |-> IF turn[r] = "none" THEN "none" ELSE "over"]
  /\ target' = Idle.target
  /\ UNCHANGED <<created, gen, thread, history, threads, runs>>

Crash == Volatile /\ UNCHANGED status

\* close: every worker is cancelled and settles its row, interrupt_running
\* sweeps the rest.
Close == Volatile /\ status' = Interrupted

\* start: interrupt_running commits, then the queued rows are put back.
Start ==
  /\ ~up
  /\ up' = TRUE
  /\ status' = Interrupted
  /\ queue' \in QueuedInOrder
  /\ UNCHANGED <<created, gen, thread, history, threads, workers, runtime,
                 target, runs>>

-----------------------------------------------------------------------------

Next ==
  \/ \E r \in Requests : Submit(r)
  \/ \E r \in Requests : CancelBegins(r)
  \/ \E r \in Requests : InterruptArrives(r)
  \/ \E r \in Requests, failed \in BOOLEAN : CancelReturns(r, failed)
  \/ \E d \in Devices : Reset(d)
  \/ \E w \in Workers : TakeRequest(w)
  \/ \E w \in Workers, t \in Threads : ThreadReady(w, t)
  \/ \E w \in Workers : ThreadFails(w)
  \/ \E w \in Workers : TurnCreated(w)
  \/ \E w \in Workers, s \in Terminal : TurnEnds(w, s)
  \/ \E w \in Workers : TimeOut(w)
  \/ \E w \in Workers : TurnStopped(w)
  \/ Crash
  \/ Close
  \/ Start

Spec == Init /\ [][Next]_vars

\* The loop runs what is ready and the SDK answers its calls, an interrupt
\* among them.  Nothing makes a turn end by itself before its timeout, and
\* nothing is assumed of the clients.
Fairness ==
  /\ \A w \in Workers :
       /\ WF_vars(TakeRequest(w))
       /\ WF_vars(ThreadFails(w) \/ TurnCreated(w) \/ \E t \in Threads : ThreadReady(w, t))
       /\ WF_vars(TimeOut(w))
       /\ WF_vars(TurnStopped(w))
  /\ WF_vars(Start)

FairSpec == Spec /\ Fairness

-----------------------------------------------------------------------------
(* Safety.                                                                 *)

\* A device has at most one request queued or running, through cancels,
\* restarts and the two workers.
OnePerDevice ==
  \A r, q \in Requests :
    /\ DeviceOf[r] = DeviceOf[q]
    /\ {status[r], status[q]} \subseteq {"queued", "running"}
    => r = q

\* One request never creates two SDK turns, a restart included, and none is
\* created before its row is taken from the queue.
AtMostOneTurn ==
  \A r \in Requests :
    /\ runs[r] <= 1
    /\ status[r] \in {"absent", "queued"} => runs[r] = 0

\* The durable backlog fits the queue that start() refills with put_nowait.
RestartFits == Cardinality(Queued) <= MaxQueue

\* Conversations are never shared: whatever thread a device's session, its
\* history or a worker on its behalf refers to belongs to that device alone.
Holders(t) ==
  {d \in Devices :
     \/ thread[d] = t
     \/ \E h \in history[d] : h[2] = t
     \/ \E w \in Workers : req[w] # NoRequest /\ DeviceOf[req[w]] = d /\ wthread[w] = t}

ThreadsNotShared == \A t \in Threads : Cardinality(Holders(t)) <= 1

-----------------------------------------------------------------------------
(* Liveness.                                                               *)

Scheduled(r) == \E i \in DOMAIN queue : queue[i] = r

\* If the service stays up, a request whose id is in the queue is settled,
\* whatever its turn does.
ScheduledSettles ==
  <>[]up =>
    \A r \in Requests : Scheduled(r) ~> status[r] \in Terminal

-----------------------------------------------------------------------------
(* What the documents say and the code does not keep.                      *)

\* A reset closes the conversation: the thread it moved to the history is
\* never the active one again.  A worker whose request was cancelled while it
\* awaited the SDK saves the session it had read before the reset.
ResetStartsNewThread ==
  \A d \in Devices : \A h \in history[d] : h[2] # thread[d]
=============================================================================
