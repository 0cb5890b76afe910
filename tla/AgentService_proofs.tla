------------------------ MODULE AgentService_proofs ------------------------
(***************************************************************************)
(* For any devices, requests, workers, threads and queue length: a device  *)
(* has one request in progress, a request one turn, and a thread one       *)
(* device, whatever is cancelled, reset, stopped and started in between.   *)
(***************************************************************************)
EXTENDS AgentService, FiniteSetTheorems, SequenceTheorems, TLAPS

InProgress == {"queued", "running"}

\* A worker holds a request whose row has left the queue, alone, and until its
\* turn is created the request has had none.
WorkersFit ==
  \A w \in Workers :
    /\ pc[w] = "idle" <=> req[w] = NoRequest
    /\ req[w] # NoRequest =>
         /\ wgen[w] >= 1
         /\ status[req[w]] \notin {"absent", "queued"}
         /\ \A v \in Workers : req[v] = req[w] => v = w
    /\ pc[w] \in {"starting", "resuming", "turning"} => runs[req[w]] = 0

\* A session with a thread has a generation.
SessionsFit == \A d \in Devices : thread[d] # NoThread => gen[d] >= 1

Refers(d, t) ==
  \/ thread[d] = t
  \/ \E h \in history[d] : h[2] = t
  \/ \E w \in Workers : req[w] # NoRequest /\ DeviceOf[req[w]] = d /\ wthread[w] = t

\* A thread that is referred to exists, so that a new one is nobody's.
ThreadsFit ==
  \A t \in Threads, d \in Devices : Refers(d, t) =>
    /\ t \in threads
    /\ \A e \in Devices : Refers(e, t) => d = e

RowsInv == TypeOK /\ RestartFits /\ SessionsFit /\ WorkersFit

USE DEF vars, durable, workers, runtime

-----------------------------------------------------------------------------
(* The backlog.                                                            *)

\* The queued rows are finitely many.
LEMMA QueuedFinite ==
  IsFiniteSet(Queued) /\ Cardinality(Queued) \in Nat
<1>1. Queued \in SUBSET Requests
  BY DEF Queued
<1> QED
  BY <1>1, FS_Subset, FS_CardinalityType, AgentServiceAssumption

\* What start() puts back is no longer than the backlog of the store.
LEMMA RequeuedFits ==
  ASSUME NEW s \in QueuedInOrder, RestartFits
  PROVE  s \in Seq(Requests) /\ Len(s) <= MaxQueue
<1> DEFINE n == Cardinality(Queued)
<1>1. n \in Nat /\ n <= MaxQueue
  BY QueuedFinite DEF RestartFits
<1>2. s \in [1 .. n -> Queued]
  BY DEF QueuedInOrder
<1>3. s \in [1 .. n -> Requests]
  BY <1>2 DEF Queued
<1> HIDE DEF n
<1>4. s \in Seq(Requests) /\ Len(s) = n
  BY <1>1, <1>3
<1> QED
  BY <1>1, <1>4

\* put_nowait on a full queue changes nothing.
LEMMA EnqueuedFits ==
  ASSUME TypeOK, NEW r \in Requests
  PROVE  Enqueued(r) \in Seq(Requests) /\ Len(Enqueued(r)) <= MaxQueue
<1>1. queue \in Seq(Requests) /\ Len(queue) \in Nat /\ Len(queue) <= MaxQueue
  BY LenProperties DEF TypeOK
<1>2. Append(queue, r) \in Seq(Requests) /\ Len(Append(queue, r)) = Len(queue) + 1
  BY <1>1, AppendProperties
<1> QED
  BY <1>1, <1>2, AgentServiceAssumption DEF Enqueued

-----------------------------------------------------------------------------
(* What a step does to a row.                                              *)

RowMove(from, to) == to = from \/ (from \in InProgress /\ to \in {"running"} \cup Terminal)

\* A row that no one submits keeps its status or leaves the queue.
LEMMA RowMoves ==
  ASSUME TypeOK, [Next]_vars, NEW r \in Requests
  PROVE  \/ Submit(r)
         \/ RowMove(status[r], status'[r])
<1> USE DEF RowMove, InProgress, Terminal
<1>1. ASSUME NEW s \in Terminal, NEW q, status' = Settled(q, s)
      PROVE  RowMove(status[r], status'[r])
  BY <1>1 DEF Settled, TypeOK
<1>2. ASSUME NEW q \in Requests, Submit(q) PROVE Submit(r) \/ RowMove(status[r], status'[r])
  BY <1>2 DEF Submit, TypeOK
<1>3. ASSUME NEW q \in Requests, CancelBegins(q) PROVE RowMove(status[r], status'[r])
  BY <1>1, <1>3 DEF CancelBegins
<1>4. ASSUME NEW q \in Requests, NEW failed \in BOOLEAN, CancelReturns(q, failed)
      PROVE  RowMove(status[r], status'[r])
  BY <1>1, <1>4 DEF CancelReturns
<1>5. ASSUME NEW w \in Workers, TakeRequest(w) PROVE RowMove(status[r], status'[r])
  BY <1>5 DEF TakeRequest, MarksRunning, TypeOK
<1>6. ASSUME NEW w \in Workers, ThreadFails(w) \/ TurnStopped(w) PROVE RowMove(status[r], status'[r])
  <2>1. status' = Settled(req[w], "failed")
    BY <1>6 DEF ThreadFails, TurnStopped, EndTurn
  <2> QED
    BY <1>1, <2>1
<1>7. ASSUME NEW w \in Workers, NEW s \in Terminal, TurnEnds(w, s)
      PROVE  RowMove(status[r], status'[r])
  BY <1>1, <1>7 DEF TurnEnds, EndTurn
<1>8. CASE Close \/ Start
  BY <1>8 DEF Close, Start, Interrupted
<1>9. ASSUME \/ \E q \in Requests : InterruptArrives(q)
             \/ \E d \in Devices : Reset(d)
             \/ \E w \in Workers, t \in Threads : ThreadReady(w, t)
             \/ \E w \in Workers : TurnCreated(w) \/ TimeOut(w)
             \/ Crash \/ UNCHANGED vars
      PROVE  RowMove(status[r], status'[r])
  BY <1>9 DEF InterruptArrives, Reset, ThreadReady, TurnCreated, TimeOut, Crash
<1> QED
  BY <1>2, <1>3, <1>4, <1>5, <1>6, <1>7, <1>8, <1>9 DEF Next

\* Two requests of a device are never in progress together: accept_request
\* looks for the other in the transaction that inserts the row.
LEMMA StepOnePerDevice ==
  ASSUME TypeOK, OnePerDevice, [Next]_vars
  PROVE  OnePerDevice'
<1> SUFFICES ASSUME NEW r \in Requests, NEW q \in Requests, DeviceOf[r] = DeviceOf[q],
                    status'[r] \in InProgress, status'[q] \in InProgress, r # q
             PROVE  FALSE
  BY DEF OnePerDevice, InProgress
<1>1. ASSUME NEW a \in Requests, NEW b \in Requests, DeviceOf[a] = DeviceOf[b], a # b,
             Submit(a), status'[b] \in InProgress
      PROVE  FALSE
  BY <1>1 DEF Submit, ActiveFor, TypeOK, InProgress
<1>2. CASE Submit(r) \/ Submit(q)
  BY <1>1, <1>2
<1>3. CASE ~Submit(r) /\ ~Submit(q)
  <2>1. status[r] \in InProgress /\ status[q] \in InProgress
    BY <1>3, RowMoves DEF RowMove, InProgress
  <2> QED
    BY <2>1 DEF OnePerDevice, InProgress
<1> QED
  BY <1>2, <1>3

\* Only an accepted submission adds a queued row, below the bound.
LEMMA StepRestartFits ==
  ASSUME TypeOK, RestartFits, [Next]_vars
  PROVE  RestartFits'
<1>1. ASSUME NEW r \in Requests, Submit(r) PROVE RestartFits'
  <2>1. Queued' = Queued \cup {r} /\ r \notin Queued
    BY <1>1 DEF Submit, Queued, TypeOK
  <2>2. Cardinality(Queued') = Cardinality(Queued) + 1
    BY <2>1, QueuedFinite, FS_AddElement
  <2> QED
    BY <1>1, <2>2, QueuedFinite, AgentServiceAssumption DEF Submit, HasRoom, RestartFits
<1>2. CASE \A r \in Requests : ~Submit(r)
  <2>1. Queued' \subseteq Queued
    BY <1>2, RowMoves DEF RowMove, Queued, Terminal
  <2>2. Cardinality(Queued') \in Nat /\ Cardinality(Queued') <= Cardinality(Queued)
    BY <2>1, QueuedFinite, FS_Subset, FS_CardinalityType
  <2> QED
    BY <2>2, QueuedFinite, AgentServiceAssumption DEF RestartFits
<1> QED
  BY <1>1, <1>2

-----------------------------------------------------------------------------
(* Types.                                                                  *)

LEMMA EmptyFits == << >> \in Seq(Requests) /\ Len(<< >>) <= MaxQueue
<1>1. Len(<< >>) = 0
  OBVIOUS
<1> QED
  BY <1>1, AgentServiceAssumption

\* A worker that leaves and a process that stops fall back to their first values.
LEMMA IdleTypes ==
  /\ Idle.pc \in [Workers -> Awaits] /\ Idle.req \in [Workers -> Requests \cup {NoRequest}]
  /\ Idle.wgen \in [Workers -> 0 .. MaxGen] /\ Idle.wthread \in [Workers -> Threads \cup {NoThread}]
  /\ Idle.entry \in [Threads -> Requests \cup {NoRequest}]
  /\ Idle.target \in [Requests -> Requests \cup {NoRequest}]
  BY AgentServiceAssumption DEF Idle, Awaits

LEMMA InitTypes == Init => TypeOK
<1> SUFFICES ASSUME Init PROVE TypeOK
  OBVIOUS
<1>1. status \in [Requests -> Statuses] /\ created \in [Requests -> Nat]
  BY DEF Init, Statuses
<1>2. gen \in [Devices -> 0 .. MaxGen] /\ thread \in [Devices -> Threads \cup {NoThread}]
  <2>1. 0 \in 0 .. MaxGen
    BY AgentServiceAssumption
  <2> QED
    BY <2>1 DEF Init
<1>3. /\ history \in [Devices -> SUBSET ((1 .. MaxGen) \X Threads)]
      /\ threads \subseteq Threads /\ up \in BOOLEAN /\ cached \subseteq threads
  BY DEF Init
<1>4. /\ turn \in [Requests -> {"none", "live", "interrupted", "over"}]
      /\ runs \in [Requests -> Nat]
  BY DEF Init
<1> QED
  BY <1>1, <1>2, <1>3, <1>4, IdleTypes, EmptyFits DEF Init, TypeOK

LEMMA LeaveTypes ==
  ASSUME TypeOK, NEW w \in Workers, Leave(w)
  PROVE  /\ pc' \in [Workers -> Awaits] /\ req' \in [Workers -> Requests \cup {NoRequest}]
         /\ wgen' \in [Workers -> 0 .. MaxGen] /\ wthread' \in [Workers -> Threads \cup {NoThread}]
  BY AgentServiceAssumption DEF Leave, TypeOK, Awaits

LEMMA SettledTypes ==
  ASSUME TypeOK, NEW r, NEW s \in Terminal
  PROVE  Settled(r, s) \in [Requests -> Statuses]
  BY DEF Settled, TypeOK, Statuses

LEMMA InterruptedTypes ==
  ASSUME TypeOK
  PROVE  Interrupted \in [Requests -> Statuses]
  BY DEF Interrupted, TypeOK, Statuses, Terminal

LEMMA EndTurnTypes ==
  ASSUME TypeOK, NEW w \in Workers, NEW s \in Terminal, EndTurn(w, s)
  PROVE  TypeOK'
<1>1. status' \in [Requests -> Statuses]
  BY SettledTypes DEF EndTurn
<1>2. /\ pc' \in [Workers -> Awaits] /\ req' \in [Workers -> Requests \cup {NoRequest}]
      /\ wgen' \in [Workers -> 0 .. MaxGen] /\ wthread' \in [Workers -> Threads \cup {NoThread}]
  BY LeaveTypes DEF EndTurn
<1>3. /\ turn' \in [Requests -> {"none", "live", "interrupted", "over"}]
      /\ entry' \in [Threads -> Requests \cup {NoRequest}]
  BY DEF EndTurn, TypeOK
<1> QED
  BY <1>1, <1>2, <1>3 DEF EndTurn, TypeOK

LEMMA StepTypes ==
  ASSUME RowsInv, [Next]_vars
  PROVE  TypeOK'
<1> USE AgentServiceAssumption DEF RowsInv
<1>1. ASSUME NEW r \in Requests, Submit(r) PROVE TypeOK'
  <2>1. Now \in Nat
    <3>1. {q \in Requests : status[q] # "absent"} \in SUBSET Requests
      OBVIOUS
    <3> QED
      BY <3>1, FS_Subset, FS_CardinalityType DEF Now
  <2>2. created' \in [Requests -> Nat] /\ status' \in [Requests -> Statuses]
    BY <1>1, <2>1 DEF Submit, TypeOK, Statuses
  <2>3. queue' \in Seq(Requests) /\ Len(queue') <= MaxQueue
    BY <1>1, EnqueuedFits DEF Submit
  <2> QED
    BY <1>1, <2>2, <2>3 DEF Submit, TypeOK
<1>2. ASSUME NEW r \in Requests, CancelBegins(r) PROVE TypeOK'
  <2>1. Registered(r) \in Requests \cup {NoRequest}
    BY DEF Registered, TypeOK
  <2>2. status' \in [Requests -> Statuses]
    BY <1>2, SettledTypes DEF CancelBegins, Terminal, TypeOK
  <2>3. target' \in [Requests -> Requests \cup {NoRequest}]
    BY <1>2, <2>1 DEF CancelBegins, TypeOK
  <2> QED
    BY <1>2, <2>2, <2>3 DEF CancelBegins, TypeOK
<1>3. ASSUME NEW r \in Requests, InterruptArrives(r) PROVE TypeOK'
  BY <1>3 DEF InterruptArrives, TypeOK
<1>4. ASSUME NEW r \in Requests, NEW failed \in BOOLEAN, CancelReturns(r, failed) PROVE TypeOK'
  <2>1. status' \in [Requests -> Statuses]
    BY <1>4, SettledTypes DEF CancelReturns, Terminal
  <2>2. target' \in [Requests -> Requests \cup {NoRequest}]
    BY <1>4 DEF CancelReturns, TypeOK
  <2> QED
    BY <1>4, <2>1, <2>2 DEF CancelReturns, TypeOK
<1>5. ASSUME NEW d \in Devices, Reset(d) PROVE TypeOK'
  <2>1. gen' \in [Devices -> 0 .. MaxGen] /\ thread' \in [Devices -> Threads \cup {NoThread}]
    BY <1>5 DEF Reset, SaveThread, TypeOK
  <2>2. Archived(d) \in SUBSET ((1 .. MaxGen) \X Threads)
    <3>1. CASE thread[d] = NoThread
      BY <3>1 DEF Archived, TypeOK
    <3>2. CASE thread[d] # NoThread
      <4>1. gen[d] \in 1 .. MaxGen /\ thread[d] \in Threads
        BY <3>2 DEF SessionsFit, TypeOK
      <4> QED
        BY <3>2, <4>1 DEF Archived, TypeOK
    <3> QED
      BY <3>1, <3>2
  <2> QED
    BY <1>5, <2>1, <2>2 DEF Reset, TypeOK
<1>6. ASSUME NEW w \in Workers, TakeRequest(w) PROVE TypeOK'
  <2>1. /\ Head(queue) \in Requests /\ queue' \in Seq(Requests) /\ Len(queue') <= MaxQueue
    <3>1. queue \in Seq(Requests) /\ queue # <<>> /\ Len(queue) <= MaxQueue /\ Len(queue) \in Nat
      BY <1>6, LenProperties DEF TakeRequest, TypeOK
    <3>2. /\ Head(queue) \in Requests /\ Tail(queue) \in Seq(Requests)
          /\ Len(Tail(queue)) = Len(queue) - 1
      BY <3>1, HeadTailProperties
    <3>3. queue' = Tail(queue)
      BY <1>6 DEF TakeRequest
    <3>4. Len(Tail(queue)) <= MaxQueue
      BY <3>1, <3>2
    <3> QED
      BY <3>2, <3>3, <3>4
  <2> DEFINE r == Head(queue)
             d == DeviceOf[r]
  <2>2. CASE MarksRunning(r)
    <3>1. d \in Devices
      BY <2>1
    <3>2. /\ status' = [status EXCEPT ![r] = "running"] /\ req' = [req EXCEPT ![w] = r]
          /\ wgen' = [wgen EXCEPT ![w] = IF gen[d] = 0 THEN 1 ELSE gen[d]]
          /\ wthread' = [wthread EXCEPT ![w] = thread[d]]
          /\ \E to \in {"starting", "turning", "resuming"} : pc' = [pc EXCEPT ![w] = to]
      BY <1>6, <2>2 DEF TakeRequest
    <3>3. r \in Requests
      BY <2>1
    <3> HIDE DEF r, d
    <3>4. status' \in [Requests -> Statuses] /\ req' \in [Workers -> Requests \cup {NoRequest}]
      BY <3>2, <3>3 DEF TypeOK, Statuses
    <3>5. wgen' \in [Workers -> 0 .. MaxGen]
      <4>1. gen[d] \in 0 .. MaxGen
        BY <3>1 DEF TypeOK
      <4>2. (IF gen[d] = 0 THEN 1 ELSE gen[d]) \in 0 .. MaxGen
        BY <4>1
      <4> QED
        BY <3>2, <4>2 DEF TypeOK
    <3>6. wthread' \in [Workers -> Threads \cup {NoThread}] /\ pc' \in [Workers -> Awaits]
      BY <3>1, <3>2 DEF TypeOK, Awaits
    <3> QED
      BY <1>6, <2>1, <3>4, <3>5, <3>6 DEF TakeRequest, TypeOK
  <2>3. CASE ~MarksRunning(r)
    BY <1>6, <2>1, <2>3 DEF TakeRequest, TypeOK
  <2> QED
    BY <2>2, <2>3
<1>7. ASSUME NEW w \in Workers, NEW t \in Threads, ThreadReady(w, t) PROVE TypeOK'
  <2>1. req[w] \in Requests
    BY <1>7 DEF ThreadReady, WorkersFit, TypeOK
  <2>2. gen' \in [Devices -> 0 .. MaxGen] /\ thread' \in [Devices -> Threads \cup {NoThread}]
    BY <1>7, <2>1 DEF ThreadReady, SaveThread, TypeOK
  <2>3. wthread' \in [Workers -> Threads \cup {NoThread}] /\ pc' \in [Workers -> Awaits]
    BY <1>7 DEF ThreadReady, TypeOK, Awaits
  <2>4. threads' \subseteq Threads /\ cached' \subseteq threads'
    BY <1>7 DEF ThreadReady, TypeOK
  <2> QED
    BY <1>7, <2>2, <2>3, <2>4 DEF ThreadReady, TypeOK
<1>8. ASSUME NEW w \in Workers, ThreadFails(w) PROVE TypeOK'
  <2>1. status' \in [Requests -> Statuses]
    BY <1>8, SettledTypes DEF ThreadFails, Terminal
  <2>2. /\ pc' \in [Workers -> Awaits] /\ req' \in [Workers -> Requests \cup {NoRequest}]
        /\ wgen' \in [Workers -> 0 .. MaxGen] /\ wthread' \in [Workers -> Threads \cup {NoThread}]
    BY <1>8, LeaveTypes DEF ThreadFails
  <2> QED
    BY <1>8, <2>1, <2>2 DEF ThreadFails, TypeOK
<1>9. ASSUME NEW w \in Workers, TurnCreated(w) PROVE TypeOK'
  <2>1. req[w] \in Requests
    BY <1>9 DEF TurnCreated, WorkersFit, TypeOK
  <2>2. pc' \in [Workers -> Awaits]
    BY <1>9 DEF TurnCreated, TypeOK, Awaits
  <2>3. runs' \in [Requests -> Nat]
    BY <1>9, <2>1 DEF TurnCreated, TypeOK
  <2>4. /\ entry' \in [Threads -> Requests \cup {NoRequest}]
        /\ turn' \in [Requests -> {"none", "live", "interrupted", "over"}]
    BY <1>9, <2>1 DEF TurnCreated, TypeOK
  <2> QED
    BY <1>9, <2>2, <2>3, <2>4 DEF TurnCreated, TypeOK
<1>10. ASSUME NEW w \in Workers, NEW s \in Terminal, TurnEnds(w, s) PROVE TypeOK'
  BY <1>10, EndTurnTypes DEF TurnEnds
<1>11. ASSUME NEW w \in Workers, TimeOut(w) PROVE TypeOK'
  BY <1>11 DEF TimeOut, TypeOK, Awaits
<1>12. ASSUME NEW w \in Workers, TurnStopped(w) PROVE TypeOK'
  BY <1>12, EndTurnTypes DEF TurnStopped, Terminal
<1>13. CASE Crash \/ Close
  <2>1. status' \in [Requests -> Statuses]
    BY <1>13, InterruptedTypes DEF Crash, Close, TypeOK
  <2>2. Volatile
    BY <1>13 DEF Crash, Close
  <2>3. turn' \in [Requests -> {"none", "live", "interrupted", "over"}]
    BY <2>2 DEF Volatile, TypeOK
  <2>4. queue' \in Seq(Requests) /\ Len(queue') <= MaxQueue /\ cached' \subseteq threads' /\ up' \in BOOLEAN
    BY <2>2, EmptyFits DEF Volatile
  <2> QED
    BY <2>1, <2>2, <2>3, <2>4, IdleTypes DEF Volatile, TypeOK
<1>14. CASE Start
  BY <1>14, RequeuedFits, InterruptedTypes DEF Start, TypeOK
<1>15. CASE UNCHANGED vars
  BY <1>15 DEF TypeOK
<1> QED
  BY <1>1, <1>2, <1>3, <1>4, <1>5, <1>6, <1>7, <1>8, <1>9, <1>10, <1>11, <1>12, <1>13,
     <1>14, <1>15 DEF Next

-----------------------------------------------------------------------------
(* Workers and turns.                                                      *)

\* A row that has left the queue never goes back to it.
LEMMA NeverRequeued ==
  ASSUME TypeOK, [Next]_vars, NEW r \in Requests, status[r] \notin {"absent", "queued"}
  PROVE  status'[r] \notin {"absent", "queued"}
<1>1. ~Submit(r)
  BY DEF Submit
<1> QED
  BY <1>1, RowMoves DEF RowMove, InProgress, Terminal

\* The four variables of the workers change for one worker at a time.
LEMMA StepSessionsFit ==
  ASSUME RowsInv, [Next]_vars
  PROVE  SessionsFit'
<1> USE DEF RowsInv, SessionsFit
<1>1. ASSUME NEW d \in Devices, Reset(d) PROVE SessionsFit'
  BY <1>1 DEF Reset, SaveThread, TypeOK
<1>2. ASSUME NEW w \in Workers, NEW t \in Threads, ThreadReady(w, t) PROVE SessionsFit'
  <2>1. wgen[w] >= 1
    BY <1>2 DEF ThreadReady, WorkersFit
  <2> QED
    BY <1>2, <2>1 DEF ThreadReady, SaveThread, TypeOK
<1>3. CASE UNCHANGED <<gen, thread>>
  BY <1>3
<1>4. ASSUME ~(\E d \in Devices : Reset(d)),
             ~(\E w \in Workers, t \in Threads : ThreadReady(w, t))
      PROVE  UNCHANGED <<gen, thread>>
  BY <1>4 DEF Next, Submit, CancelBegins, InterruptArrives, CancelReturns, TakeRequest,
     ThreadFails, TurnCreated, TurnEnds, TimeOut, TurnStopped, EndTurn, Crash, Close, Volatile, Start
<1> QED
  BY <1>1, <1>2, <1>3, <1>4

\* What WorkersFit says of a worker that waits for nothing.
LEMMA LeavesFit ==
  ASSUME RowsInv, [Next]_vars, NEW w \in Workers, Leave(w), runs' = runs
  PROVE  WorkersFit'
<1> SUFFICES ASSUME NEW v \in Workers
             PROVE  /\ pc'[v] = "idle" <=> req'[v] = NoRequest
                    /\ req'[v] # NoRequest =>
                         /\ wgen'[v] >= 1
                         /\ status'[req'[v]] \notin {"absent", "queued"}
                         /\ \A u \in Workers : req'[u] = req'[v] => u = v
                    /\ pc'[v] \in {"starting", "resuming", "turning"} => runs'[req'[v]] = 0
  BY DEF WorkersFit
<1>1. CASE v = w
  BY <1>1 DEF Leave, RowsInv, TypeOK
<1>2. CASE v # w
  <2>1. pc'[v] = pc[v] /\ req'[v] = req[v] /\ wgen'[v] = wgen[v]
    BY <1>2 DEF Leave, RowsInv, TypeOK
  <2>2. \A u \in Workers : req'[u] = req[u] \/ req'[u] = NoRequest
    BY DEF Leave, RowsInv, TypeOK
  <2>3. req[v] \in Requests \cup {NoRequest}
    BY DEF RowsInv, TypeOK
  <2> QED
    BY <2>1, <2>2, <2>3, NeverRequeued DEF RowsInv, WorkersFit
<1> QED
  BY <1>1, <1>2

\* No worker takes or leaves a request.
LEMMA KeepsFit ==
  ASSUME RowsInv, [Next]_vars, UNCHANGED <<req, wgen>>,
         \A v \in Workers : /\ pc'[v] = "idle" <=> pc[v] = "idle"
                            /\ pc'[v] \in {"starting", "resuming", "turning"} =>
                                 runs'[req[v]] = 0
  PROVE  WorkersFit'
<1>1. \A v \in Workers : req[v] # NoRequest => status'[req[v]] \notin {"absent", "queued"}
  BY NeverRequeued DEF RowsInv, WorkersFit, TypeOK
<1> QED
  BY <1>1 DEF RowsInv, WorkersFit

LEMMA StepWorkersFit ==
  ASSUME RowsInv, AtMostOneTurn, [Next]_vars
  PROVE  WorkersFit'
<1>1. ASSUME NEW w \in Workers, TakeRequest(w) PROVE WorkersFit'
  <2> DEFINE r == Head(queue)
             d == DeviceOf[r]
  <2>1. CASE MarksRunning(r)
    <3>1. /\ status' = [status EXCEPT ![r] = "running"] /\ req' = [req EXCEPT ![w] = r]
          /\ wgen' = [wgen EXCEPT ![w] = IF gen[d] = 0 THEN 1 ELSE gen[d]]
          /\ \E to \in {"starting", "turning", "resuming"} : pc' = [pc EXCEPT ![w] = to]
          /\ runs' = runs
      BY <1>1, <2>1 DEF TakeRequest
    <3>2. r \in Requests /\ d \in Devices
      <4>1. queue \in Seq(Requests) /\ queue # << >>
        BY <1>1 DEF TakeRequest, RowsInv, TypeOK
      <4>2. r \in Requests
        BY <4>1, HeadTailProperties
      <4> QED
        BY <4>2, AgentServiceAssumption
    <3>3. status[r] = "queued" /\ r # NoRequest
      BY <2>1, <3>2, AgentServiceAssumption DEF MarksRunning
    <3>4. runs[r] = 0
      BY <3>2, <3>3 DEF AtMostOneTurn
    <3>5. \A v \in Workers : req[v] # r
      BY <3>3 DEF RowsInv, WorkersFit
    <3>6. (IF gen[d] = 0 THEN 1 ELSE gen[d]) >= 1
      <4>1. gen[d] \in 0 .. MaxGen
        BY <3>2 DEF RowsInv, TypeOK
      <4> QED
        BY <4>1, AgentServiceAssumption
    <3> HIDE DEF r, d
    <3> SUFFICES ASSUME NEW v \in Workers
                 PROVE  /\ pc'[v] = "idle" <=> req'[v] = NoRequest
                        /\ req'[v] # NoRequest =>
                             /\ wgen'[v] >= 1
                             /\ status'[req'[v]] \notin {"absent", "queued"}
                             /\ \A u \in Workers : req'[u] = req'[v] => u = v
                        /\ pc'[v] \in {"starting", "resuming", "turning"} => runs'[req'[v]] = 0
      BY DEF WorkersFit
    <3>7. \A u \in Workers : u # w => req'[u] = req[u] /\ pc'[u] = pc[u] /\ wgen'[u] = wgen[u]
      BY <3>1 DEF RowsInv, TypeOK
    <3>8. req'[w] = r /\ pc'[w] # "idle" /\ wgen'[w] >= 1 /\ status'[r] = "running"
      BY <3>1, <3>2, <3>6 DEF RowsInv, TypeOK
    <3>9. CASE v = w
      BY <3>1, <3>3, <3>4, <3>5, <3>7, <3>8, <3>9
    <3>10. CASE v # w
      <4>1. req[v] # NoRequest => status'[req[v]] \notin {"absent", "queued"}
        BY NeverRequeued DEF RowsInv, WorkersFit, TypeOK
      <4> QED
        BY <3>1, <3>5, <3>7, <3>8, <3>10, <4>1 DEF RowsInv, WorkersFit
    <3> QED
      BY <3>9, <3>10
  <2>2. CASE ~MarksRunning(r)
    BY <1>1, <2>2, KeepsFit DEF TakeRequest, RowsInv, WorkersFit
  <2> QED
    BY <2>1, <2>2
<1>2. ASSUME NEW w \in Workers, NEW t \in Threads, ThreadReady(w, t) PROVE WorkersFit'
  <2>1. /\ UNCHANGED <<req, wgen, runs>> /\ pc' = [pc EXCEPT ![w] = "turning"]
        /\ pc[w] \in {"starting", "resuming"}
    BY <1>2 DEF ThreadReady
  <2> QED
    BY <2>1, KeepsFit DEF RowsInv, WorkersFit, TypeOK
<1>3. ASSUME NEW w \in Workers, TurnCreated(w) PROVE WorkersFit'
  <2>1. /\ UNCHANGED <<req, wgen>> /\ pc[w] = "turning" /\ pc' = [pc EXCEPT ![w] = "running"]
        /\ runs' = [runs EXCEPT ![req[w]] = @ + 1]
    BY <1>3 DEF TurnCreated
  <2>2. req[w] # NoRequest
    BY <2>1 DEF RowsInv, WorkersFit
  <2>3. \A v \in Workers : v # w => req[v] # req[w]
    BY <2>2 DEF RowsInv, WorkersFit
  <2>4. \A v \in Workers : pc'[v] \in {"starting", "resuming", "turning"} => runs'[req[v]] = 0
    <3> SUFFICES ASSUME NEW v \in Workers, pc'[v] \in {"starting", "resuming", "turning"}
                 PROVE  runs'[req[v]] = 0
      OBVIOUS
    <3>1. v # w /\ pc'[v] = pc[v]
      BY <2>1 DEF RowsInv, TypeOK
    <3>2. req[v] \in Requests /\ runs[req[v]] = 0 /\ req[v] # req[w]
      BY <2>3, <3>1 DEF RowsInv, WorkersFit, TypeOK
    <3> QED
      BY <2>1, <3>2 DEF RowsInv, TypeOK
  <2> QED
    BY <2>1, <2>4, KeepsFit DEF RowsInv, TypeOK
<1>4. ASSUME NEW w \in Workers, TimeOut(w) PROVE WorkersFit'
  <2>1. UNCHANGED <<req, wgen, runs>> /\ pc[w] = "running" /\ pc' = [pc EXCEPT ![w] = "stopping"]
    BY <1>4 DEF TimeOut
  <2> QED
    BY <2>1, KeepsFit DEF RowsInv, WorkersFit, TypeOK
<1>5. ASSUME NEW w \in Workers,
             ThreadFails(w) \/ TurnStopped(w) \/ \E s \in Terminal : TurnEnds(w, s)
      PROVE  WorkersFit'
  <2>1. Leave(w) /\ runs' = runs
    BY <1>5 DEF ThreadFails, TurnStopped, TurnEnds, EndTurn
  <2> QED
    BY <2>1, LeavesFit
<1>6. CASE Crash \/ Close
  BY <1>6 DEF Crash, Close, Volatile, Idle, WorkersFit
<1>7. ASSUME \/ \E r \in Requests : Submit(r) \/ CancelBegins(r) \/ InterruptArrives(r)
             \/ \E r \in Requests, failed \in BOOLEAN : CancelReturns(r, failed)
             \/ \E d \in Devices : Reset(d)
             \/ Start \/ UNCHANGED vars
      PROVE  WorkersFit'
  <2>1. UNCHANGED <<pc, req, wgen, runs>>
    BY <1>7 DEF Submit, CancelBegins, InterruptArrives, CancelReturns, Reset, Start
  <2> QED
    BY <2>1, KeepsFit DEF RowsInv, WorkersFit
<1> QED
  BY <1>1, <1>2, <1>3, <1>4, <1>5, <1>6, <1>7 DEF Next

\* Only TurnCreated counts a turn, for a request that has had none.
LEMMA StepAtMostOneTurn ==
  ASSUME RowsInv, AtMostOneTurn, [Next]_vars
  PROVE  AtMostOneTurn'
<1> SUFFICES ASSUME NEW r \in Requests
             PROVE  /\ runs'[r] <= 1
                    /\ status'[r] \in {"absent", "queued"} => runs'[r] = 0
  BY DEF AtMostOneTurn
<1>1. /\ runs[r] \in Nat /\ runs[r] <= 1
      /\ status[r] \in {"absent", "queued"} => runs[r] = 0
  BY DEF AtMostOneTurn, RowsInv, TypeOK
<1>2. status'[r] \in {"absent", "queued"} => status[r] \in {"absent", "queued"}
  BY NeverRequeued DEF RowsInv
<1>3. CASE runs' = runs
  BY <1>1, <1>2, <1>3
<1>4. ASSUME NEW w \in Workers, TurnCreated(w)
      PROVE  /\ runs'[r] <= 1
             /\ status'[r] \in {"absent", "queued"} => runs'[r] = 0
  <2>1. runs' = [runs EXCEPT ![req[w]] = @ + 1] /\ pc[w] = "turning" /\ status' = status
    BY <1>4 DEF TurnCreated
  <2>2. runs[req[w]] = 0 /\ status[req[w]] \notin {"absent", "queued"}
    BY <2>1 DEF RowsInv, WorkersFit
  <2>3. CASE r = req[w]
    BY <2>1, <2>2, <2>3 DEF RowsInv, TypeOK
  <2>4. CASE r # req[w]
    BY <1>1, <2>1, <2>4 DEF RowsInv, TypeOK
  <2> QED
    BY <2>3, <2>4
<1>5. (\A w \in Workers : ~TurnCreated(w)) => runs' = runs
  BY DEF Next, Submit, CancelBegins, InterruptArrives, CancelReturns, Reset, TakeRequest,
     ThreadReady, ThreadFails, TurnEnds, TimeOut, TurnStopped, EndTurn, Crash, Close, Volatile, Start
<1> QED
  BY <1>3, <1>4, <1>5

-----------------------------------------------------------------------------
(* The queue.                                                              *)

\* A request is in the queue once at most, and only when it has a row, so that a
\* new submission cannot be there yet.
NothingQueuedTwice ==
  \A i, j \in 1 .. Len(queue) : queue[i] = queue[j] => i = j

QueueHasRows == \A i \in 1 .. Len(queue) : status[queue[i]] # "absent"

QueueFits == NothingQueuedTwice /\ QueueHasRows

\* What start() puts back holds every queued row exactly once: the rows are put
\* back by the time they were created, and there are as many places as rows.
LEMMA RequeuedOnce ==
  ASSUME TypeOK, NEW s \in QueuedInOrder
  PROVE  /\ s \in Seq(Requests)
         /\ \A i \in 1 .. Len(s) : s[i] \in Queued
         /\ \A i, j \in 1 .. Len(s) : s[i] = s[j] => i = j
         /\ \A r \in Queued : \E i \in 1 .. Len(s) : s[i] = r
<1> DEFINE n == Cardinality(Queued)
           T == 1 .. n
<1>1. n \in Nat /\ IsFiniteSet(Queued) /\ Queued \subseteq Requests
  BY QueuedFinite DEF Queued
<1>2. /\ s \in [T -> Queued]
      /\ \A i, j \in DOMAIN s : i < j => created[s[i]] < created[s[j]]
  BY DEF QueuedInOrder
<1>3. \A r \in Queued : created[r] \in Nat
  BY <1>1 DEF TypeOK
<1> HIDE DEF n
<1>4. ASSUME NEW i \in T, NEW j \in T, s[i] = s[j] PROVE i = j
  <2>1. s[i] \in Queued /\ created[s[i]] \in Nat
    BY <1>2, <1>3
  <2>2. ~(i < j) /\ ~(j < i)
    BY <1>2, <1>4, <2>1
  <2> QED
    BY <1>1, <2>2
<1>5. s \in Surjection(T, Queued)
  <2>1. s \in Injection(T, Queued)
    BY <1>2, <1>4 DEF Injection, IsInjective
  <2>2. Cardinality(T) = n
    BY <1>1, FS_Interval
  <2> QED
    BY <1>1, <2>1, <2>2, FS_Injection DEF n
<1>6. s \in Seq(Requests) /\ Len(s) = n
  BY <1>1, <1>2
<1>7. \A r \in Queued : \E i \in T : s[i] = r
  BY <1>5 DEF Surjection
<1> QED
  BY <1>2, <1>4, <1>6, <1>7

\* Only a submission and start() put requests into the queue.
LEMMA StepQueueFits ==
  ASSUME TypeOK, QueueFits, [Next]_vars
  PROVE  QueueFits'
<1>1. queue \in Seq(Requests) /\ Len(queue) \in Nat
  BY LenProperties DEF TypeOK
<1>2. \A r \in Requests : status[r] # "absent" => status'[r] # "absent"
  <2> SUFFICES ASSUME NEW r \in Requests, status[r] # "absent" PROVE status'[r] # "absent"
    OBVIOUS
  <2>1. ~Submit(r)
    BY DEF Submit
  <2> QED
    BY <2>1, RowMoves DEF RowMove, Terminal
<1>3. CASE queue' = queue
  BY <1>1, <1>2, <1>3 DEF QueueFits, NothingQueuedTwice, QueueHasRows
<1>4. ASSUME NEW r \in Requests, Submit(r) PROVE QueueFits'
  <2>1. status[r] = "absent" /\ status'[r] = "queued" /\ queue' = Enqueued(r)
    BY <1>4 DEF Submit, TypeOK
  <2>2. CASE queue' = queue
    BY <1>3, <2>2
  <2>3. CASE queue' = Append(queue, r)
    <3>1. /\ Len(queue') = Len(queue) + 1 /\ queue'[Len(queue) + 1] = r
          /\ \A i \in 1 .. Len(queue) : queue'[i] = queue[i]
      BY <1>1, <2>3, AppendProperties
    <3>2. \A i \in 1 .. Len(queue) : queue[i] \in Requests /\ queue[i] # r
      BY <1>1, <2>1 DEF QueueFits, QueueHasRows
    <3>3. QueueHasRows'
      BY <1>1, <1>2, <2>1, <3>1, <3>2 DEF QueueFits, QueueHasRows
    <3>4. NothingQueuedTwice'
      BY <1>1, <3>1, <3>2 DEF QueueFits, NothingQueuedTwice
    <3> QED
      BY <3>3, <3>4 DEF QueueFits
  <2> QED
    BY <2>1, <2>2, <2>3 DEF Enqueued
<1>5. ASSUME NEW w \in Workers, TakeRequest(w) PROVE QueueFits'
  <2>1. queue # << >> /\ queue' = Tail(queue)
    BY <1>5 DEF TakeRequest
  <2>2. /\ Len(queue') = Len(queue) - 1
        /\ \A i \in 1 .. Len(queue') : queue'[i] = queue[i + 1]
    BY <1>1, <2>1, HeadTailProperties
  <2>3. \A i \in 1 .. Len(queue') : i + 1 \in 1 .. Len(queue) /\ queue[i + 1] \in Requests
    BY <1>1, <2>2
  <2>4. QueueHasRows'
    BY <1>2, <2>2, <2>3 DEF QueueFits, QueueHasRows
  <2>5. NothingQueuedTwice'
    <3> SUFFICES ASSUME NEW i \in 1 .. Len(queue'), NEW j \in 1 .. Len(queue'),
                        queue'[i] = queue'[j]
                 PROVE  i = j
      BY DEF NothingQueuedTwice
    <3>1. i + 1 = j + 1
      BY <2>2, <2>3 DEF QueueFits, NothingQueuedTwice
    <3> QED
      BY <3>1
  <2> QED
    BY <2>4, <2>5 DEF QueueFits
<1>6. CASE Crash \/ Close
  <2>1. queue' = << >> /\ Len(queue') = 0
    BY <1>6 DEF Crash, Close, Volatile
  <2> QED
    BY <2>1 DEF QueueFits, NothingQueuedTwice, QueueHasRows
<1>7. CASE Start
  <2>1. queue' \in QueuedInOrder
    BY <1>7 DEF Start
  <2>2. \A i \in 1 .. Len(queue') : queue'[i] \in Requests /\ status[queue'[i]] # "absent"
    BY <2>1, RequeuedOnce DEF Queued
  <2>3. NothingQueuedTwice'
    BY <2>1, RequeuedOnce DEF NothingQueuedTwice
  <2> QED
    BY <1>2, <2>2, <2>3 DEF QueueFits, QueueHasRows
<1>8. \/ \E r \in Requests : Submit(r)
      \/ \E w \in Workers : TakeRequest(w)
      \/ Crash \/ Close \/ Start \/ queue' = queue
  BY DEF Next, CancelBegins, InterruptArrives, CancelReturns, Reset, ThreadReady, ThreadFails,
         TurnCreated, TurnEnds, TimeOut, TurnStopped, EndTurn
<1> QED
  BY <1>3, <1>4, <1>5, <1>6, <1>7, <1>8

-----------------------------------------------------------------------------
(* Threads.                                                                *)

\* A step that adds no reference and removes no thread keeps them apart.
LEMMA FewerReferences ==
  ASSUME ThreadsFit, threads \subseteq threads',
         \A t \in Threads, d \in Devices : Refers(d, t)' => Refers(d, t)
  PROVE  ThreadsFit'
  BY DEF ThreadsFit

LEMMA StepThreadsFit ==
  ASSUME RowsInv, ThreadsFit, [Next]_vars
  PROVE  ThreadsFit'
<1>1. ASSUME NEW w \in Workers, TakeRequest(w) PROVE ThreadsFit'
  <2> DEFINE r == Head(queue)
             d == DeviceOf[r]
  <2>1. UNCHANGED <<thread, history, threads>>
    BY <1>1 DEF TakeRequest
  <2>2. CASE MarksRunning(r)
    <3>1. req' = [req EXCEPT ![w] = r] /\ wthread' = [wthread EXCEPT ![w] = thread[d]]
      BY <1>1, <2>2 DEF TakeRequest
    <3> HIDE DEF r
    <3> SUFFICES ASSUME NEW t \in Threads, NEW e \in Devices, Refers(e, t)'
                 PROVE  Refers(e, t)
      BY <2>1, FewerReferences
    <3>2. CASE \E v \in Workers : v # w /\ req'[v] # NoRequest /\ DeviceOf[req'[v]] = e /\ wthread'[v] = t
      BY <3>1, <3>2 DEF RowsInv, TypeOK, Refers
    <3>3. CASE DeviceOf[req'[w]] = e /\ wthread'[w] = t
      BY <3>1, <3>3 DEF RowsInv, TypeOK, Refers
    <3> QED
      BY <2>1, <3>2, <3>3 DEF Refers
  <2>3. CASE ~MarksRunning(r)
    <3>1. UNCHANGED <<req, wthread>>
      BY <1>1, <2>3 DEF TakeRequest
    <3> QED
      BY <2>1, <3>1 DEF ThreadsFit, Refers
  <2> QED
    BY <2>2, <2>3
<1>2. ASSUME NEW w \in Workers, NEW new \in Threads, ThreadReady(w, new) PROVE ThreadsFit'
  <2> DEFINE own == DeviceOf[req[w]]
  <2>1. req[w] \in Requests /\ req[w] # NoRequest /\ own \in Devices
    BY <1>2, AgentServiceAssumption DEF ThreadReady, RowsInv, WorkersFit, TypeOK
  <2>2. /\ thread' = [thread EXCEPT ![own] = new] /\ wthread' = [wthread EXCEPT ![w] = new]
        /\ threads' = threads \cup {new} /\ UNCHANGED <<history, req>>
    BY <1>2 DEF ThreadReady, SaveThread
  <2>3. new \notin threads \/ Refers(own, new)
    BY <1>2, <2>1 DEF ThreadReady, Refers
  <2> HIDE DEF own
  <2>4. ASSUME NEW t \in Threads, NEW e \in Devices, Refers(e, t)'
        PROVE  Refers(e, t) \/ (e = own /\ t = new)
    <3>1. thread'[e] = t => thread[e] = t \/ (e = own /\ t = new)
      BY <2>1, <2>2 DEF RowsInv, TypeOK
    <3>2. ASSUME NEW v \in Workers, req'[v] # NoRequest, DeviceOf[req'[v]] = e, wthread'[v] = t
          PROVE  Refers(e, t) \/ (e = own /\ t = new)
      <4>1. v = w => e = own /\ t = new
        BY <2>2, <3>2 DEF RowsInv, TypeOK, own
      <4>2. v # w => wthread[v] = t
        BY <2>2, <3>2 DEF RowsInv, TypeOK
      <4> QED
        BY <2>2, <3>2, <4>1, <4>2 DEF Refers
    <3> QED
      BY <2>2, <2>4, <3>1, <3>2 DEF Refers
  <2>5. ASSUME NEW t \in Threads, NEW e \in Devices, Refers(e, t)', NEW f \in Devices, Refers(f, t)'
        PROVE  e = f
    <3>1. (Refers(e, t) \/ (e = own /\ t = new)) /\ (Refers(f, t) \/ (f = own /\ t = new))
      BY <2>4, <2>5
    <3> QED
      BY <2>1, <2>3, <3>1 DEF ThreadsFit
  <2>6. ASSUME NEW t \in Threads, NEW e \in Devices, Refers(e, t)'
        PROVE  t \in threads'
    BY <2>2, <2>4, <2>6 DEF ThreadsFit
  <2> QED
    BY <2>5, <2>6 DEF ThreadsFit
<1>3. ASSUME NEW d \in Devices, Reset(d) PROVE ThreadsFit'
  <2>1. /\ history' = [history EXCEPT ![d] = Archived(d)] /\ thread' = [thread EXCEPT ![d] = NoThread]
        /\ UNCHANGED <<threads, req, wthread>>
    BY <1>3 DEF Reset, SaveThread
  <2>2. \A h \in Archived(d) : h \in history[d] \/ h[2] = thread[d]
    BY DEF Archived
  <2>3. ASSUME NEW t \in Threads, NEW e \in Devices, Refers(e, t)'
        PROVE  Refers(e, t)
    <3>1. thread'[e] = t => thread[e] = t
      BY <2>1, AgentServiceAssumption DEF RowsInv, TypeOK
    <3>2. (\E h \in history'[e] : h[2] = t) => Refers(e, t)
      BY <2>1, <2>2 DEF RowsInv, TypeOK, Refers
    <3> QED
      BY <2>1, <2>3, <3>1, <3>2 DEF Refers
  <2> QED
    BY <2>1, <2>3, FewerReferences
<1>4. ASSUME NEW w \in Workers, Leave(w), UNCHANGED <<thread, history, threads>> PROVE ThreadsFit'
  <2>1. ASSUME NEW t \in Threads, NEW e \in Devices, Refers(e, t)' PROVE Refers(e, t)
    <3>1. \A v \in Workers : req'[v] # NoRequest => req'[v] = req[v] /\ wthread'[v] = wthread[v]
      BY <1>4 DEF Leave, RowsInv, TypeOK
    <3> QED
      BY <1>4, <2>1, <3>1 DEF Refers
  <2> QED
    BY <1>4, <2>1, FewerReferences
<1>5. ASSUME NEW w \in Workers,
             ThreadFails(w) \/ TurnStopped(w) \/ \E s \in Terminal : TurnEnds(w, s)
      PROVE  ThreadsFit'
  <2>1. Leave(w) /\ UNCHANGED <<thread, history, threads>>
    BY <1>5 DEF ThreadFails, TurnStopped, TurnEnds, EndTurn
  <2> QED
    BY <1>4, <2>1
<1>6. CASE Crash \/ Close
  <2>1. req' = Idle.req /\ UNCHANGED <<thread, history, threads>>
    BY <1>6 DEF Crash, Close, Volatile
  <2>2. \A v \in Workers : req'[v] = NoRequest
    BY <2>1 DEF Idle
  <2>3. \A t \in Threads, e \in Devices : Refers(e, t)' => Refers(e, t)
    BY <2>1, <2>2 DEF Refers
  <2> QED
    BY <2>1, <2>3, FewerReferences
<1>7. CASE UNCHANGED <<thread, history, threads, req, wthread>>
  BY <1>7 DEF ThreadsFit, Refers
<1>8. ASSUME \/ \E r \in Requests : Submit(r) \/ CancelBegins(r) \/ InterruptArrives(r)
             \/ \E r \in Requests, failed \in BOOLEAN : CancelReturns(r, failed)
             \/ \E w \in Workers : TurnCreated(w) \/ TimeOut(w)
             \/ Start \/ UNCHANGED vars
      PROVE  UNCHANGED <<thread, history, threads, req, wthread>>
  BY <1>8 DEF Submit, CancelBegins, InterruptArrives, CancelReturns, TurnCreated, TimeOut, Start
<1> QED
  BY <1>1, <1>2, <1>3, <1>5, <1>6, <1>7, <1>8 DEF Next

-----------------------------------------------------------------------------
(* The theorems.                                                           *)

IInv == RowsInv /\ OnePerDevice /\ AtMostOneTurn /\ ThreadsFit /\ QueueFits

LEMMA InitInv == Init => IInv
<1> SUFFICES ASSUME Init PROVE IInv
  OBVIOUS
<1>1. RestartFits
  <2>1. Queued = {}
    BY DEF Init, Queued
  <2> QED
    BY <2>1, FS_EmptySet, AgentServiceAssumption DEF RestartFits
<1>2. SessionsFit /\ WorkersFit
  BY DEF Init, Idle, SessionsFit, WorkersFit
<1>3. OnePerDevice /\ AtMostOneTurn
  BY DEF Init, OnePerDevice, AtMostOneTurn
<1>4. ThreadsFit
  BY AgentServiceAssumption DEF Init, Idle, ThreadsFit, Refers
<1>5. QueueFits
  <2>1. Len(queue) = 0
    BY DEF Init
  <2> QED
    BY <2>1 DEF QueueFits, NothingQueuedTwice, QueueHasRows
<1> QED
  BY <1>1, <1>2, <1>3, <1>4, <1>5, InitTypes DEF IInv, RowsInv

LEMMA Invariance == Spec => []IInv
<1>1. IInv /\ [Next]_vars => IInv'
  BY StepTypes, StepRestartFits, StepSessionsFit, StepWorkersFit, StepOnePerDevice,
     StepAtMostOneTurn, StepThreadsFit, StepQueueFits DEF IInv, RowsInv
<1> QED
  BY <1>1, InitInv, PTL DEF Spec

\* Every variable keeps its type, and the queue its bound.
THEOREM AgentTypeCorrect == Spec => []TypeOK
  BY Invariance, PTL DEF IInv, RowsInv

\* start() always finds room for the queued rows (AgentService.start, put_nowait).
THEOREM BacklogFits == Spec => []RestartFits
  BY Invariance, PTL DEF IInv, RowsInv

\* No request is in the queue twice, whatever is cancelled while it waits there and
\* whatever start() puts back, so that no worker takes it again
\* (AgentService.submit, start).
THEOREM QueueHoldsEachOnce == Spec => []NothingQueuedTwice
  BY Invariance, PTL DEF IInv, QueueFits

\* start() puts back every queued row, and nothing else.
RestartRequeues ==
  [][Start => {queue'[i] : i \in 1 .. Len(queue')} = Queued]_vars

\* What waited is not lost: after a stop at any place the new process finds in its
\* queue what the store holds as queued (AgentService.start, queued_requests).
THEOREM WaitingSurvivesRestart == Spec => RestartRequeues
<1>1. ASSUME TypeOK, Start PROVE {queue'[i] : i \in 1 .. Len(queue')} = Queued
  <2>1. queue' \in QueuedInOrder
    BY <1>1 DEF Start
  <2> QED
    BY <1>1, <2>1, RequeuedOnce
<1>2. IInv => TypeOK
  BY DEF IInv, RowsInv
<1>3. IInv /\ [Next]_vars
        => [Start => {queue'[i] : i \in 1 .. Len(queue')} = Queued]_vars
  BY <1>1, <1>2
<1> QED
  BY <1>3, Invariance, PTL DEF Spec, RestartRequeues

\* A device never has two requests in progress (accept_request).
THEOREM OneRequestPerDevice == Spec => []OnePerDevice
  BY Invariance, PTL DEF IInv

\* A request never gets a second SDK turn, whatever is cancelled or restarted
\* (mark_running, interrupt_running).
THEOREM OneTurnPerRequest == Spec => []AtMostOneTurn
  BY Invariance, PTL DEF IInv

\* A conversation stays with its device (save_thread, reset_session).
THEOREM ThreadsStayApart == Spec => []ThreadsNotShared
<1>1. ThreadsFit => ThreadsNotShared
  <2> SUFFICES ASSUME ThreadsFit, NEW t \in Threads PROVE Cardinality(Holders(t)) <= 1
    BY DEF ThreadsNotShared
  <2>1. \A d, e \in Holders(t) : d = e
    BY DEF Holders, ThreadsFit, Refers
  <2>2. CASE Holders(t) = {}
    BY <2>2, FS_EmptySet
  <2>3. ASSUME NEW d \in Holders(t) PROVE Cardinality(Holders(t)) <= 1
    <3>1. Holders(t) = {d}
      BY <2>1
    <3>2. Cardinality({d}) = 1
      BY FS_Singleton
    <3> QED
      BY <3>1, <3>2
  <2> QED
    BY <2>2, <2>3
<1> QED
  BY <1>1, Invariance, PTL DEF IInv
=============================================================================
