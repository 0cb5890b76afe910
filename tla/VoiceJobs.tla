----------------------------- MODULE VoiceJobs -----------------------------
(***************************************************************************)
(* The v2 turn service of the gateway: VoiceJobStore (SQLite rows and the  *)
(* archived audio, which survive the process), the upload, duplicate and   *)
(* cancel handlers of jobs/api.py, and VoiceJobWorker with its bounded     *)
(* in-memory queue.  Everything runs on one asyncio loop and every store   *)
(* call is synchronous, so an action is the code between two awaits; an    *)
(* upload handler awaits its body between its claim and its completion,    *)
(* and the worker awaits the pipeline between mark_running and finish.     *)
(* The process may stop between any two actions, and inside the two places *)
(* where several durable writes belong together.                           *)
(***************************************************************************)
EXTENDS Naturals, Sequences, FiniteSets

CONSTANTS Requests,   \* (device id, request id) pairs; the turn id is minted once per pair
          Uploads,    \* upload handlers that may be open at the same time
          Audio,      \* request bodies, told apart by their SHA-256
          MaxQueue,   \* max_queue of the store and of the worker
          NoRequest,  \* "no request", for an idle handler or worker
          NoAudio     \* "no body": the SQL NULL of audio_sha256

ASSUME VoiceJobsAssumption ==
  /\ IsFiniteSet(Requests)
  /\ MaxQueue \in Nat \ {0}
  /\ NoRequest \notin Requests
  /\ NoAudio \notin Audio

VARIABLES
  \* durable: the voice_jobs table and the archive
  status,   \* the status column, "absent" when there is no row
  sha,      \* the audio_sha256 column
  created,  \* the created_at column, counted; 0 when there is no row
  pcm,      \* the body in <turn>/input.pcm
  \* of the process
  phase,    \* "down", the two steps of the start, "up"
  recv,     \* the request each open upload handler receives
  isNew,    \* its is_new: TRUE when the claim made it the owner of the row
  queue,    \* worker.queue
  job,      \* the turn the consumer works on
  task,     \* the pipeline task of that turn
  \* history
  acks,     \* the bodies answered with 202
  runs      \* how many pipeline tasks were created for the turn

durable == <<status, sha, created, pcm>>
process == <<phase, recv, isNew, queue, job, task>>
vars == <<durable, process, acks, runs>>

Active == {"running", "transcribing", "thinking", "synthesizing"}
Terminal == {"ready", "failed", "interrupted", "cancelled"}
Accepted == {"queued"} \cup Active \cup Terminal
Statuses == {"absent", "uploading", "upload_failed"} \cup Accepted

Phases == {"down", "uploads_recovered", "jobs_recovered", "up"}

\* The states of a task that was not cancelled and has not ended are named
\* for the last progress it reported.
Pending == {"started", "transcribing", "thinking", "synthesizing"}
Ended == {"returned", "invalid", "raised", "interrupted"}
Tasks == {"none", "cancelling"} \cup Pending \cup Ended

TypeOK ==
  /\ status \in [Requests -> Statuses]
  /\ sha \in [Requests -> Audio \cup {NoAudio}]
  /\ created \in [Requests -> Nat]
  /\ pcm \in [Requests -> Audio \cup {NoAudio}]
  /\ phase \in Phases
  /\ recv \in [Uploads -> Requests \cup {NoRequest}]
  /\ isNew \in [Uploads -> BOOLEAN]
  /\ queue \in Seq(Requests)
  /\ Len(queue) <= MaxQueue
  /\ job \in Requests \cup {NoRequest}
  /\ task \in Tasks
  /\ acks \in [Requests -> SUBSET Audio]
  /\ runs \in [Requests -> Nat]

Init ==
  /\ status = [r \in Requests |-> "absent"]
  /\ sha = [r \in Requests |-> NoAudio]
  /\ created = [r \in Requests |-> 0]
  /\ pcm = [r \in Requests |-> NoAudio]
  /\ phase = "down"
  /\ recv = [h \in Uploads |-> NoRequest]
  /\ isNew = [h \in Uploads |-> FALSE]
  /\ queue = <<>>
  /\ job = NoRequest
  /\ task = "none"
  /\ acks = [r \in Requests |-> {}]
  /\ runs = [r \in Requests |-> 0]

-----------------------------------------------------------------------------
(* Faulty variants of definitions below, one for each property: what the   *)
(* code would say with a plausible mistake.  Nothing here uses them.       *)

EnqueuedUnbounded(r) == Append(queue, r)
VerifiedAnyBody(r, a) == sha[r] # NoAudio
JobsRequeued ==
  [r \in Requests |-> IF status[r] \in Active THEN "queued" ELSE status[r]]
CompletesOneMore(r) ==
  status[r] = "uploading" /\ Cardinality({q \in Requests : status[q] = "queued"}) <= MaxQueue
BecomesUnguarded(r, s) == [status EXCEPT ![r] = s]
MarksRunningAny(r) == status[r] # "absent"
RetiredByCancel == IF task = "interrupted" THEN job ELSE NoRequest

-----------------------------------------------------------------------------
(* The statements of VoiceJobStore, as the status column they leave.       *)

Queued == {r \in Requests : status[r] = "queued"}

\* claim_upload makes the caller the owner of a row that has no body yet.
Claimable(r) ==
  \/ status[r] = "absent"
  \/ status[r] = "upload_failed" /\ sha[r] = NoAudio

\* complete_upload: the row is still this upload's and the backlog has room.
Completes(r) == status[r] = "uploading" /\ Cardinality(Queued) < MaxQueue

\* verify_duplicate
Verified(r, a) == sha[r] = a

\* mark_upload_failed
UploadFailed(r) ==
  [status EXCEPT ![r] = IF @ = "uploading" THEN "upload_failed" ELSE @]

\* mark_running: only a queued row is taken.
MarksRunning(r) == status[r] = "queued"

\* set_progress and finish change only a row the worker is active on.
ActiveBecomes(r, s) == [status EXCEPT ![r] = IF @ \in Active THEN s ELSE @]

\* cancel
CancelledBy(r) ==
  [status EXCEPT ![r] = IF @ \in {"queued"} \cup Active THEN "cancelled" ELSE @]

\* recover_uploads
UploadsRecovered ==
  [r \in Requests |-> IF status[r] = "uploading" THEN "upload_failed" ELSE status[r]]

\* recover_after_restart
JobsRecovered ==
  [r \in Requests |-> IF status[r] \in Active THEN "interrupted" ELSE status[r]]

\* The time a row is inserted at: later than that of every row there is.
Now == 1 + Cardinality({r \in Requests : status[r] # "absent"})

\* queued(): ORDER BY created_at
QueuedInOrder ==
  {s \in [1 .. Cardinality(Queued) -> Queued] :
     \A i, j \in DOMAIN s : i < j => created[s[i]] < created[s[j]]}

\* worker.enqueue: put_nowait, whose QueueFull upload_turn swallows.
Enqueued(r) == IF Len(queue) < MaxQueue THEN Append(queue, r) ELSE queue

-----------------------------------------------------------------------------
(* The upload handler.                                                     *)

Close(h) == recv' = [recv EXCEPT ![h] = NoRequest] /\ UNCHANGED isNew

\* upload_turn up to its first await.  A second upload of a row that is being
\* uploaded is refused with 409 and changes nothing.
BeginUpload(h, r) ==
  /\ phase = "up"
  /\ recv[h] = NoRequest
  /\ status[r] # "uploading"
  /\ recv' = [recv EXCEPT ![h] = r]
  /\ isNew' = [isNew EXCEPT ![h] = Claimable(r)]
  /\ status' = [status EXCEPT ![r] = IF Claimable(r) THEN "uploading" ELSE @]
  /\ created' = [created EXCEPT ![r] = IF status[r] = "absent" THEN Now ELSE @]
  /\ UNCHANGED <<sha, pcm, phase, queue, job, task, acks, runs>>

\* The body has arrived at its owner: complete_upload, enqueue, 202.
CompleteUpload(h, a) ==
  LET r == recv[h] IN
  /\ phase = "up" /\ r # NoRequest /\ isNew[h]
  /\ Completes(r)
  /\ status' = [status EXCEPT ![r] = "queued"]
  /\ sha' = [sha EXCEPT ![r] = a]
  /\ pcm' = [pcm EXCEPT ![r] = a]
  /\ queue' = Enqueued(r)
  /\ acks' = [acks EXCEPT ![r] = @ \cup {a}]
  /\ Close(h)
  /\ UNCHANGED <<created, phase, job, task, runs>>

\* The owner gets no complete body (disconnect, too large, empty or odd), or
\* complete_upload refuses it (agent_busy): the row is marked failed.
FailUpload(h) ==
  LET r == recv[h] IN
  /\ phase = "up" /\ r # NoRequest /\ isNew[h]
  /\ status' = UploadFailed(r)
  /\ Close(h)
  /\ UNCHANGED <<sha, created, pcm, phase, queue, job, task, acks, runs>>

\* A repeated body: verify_duplicate compares the hashes and answers 202 or
\* 409 idempotency_conflict; a broken repeat changes nothing either.
FinishDuplicate(h, a) ==
  LET r == recv[h] IN
  /\ phase = "up" /\ r # NoRequest /\ ~isNew[h]
  /\ acks' = [acks EXCEPT ![r] = IF Verified(r, a) THEN @ \cup {a} ELSE @]
  /\ Close(h)
  /\ UNCHANGED <<status, sha, created, pcm, phase, queue, job, task, runs>>

-----------------------------------------------------------------------------
(* The worker and the cancel handler.                                      *)

\* _run takes the next id; the id of a row that is no longer queued is dropped.
TakeJob ==
  /\ phase = "up" /\ job = NoRequest /\ queue # <<>>
  /\ queue' = Tail(queue)
  /\ LET r == Head(queue) IN
       IF MarksRunning(r)
       THEN /\ status' = [status EXCEPT ![r] = "running"]
            /\ job' = r
            /\ task' = "started"
            /\ runs' = [runs EXCEPT ![r] = @ + 1]
       ELSE UNCHANGED <<status, job, task, runs>>
  /\ UNCHANGED <<sha, created, pcm, phase, recv, isNew, acks>>

\* The pipeline reports its stages in order through set_progress.
Stages == <<"started", "transcribing", "thinking", "synthesizing">>

Progress ==
  \E i \in 1 .. Len(Stages) - 1 :
    /\ phase = "up" /\ task = Stages[i]
    /\ task' = Stages[i + 1]
    /\ status' = ActiveBecomes(job, Stages[i + 1])
    /\ UNCHANGED <<sha, created, pcm, phase, recv, isNew, queue, job, acks, runs>>

\* The task ends: with a reply file, with a file that is no usable WAV, with
\* an error (its own deadline included), or with the cancellation it was sent.
EndTask(how) ==
  /\ phase = "up"
  /\ \/ task = "synthesizing" /\ how \in {"returned", "invalid"}
     \/ task \in Pending /\ how = "raised"
     \/ task = "cancelling" /\ how = "interrupted"
  /\ task' = how
  /\ UNCHANGED <<durable, phase, recv, isNew, queue, job, acks, runs>>

\* The status _run passes to finish for each way a task can end.
Outcome == [returned |-> "ready", invalid |-> "failed",
            raised |-> "failed", interrupted |-> "interrupted"]

\* A cancelled turn must not retire the consumer: it goes on to the next id.
Released == NoRequest

\* _run resumes after its await of the task.
FinishJob ==
  /\ phase = "up" /\ task \in Ended
  /\ status' = ActiveBecomes(job, Outcome[task])
  /\ job' = Released
  /\ task' = "none"
  /\ UNCHANGED <<sha, created, pcm, phase, recv, isNew, queue, acks, runs>>

\* worker.cancel
TaskCancelledFor(r) == IF job = r /\ task \in Pending THEN "cancelling" ELSE task

\* cancel_turn: the row first, then worker.cancel on the task if it is this one.
CancelTurn(r) ==
  /\ phase = "up"
  /\ status[r] \in {"queued"} \cup Active
  /\ status' = CancelledBy(r)
  /\ task' = TaskCancelledFor(r)
  /\ UNCHANGED <<sha, created, pcm, phase, recv, isNew, queue, job, acks, runs>>

-----------------------------------------------------------------------------
(* Stop and start of the process.                                          *)

Volatile ==
  /\ phase' = "down"
  /\ recv' = [h \in Uploads |-> NoRequest]
  /\ isNew' = [h \in Uploads |-> FALSE]
  /\ queue' = <<>>
  /\ job' = NoRequest
  /\ task' = "none"

\* The process dies, at any point of its life or of its start.
Crash ==
  /\ phase # "down"
  /\ Volatile
  /\ UNCHANGED <<durable, acks, runs>>

\* ... or inside complete_upload, after os.replace and before the commit.
CrashInComplete(h, a) ==
  /\ phase = "up" /\ recv[h] # NoRequest /\ isNew[h]
  /\ Completes(recv[h])
  /\ pcm' = [pcm EXCEPT ![recv[h]] = a]
  /\ Volatile
  /\ UNCHANGED <<status, sha, created, acks, runs>>

\* VoiceJobWorker.close: the consumer and its task are cancelled, its row is
\* finished as interrupted, and recover_after_restart sweeps the rest.
Shutdown ==
  /\ phase = "up"
  /\ status' = JobsRecovered
  /\ Volatile
  /\ UNCHANGED <<sha, created, pcm, acks, runs>>

\* VoiceJobWorker.start: two commits, then the queued rows are put back.
RecoverUploads ==
  /\ phase = "down"
  /\ status' = UploadsRecovered
  /\ phase' = "uploads_recovered"
  /\ UNCHANGED <<sha, created, pcm, recv, isNew, queue, job, task, acks, runs>>

RecoverJobs ==
  /\ phase = "uploads_recovered"
  /\ status' = JobsRecovered
  /\ phase' = "jobs_recovered"
  /\ UNCHANGED <<sha, created, pcm, recv, isNew, queue, job, task, acks, runs>>

Requeue ==
  /\ phase = "jobs_recovered"
  /\ queue' \in QueuedInOrder
  /\ phase' = "up"
  /\ UNCHANGED <<durable, recv, isNew, job, task, acks, runs>>

-----------------------------------------------------------------------------

Next ==
  \/ \E h \in Uploads, r \in Requests : BeginUpload(h, r)
  \/ \E h \in Uploads, a \in Audio : CompleteUpload(h, a)
  \/ \E h \in Uploads : FailUpload(h)
  \/ \E h \in Uploads, a \in Audio : FinishDuplicate(h, a)
  \/ TakeJob
  \/ Progress
  \/ \E how \in Ended : EndTask(how)
  \/ FinishJob
  \/ \E r \in Requests : CancelTurn(r)
  \/ Crash
  \/ \E h \in Uploads, a \in Audio : CrashInComplete(h, a)
  \/ Shutdown
  \/ RecoverUploads
  \/ RecoverJobs
  \/ Requeue

Spec == Init /\ [][Next]_vars

\* The event loop runs what is ready: the consumer and its resumption, and
\* the start after a stop (the container restarts).  A task always ends, by
\* the pipeline's own deadline.  Nothing is assumed of the clients.
Fairness ==
  /\ WF_vars(TakeJob)
  /\ WF_vars(\E how \in Ended : EndTask(how))
  /\ WF_vars(FinishJob)
  /\ WF_vars(RecoverUploads)
  /\ WF_vars(RecoverJobs)
  /\ WF_vars(Requeue)

FairSpec == Spec /\ Fairness

-----------------------------------------------------------------------------
(* Safety.                                                                 *)

\* While the process is up, a row is being uploaded exactly when one live
\* handler owns it: no second claim, and no row left behind by a handler
\* that is gone, which would answer 409 to the device for ever.
UploadOwned ==
  phase = "up" =>
    /\ \A r \in Requests : status[r] = "uploading" =>
         \E h \in Uploads : recv[h] = r /\ isNew[h]
    /\ \A h \in Uploads : recv[h] # NoRequest /\ isNew[h] =>
         status[recv[h]] = "uploading"
    /\ \A g, h \in Uploads :
         recv[g] # NoRequest /\ recv[g] = recv[h] /\ isNew[g] /\ isNew[h] => g = h

\* Whatever is acknowledged with 202 is the accepted body, its audio is in
\* the archive, and no restart forgets it.
AckedIsDurable ==
  \A r \in Requests :
    /\ acks[r] \subseteq {sha[r]}
    /\ acks[r] # {} => status[r] \in Accepted
    /\ status[r] \in Accepted => sha[r] # NoAudio /\ pcm[r] = sha[r]

\* The agent runs at most once for a turn, through duplicate uploads, cancels,
\* stale queue entries and restarts, and never before the turn is accepted; a
\* turn that is still queued after a restart has not been run.
AtMostOneRun ==
  \A r \in Requests :
    /\ runs[r] <= 1
    /\ status[r] \notin Active \cup Terminal => runs[r] = 0

\* The durable backlog never outgrows the queue that start() refills with
\* put_nowait: a restart cannot die of QueueFull.
RestartFits == Cardinality(Queued) <= MaxQueue

\* While the process is up, an active row is the consumer's current job.
ActiveIsCurrent ==
  phase = "up" =>
    \A r \in Requests : status[r] \in Active => r = job /\ task \in Pending \cup Ended

\* A cancelled turn's task is told to stop: none is left working for a turn
\* the device gave up.
CancelStopsTask ==
  job # NoRequest /\ status[job] = "cancelled" => task \notin Pending

Scheduled(r) == \E i \in DOMAIN queue : queue[i] = r

\* A settled turn never changes again, and an accepted body is never replaced.
SettledIsFinal ==
  [][\A r \in Requests :
       /\ status[r] \in Terminal => status'[r] = status[r]
       /\ sha[r] # NoAudio => sha'[r] = sha[r] /\ pcm'[r] = pcm[r]]_vars

-----------------------------------------------------------------------------
(* Liveness.                                                               *)

\* If the process stays up, a turn whose id is in the queue is settled.
ScheduledSettles ==
  <>[](phase = "up") =>
    \A r \in Requests : Scheduled(r) ~> status[r] \in Terminal

-----------------------------------------------------------------------------
(* Refinement.                                                             *)

TurnState ==
  [r \in Requests |->
     CASE status[r] \in {"absent", "upload_failed"} -> "open"
       [] status[r] = "uploading" -> "receiving"
       [] status[r] = "queued" -> "accepted"
       [] status[r] \in Active -> "working"
       [] OTHER -> status[r]]

Lifecycle == INSTANCE TurnLifecycle WITH turn <- TurnState, body <- sha

ImplementsLifecycle == Lifecycle!Spec
=============================================================================
