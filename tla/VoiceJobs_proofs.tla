-------------------------- MODULE VoiceJobs_proofs -------------------------
(***************************************************************************)
(* Proofs about VoiceJobs, for every set of requests, handlers and bodies  *)
(* and every queue length.                                                 *)
(***************************************************************************)
EXTENDS VoiceJobs, FiniteSetTheorems, SequenceTheorems, TLAPS

\* A row has a hash only once its body was accepted.
HashOnlyIfAccepted ==
  \A r \in Requests : status[r] \notin Accepted => sha[r] = NoAudio

\* The inductive invariant.  RestartFits bounds the queue that Requeue builds,
\* AckedIsDurable needs HashOnlyIfAccepted for a repeated upload, and
\* AtMostOneRun stands by itself once rows and queue are typed.
IInv ==
  /\ TypeOK
  /\ RestartFits
  /\ HashOnlyIfAccepted
  /\ AckedIsDurable
  /\ AtMostOneRun

-----------------------------------------------------------------------------
(* The statements of the store.                                            *)

\* The queued rows are finitely many, and fewer rows count less.
LEMMA QueuedFinite ==
  /\ IsFiniteSet(Queued)
  /\ Cardinality(Queued) \in Nat
  /\ \A S \in SUBSET Queued : Cardinality(S) <= Cardinality(Queued)
<1>1. Queued \in SUBSET Requests
  BY DEF Queued
<1>2. IsFiniteSet(Queued)
  BY <1>1, FS_Subset, VoiceJobsAssumption DEF VoiceJobsAssumption
<1> QED
  BY <1>2, FS_Subset, FS_CardinalityType

\* What start() puts back is no longer than the backlog of the store.
LEMMA RequeuedFits ==
  ASSUME NEW s \in QueuedInOrder, RestartFits
  PROVE  s \in Seq(Requests) /\ Len(s) <= MaxQueue
<1> DEFINE n == Cardinality(Queued)
<1>1. n \in Nat /\ n <= MaxQueue
  BY QueuedFinite DEF RestartFits
<1>2. s \in [1 .. n -> Queued]
  BY DEF QueuedInOrder
<1>3. s \in [1 .. n -> Requests]
  BY <1>2 DEF Queued
<1> HIDE DEF n
<1>4. s \in Seq(Requests) /\ Len(s) = n
  BY <1>1, <1>3
<1> QED
  BY <1>1, <1>4

\* No statement but complete_upload adds a queued row.
LEMMA BacklogShrinks ==
  ASSUME TypeOK, RestartFits, Queued' \subseteq Queued
  PROVE  RestartFits'
<1>1. Cardinality(Queued') <= Cardinality(Queued)
  BY QueuedFinite
<1>2. Cardinality(Queued') \in Nat
  BY QueuedFinite, FS_Subset, FS_CardinalityType
<1> QED
  BY <1>1, <1>2, QueuedFinite, VoiceJobsAssumption DEF RestartFits, VoiceJobsAssumption

-----------------------------------------------------------------------------
(* Type correctness and the backlog.                                       *)

LEMMA InitTypeOK == Init => TypeOK
BY VoiceJobsAssumption
   DEF VoiceJobsAssumption, Init, TypeOK, Statuses, Phases, Tasks

\* Stopping resets the process to values of its types.
LEMMA VolatileTypes ==
  ASSUME Volatile
  PROVE  /\ phase' \in Phases
         /\ recv' \in [Uploads -> Requests \cup {NoRequest}]
         /\ isNew' \in [Uploads -> BOOLEAN]
         /\ queue' \in Seq(Requests) /\ Len(queue') <= MaxQueue
         /\ job' \in Requests \cup {NoRequest}
         /\ task' \in Tasks
BY VoiceJobsAssumption DEF VoiceJobsAssumption, Volatile, Phases, Tasks

\* put_nowait on a full queue changes nothing.
LEMMA EnqueuedTypes ==
  ASSUME TypeOK, NEW r \in Requests
  PROVE  Enqueued(r) \in Seq(Requests) /\ Len(Enqueued(r)) <= MaxQueue
<1>1. queue \in Seq(Requests) /\ Len(queue) \in Nat /\ Len(queue) <= MaxQueue
  BY LenProperties DEF TypeOK
<1>2. Append(queue, r) \in Seq(Requests) /\ Len(Append(queue, r)) = Len(queue) + 1
  BY <1>1, AppendProperties
<1> QED
  BY <1>1, <1>2, VoiceJobsAssumption DEF VoiceJobsAssumption, Enqueued

LEMMA StatusTypes ==
  ASSUME TypeOK
  PROVE  /\ UploadsRecovered \in [Requests -> Statuses]
         /\ JobsRecovered \in [Requests -> Statuses]
         /\ \A r \in Requests :
              /\ UploadFailed(r) \in [Requests -> Statuses]
              /\ CancelledBy(r) \in [Requests -> Statuses]
              /\ \A s \in Statuses : ActiveBecomes(r, s) \in [Requests -> Statuses]
BY DEF TypeOK, UploadsRecovered, JobsRecovered, UploadFailed, CancelledBy, ActiveBecomes,
       Statuses, Accepted, Terminal, Active

LEMMA NextTypeOK == TypeOK /\ RestartFits /\ [Next]_vars => TypeOK'
<1> SUFFICES ASSUME TypeOK, RestartFits, [Next]_vars
             PROVE  TypeOK'
  OBVIOUS
<1> USE VoiceJobsAssumption DEF VoiceJobsAssumption
<1>1. ASSUME NEW h \in Uploads, NEW r \in Requests, BeginUpload(h, r)
      PROVE  TypeOK'
  <2>1. Now \in Nat
    <3>1. {q \in Requests : status[q] # "absent"} \in SUBSET Requests
      OBVIOUS
    <3> QED
      BY <3>1, FS_Subset, FS_CardinalityType DEF Now
  <2>2. created' \in [Requests -> Nat]
    BY <1>1, <2>1 DEF BeginUpload, TypeOK
  <2>3. status' \in [Requests -> Statuses]
    BY <1>1 DEF BeginUpload, TypeOK, Statuses
  <2>4. recv' \in [Uploads -> Requests \cup {NoRequest}] /\ isNew' \in [Uploads -> BOOLEAN]
    BY <1>1 DEF BeginUpload, TypeOK, Claimable
  <2> QED
    BY <1>1, <2>2, <2>3, <2>4 DEF BeginUpload, TypeOK
<1>2. ASSUME NEW h \in Uploads, NEW a \in Audio, CompleteUpload(h, a)
      PROVE  TypeOK'
  <2>1. recv[h] \in Requests
    BY <1>2 DEF CompleteUpload, TypeOK
  <2>2. status' \in [Requests -> Statuses]
    BY <1>2, <2>1 DEF CompleteUpload, TypeOK, Statuses, Accepted
  <2>3. queue' \in Seq(Requests) /\ Len(queue') <= MaxQueue
    BY <1>2, <2>1, EnqueuedTypes DEF CompleteUpload
  <2>4. acks' \in [Requests -> SUBSET Audio]
    BY <1>2, <2>1 DEF CompleteUpload, TypeOK
  <2> QED
    BY <1>2, <2>1, <2>2, <2>3, <2>4 DEF CompleteUpload, Close, TypeOK
<1>3. ASSUME NEW h \in Uploads, FailUpload(h)
      PROVE  TypeOK'
  <2>1. recv[h] \in Requests
    BY <1>3 DEF FailUpload, TypeOK
  <2> QED
    BY <1>3, <2>1, StatusTypes DEF FailUpload, Close, TypeOK
<1>4. ASSUME NEW h \in Uploads, NEW a \in Audio, FinishDuplicate(h, a)
      PROVE  TypeOK'
  <2>1. recv[h] \in Requests
    BY <1>4 DEF FinishDuplicate, TypeOK
  <2>2. acks' \in [Requests -> SUBSET Audio]
    BY <1>4, <2>1 DEF FinishDuplicate, TypeOK
  <2> QED
    BY <1>4, <2>2 DEF FinishDuplicate, Close, TypeOK
<1>5. ASSUME TakeJob
      PROVE  TypeOK'
  <2>1. /\ Head(queue) \in Requests
        /\ queue' \in Seq(Requests)
        /\ Len(queue') <= MaxQueue
    <3>1. queue \in Seq(Requests) /\ queue # <<>> /\ Len(queue) <= MaxQueue
      BY <1>5 DEF TakeJob, TypeOK
    <3>2. /\ Head(queue) \in Requests
          /\ Tail(queue) \in Seq(Requests)
          /\ Len(Tail(queue)) = Len(queue) - 1
      BY <3>1, HeadTailProperties
    <3>3. Len(queue) \in Nat
      BY <3>1, LenProperties
    <3> QED
      BY <1>5, <3>1, <3>2, <3>3 DEF TakeJob
  <2>2. CASE MarksRunning(Head(queue))
    <3>0. PICK r \in Requests : /\ status' = [status EXCEPT ![r] = "running"]
                               /\ runs' = [runs EXCEPT ![r] = @ + 1]
      BY <1>5, <2>1, <2>2 DEF TakeJob
    <3>1. status' \in [Requests -> Statuses] /\ runs' \in [Requests -> Nat]
      BY <3>0 DEF TypeOK, Statuses, Accepted, Active
    <3>2. job' \in Requests /\ task' \in Tasks
      BY <1>5, <2>1, <2>2 DEF TakeJob, Tasks, Pending
    <3> QED
      BY <1>5, <2>1, <3>1, <3>2 DEF TakeJob, TypeOK
  <2>3. CASE ~MarksRunning(Head(queue))
    BY <1>5, <2>1, <2>3 DEF TakeJob, TypeOK
  <2> QED
    BY <2>2, <2>3
<1>6. ASSUME Progress
      PROVE  TypeOK'
  <2>1. PICK i \in 1 .. Len(Stages) - 1 :
          /\ task = Stages[i]
          /\ task' = Stages[i + 1]
          /\ status' = ActiveBecomes(job, Stages[i + 1])
          /\ UNCHANGED <<sha, created, pcm, phase, recv, isNew, queue, job, acks, runs>>
    BY <1>6 DEF Progress
  <2>2. Stages[i + 1] \in {"transcribing", "thinking", "synthesizing"}
    BY DEF Stages
  <2>3. status' \in [Requests -> Statuses]
    BY <2>1, <2>2 DEF ActiveBecomes, TypeOK, Statuses, Accepted, Active
  <2>4. task' \in Tasks
    BY <2>1, <2>2 DEF Tasks, Pending
  <2> QED
    BY <2>1, <2>3, <2>4 DEF TypeOK
<1>7. ASSUME NEW how \in Ended, EndTask(how)
      PROVE  TypeOK'
  BY <1>7 DEF EndTask, TypeOK, durable, Tasks
<1>8. ASSUME FinishJob
      PROVE  TypeOK'
  <2>1. Outcome[task] \in Statuses
    BY <1>8 DEF FinishJob, Outcome, Ended, Statuses, Accepted, Terminal
  <2>2. status' \in [Requests -> Statuses]
    BY <1>8, <2>1 DEF FinishJob, ActiveBecomes, TypeOK
  <2> QED
    BY <1>8, <2>2 DEF FinishJob, Released, TypeOK, Tasks
<1>9. ASSUME NEW r \in Requests, CancelTurn(r)
      PROVE  TypeOK'
  <2>1. task' \in Tasks
    BY <1>9 DEF CancelTurn, TaskCancelledFor, TypeOK, Tasks
  <2> QED
    BY <1>9, <2>1, StatusTypes DEF CancelTurn, TypeOK
<1>10. ASSUME Crash
       PROVE  TypeOK'
  BY <1>10, VolatileTypes DEF Crash, durable, TypeOK
<1>11. ASSUME NEW h \in Uploads, NEW a \in Audio, CrashInComplete(h, a)
       PROVE  TypeOK'
  BY <1>11, VolatileTypes DEF CrashInComplete, TypeOK
<1>12. ASSUME Shutdown
       PROVE  TypeOK'
  BY <1>12, VolatileTypes, StatusTypes DEF Shutdown, TypeOK
<1>13. ASSUME RecoverUploads
       PROVE  TypeOK'
  BY <1>13, StatusTypes DEF RecoverUploads, TypeOK, Phases
<1>14. ASSUME RecoverJobs
       PROVE  TypeOK'
  BY <1>14, StatusTypes DEF RecoverJobs, TypeOK, Phases
<1>15. ASSUME Requeue
       PROVE  TypeOK'
  BY <1>15, RequeuedFits DEF Requeue, durable, TypeOK, Phases
<1>16. ASSUME UNCHANGED vars
       PROVE  TypeOK'
  BY <1>16 DEF vars, durable, process, TypeOK
<1> QED
  BY <1>1, <1>2, <1>3, <1>4, <1>5, <1>6, <1>7, <1>8, <1>9, <1>10, <1>11, <1>12, <1>13,
     <1>14, <1>15, <1>16 DEF Next

\* The queued rows only grow in CompleteUpload, and only below the bound.
LEMMA NextRestartFits == TypeOK /\ RestartFits /\ [Next]_vars => RestartFits'
<1> SUFFICES ASSUME TypeOK, RestartFits, [Next]_vars
             PROVE  RestartFits'
  OBVIOUS
<1>1. ASSUME NEW h \in Uploads, NEW a \in Audio, CompleteUpload(h, a)
      PROVE  RestartFits'
  <2> DEFINE r == recv[h]
  <2>1. Queued' = Queued \cup {r} /\ r \notin Queued
    BY <1>1 DEF CompleteUpload, Completes, Queued, TypeOK
  <2>2. Cardinality(Queued') = Cardinality(Queued) + 1
    BY <2>1, QueuedFinite, FS_AddElement
  <2> QED
    BY <1>1, <2>2, QueuedFinite, VoiceJobsAssumption
       DEF CompleteUpload, Completes, RestartFits, VoiceJobsAssumption
<1>2. ASSUME NEW h \in Uploads, NEW r \in Requests, BeginUpload(h, r)
      PROVE  RestartFits'
  <2>1. Queued' \subseteq Queued
    BY <1>2 DEF BeginUpload, Queued, TypeOK
  <2> QED
    BY <2>1, BacklogShrinks
<1>3. ASSUME NEW h \in Uploads, FailUpload(h)
      PROVE  RestartFits'
  <2>1. Queued' \subseteq Queued
    BY <1>3 DEF FailUpload, UploadFailed, Queued, TypeOK
  <2> QED
    BY <2>1, BacklogShrinks
<1>4. ASSUME TakeJob
      PROVE  RestartFits'
  <2>1. Queued' \subseteq Queued
    BY <1>4 DEF TakeJob, MarksRunning, Queued, TypeOK
  <2> QED
    BY <2>1, BacklogShrinks
<1>5. ASSUME Progress
      PROVE  RestartFits'
  <2>1. PICK i \in 1 .. Len(Stages) - 1 : status' = ActiveBecomes(job, Stages[i + 1])
    BY <1>5 DEF Progress
  <2>2. Stages[i + 1] # "queued"
    BY DEF Stages
  <2>3. Queued' \subseteq Queued
    BY <2>1, <2>2 DEF ActiveBecomes, Queued, TypeOK
  <2> QED
    BY <2>3, BacklogShrinks
<1>6. ASSUME FinishJob
      PROVE  RestartFits'
  <2>1. Outcome[task] # "queued"
    BY <1>6 DEF FinishJob, Outcome, Ended
  <2>2. Queued' \subseteq Queued
    BY <1>6, <2>1 DEF FinishJob, ActiveBecomes, Queued, TypeOK
  <2> QED
    BY <2>2, BacklogShrinks
<1>7. ASSUME NEW r \in Requests, CancelTurn(r)
      PROVE  RestartFits'
  <2>1. Queued' \subseteq Queued
    BY <1>7 DEF CancelTurn, CancelledBy, Queued, TypeOK
  <2> QED
    BY <2>1, BacklogShrinks
<1>8. ASSUME Shutdown \/ RecoverJobs
      PROVE  RestartFits'
  <2>1. Queued' \subseteq Queued
    BY <1>8 DEF Shutdown, RecoverJobs, JobsRecovered, Queued, TypeOK
  <2> QED
    BY <2>1, BacklogShrinks
<1>9. ASSUME RecoverUploads
      PROVE  RestartFits'
  <2>1. Queued' \subseteq Queued
    BY <1>9 DEF RecoverUploads, UploadsRecovered, Queued, TypeOK
  <2> QED
    BY <2>1, BacklogShrinks
<1>10. ASSUME UNCHANGED status
       PROVE  RestartFits'
  BY <1>10 DEF RestartFits, Queued
<1>11. ASSUME \/ \E h \in Uploads, a \in Audio : FinishDuplicate(h, a) \/ CrashInComplete(h, a)
              \/ \E how \in Ended : EndTask(how)
              \/ Crash \/ Requeue \/ UNCHANGED vars
       PROVE  UNCHANGED status
  BY <1>11 DEF FinishDuplicate, CrashInComplete, EndTask, Crash, Requeue, vars, durable
<1> QED
  BY <1>1, <1>2, <1>3, <1>4, <1>5, <1>6, <1>7, <1>8, <1>9, <1>10, <1>11 DEF Next

LEMMA InitRestartFits == Init => RestartFits
<1>1. Init => Queued = {}
  BY DEF Init, Queued
<1> QED
  BY <1>1, FS_EmptySet, VoiceJobsAssumption DEF RestartFits, VoiceJobsAssumption

-----------------------------------------------------------------------------
(* The life of a row.                                                      *)

\* What one step may do to a status, the completion of its upload apart.
RowMove(from, to) ==
  \/ to = from
  \/ from \notin Accepted /\ to \notin Accepted
  \/ from = "queued" /\ to \in {"running", "cancelled"}
  \/ from \in Active /\ to \in Active \cup Terminal

Completed(r) == \E h \in Uploads, a \in Audio : CompleteUpload(h, a) /\ recv[h] = r

LEMMA RowMoves ==
  ASSUME TypeOK, [Next]_vars, NEW r \in Requests, ~Completed(r)
  PROVE  RowMove(status[r], status'[r])
<1> USE DEF RowMove, Accepted, Active, Terminal
<1>1. ASSUME NEW h \in Uploads, NEW q \in Requests, BeginUpload(h, q)
      PROVE  RowMove(status[r], status'[r])
  BY <1>1 DEF BeginUpload, Claimable, TypeOK
<1>2. ASSUME NEW h \in Uploads, NEW a \in Audio, CompleteUpload(h, a)
      PROVE  RowMove(status[r], status'[r])
  <2>1. recv[h] # r
    BY <1>2 DEF Completed
  <2> QED
    BY <1>2, <2>1 DEF CompleteUpload, TypeOK
<1>3. ASSUME NEW h \in Uploads, FailUpload(h)
      PROVE  RowMove(status[r], status'[r])
  BY <1>3 DEF FailUpload, UploadFailed, TypeOK
<1>4. ASSUME TakeJob
      PROVE  RowMove(status[r], status'[r])
  <2>1. CASE MarksRunning(Head(queue))
    <3>1. PICK q : status[q] = "queued" /\ status' = [status EXCEPT ![q] = "running"]
      BY <1>4, <2>1 DEF TakeJob, MarksRunning
    <3> QED
      BY <3>1 DEF TypeOK
  <2>2. CASE ~MarksRunning(Head(queue))
    BY <1>4, <2>2 DEF TakeJob
  <2> QED
    BY <2>1, <2>2
<1>5. ASSUME Progress
      PROVE  RowMove(status[r], status'[r])
  <2>1. PICK i \in 1 .. Len(Stages) - 1 : status' = ActiveBecomes(job, Stages[i + 1])
    BY <1>5 DEF Progress
  <2>2. Stages[i + 1] \in Active
    BY DEF Stages
  <2> QED
    BY <2>1, <2>2 DEF ActiveBecomes, TypeOK
<1>6. ASSUME FinishJob
      PROVE  RowMove(status[r], status'[r])
  <2>1. Outcome[task] \in Terminal
    BY <1>6 DEF FinishJob, Outcome, Ended
  <2> QED
    BY <1>6, <2>1 DEF FinishJob, ActiveBecomes, TypeOK
<1>7. ASSUME NEW q \in Requests, CancelTurn(q)
      PROVE  RowMove(status[r], status'[r])
  BY <1>7 DEF CancelTurn, CancelledBy, TypeOK
<1>8. ASSUME Shutdown \/ RecoverJobs
      PROVE  RowMove(status[r], status'[r])
  BY <1>8 DEF Shutdown, RecoverJobs, JobsRecovered
<1>9. ASSUME RecoverUploads
      PROVE  RowMove(status[r], status'[r])
  BY <1>9 DEF RecoverUploads, UploadsRecovered
<1>10. ASSUME \/ \E h \in Uploads, a \in Audio : FinishDuplicate(h, a) \/ CrashInComplete(h, a)
              \/ \E how \in Ended : EndTask(how)
              \/ Crash \/ Requeue \/ UNCHANGED vars
       PROVE  RowMove(status[r], status'[r])
  BY <1>10 DEF FinishDuplicate, CrashInComplete, EndTask, Crash, Requeue, vars, durable
<1> QED
  BY <1>1, <1>2, <1>3, <1>4, <1>5, <1>6, <1>7, <1>8, <1>9, <1>10 DEF Next

\* The few steps that touch a hash, a body, an answer or the count of runs.
LEMMA DataMoves ==
  ASSUME [Next]_vars
  PROVE  \/ \E h \in Uploads, a \in Audio : CompleteUpload(h, a)
         \/ \E h \in Uploads, a \in Audio : CrashInComplete(h, a)
         \/ \E h \in Uploads, a \in Audio : FinishDuplicate(h, a)
         \/ TakeJob
         \/ UNCHANGED <<sha, pcm, acks, runs>>
BY DEF Next, vars, durable, BeginUpload, FailUpload, Progress, EndTask, FinishJob,
       CancelTurn, Crash, Shutdown, RecoverUploads, RecoverJobs, Requeue

\* What the completion of an upload leaves.
LEMMA CompletedRow ==
  ASSUME TypeOK, NEW r \in Requests, NEW h \in Uploads, NEW a \in Audio,
         CompleteUpload(h, a), recv[h] = r
  PROVE  /\ status[r] = "uploading" /\ status'[r] = "queued"
         /\ sha'[r] = a /\ pcm'[r] = a /\ a # NoAudio
         /\ acks'[r] = acks[r] \cup {a}
         /\ runs' = runs
BY VoiceJobsAssumption DEF VoiceJobsAssumption, CompleteUpload, Completes, TypeOK

\* Every other step leaves the data of a row as it was, or does what is said.
LEMMA OtherRows ==
  ASSUME TypeOK, [Next]_vars, NEW r \in Requests, ~Completed(r)
  PROVE  /\ sha'[r] = sha[r]
         /\ status[r] \in Accepted => pcm'[r] = pcm[r]
         /\ \/ acks'[r] = acks[r]
            \/ acks'[r] = acks[r] \cup {sha[r]} /\ sha[r] # NoAudio
<1>1. ASSUME NEW h \in Uploads, NEW a \in Audio, CompleteUpload(h, a)
      PROVE  sha'[r] = sha[r] /\ pcm'[r] = pcm[r] /\ acks'[r] = acks[r]
  <2>1. recv[h] # r
    BY <1>1 DEF Completed
  <2> QED
    BY <1>1, <2>1 DEF CompleteUpload, TypeOK
<1>2. ASSUME NEW h \in Uploads, NEW a \in Audio, CrashInComplete(h, a)
      PROVE  /\ sha'[r] = sha[r] /\ acks'[r] = acks[r]
             /\ status[r] \in Accepted => pcm'[r] = pcm[r]
  BY <1>2 DEF CrashInComplete, Completes, TypeOK, Accepted, Active, Terminal
<1>3. ASSUME NEW h \in Uploads, NEW a \in Audio, FinishDuplicate(h, a)
      PROVE  /\ sha'[r] = sha[r] /\ pcm'[r] = pcm[r]
             /\ \/ acks'[r] = acks[r]
                \/ acks'[r] = acks[r] \cup {sha[r]} /\ sha[r] # NoAudio
  BY <1>3, VoiceJobsAssumption
     DEF VoiceJobsAssumption, FinishDuplicate, Verified, TypeOK
<1>4. ASSUME TakeJob \/ UNCHANGED <<sha, pcm, acks, runs>>
      PROVE  sha'[r] = sha[r] /\ pcm'[r] = pcm[r] /\ acks'[r] = acks[r]
  BY <1>4 DEF TakeJob
<1> QED
  BY <1>1, <1>2, <1>3, <1>4, DataMoves

LEMMA NextHashOnlyIfAccepted ==
  TypeOK /\ HashOnlyIfAccepted /\ [Next]_vars => HashOnlyIfAccepted'
<1> SUFFICES ASSUME TypeOK, HashOnlyIfAccepted, [Next]_vars,
                    NEW r \in Requests, status'[r] \notin Accepted
             PROVE  sha'[r] = NoAudio
  BY DEF HashOnlyIfAccepted
<1>1. ~Completed(r)
  BY CompletedRow DEF Completed, Accepted
<1>2. status[r] \notin Accepted
  BY <1>1, RowMoves DEF RowMove, Accepted, Active, Terminal
<1> QED
  BY <1>1, <1>2, OtherRows DEF HashOnlyIfAccepted

LEMMA NextAckedIsDurable ==
  TypeOK /\ HashOnlyIfAccepted /\ AckedIsDurable /\ [Next]_vars => AckedIsDurable'
<1> SUFFICES ASSUME TypeOK, HashOnlyIfAccepted, AckedIsDurable, [Next]_vars,
                    NEW r \in Requests
             PROVE  /\ acks'[r] \subseteq {sha'[r]}
                    /\ acks'[r] # {} => status'[r] \in Accepted
                    /\ status'[r] \in Accepted => sha'[r] # NoAudio /\ pcm'[r] = sha'[r]
  BY DEF AckedIsDurable
<1>1. /\ acks[r] \subseteq {sha[r]}
      /\ acks[r] # {} => status[r] \in Accepted
      /\ status[r] \in Accepted => sha[r] # NoAudio /\ pcm[r] = sha[r]
      /\ status[r] \notin Accepted => sha[r] = NoAudio
  BY DEF AckedIsDurable, HashOnlyIfAccepted
<1>2. CASE Completed(r)
  <2>1. PICK h \in Uploads, a \in Audio : CompleteUpload(h, a) /\ recv[h] = r
    BY <1>2 DEF Completed
  <2>2. status[r] = "uploading" /\ status'[r] = "queued"
    BY <2>1, CompletedRow
  <2>3. acks[r] = {}
    BY <1>1, <2>2 DEF Accepted, Active, Terminal
  <2>4. acks'[r] = {a} /\ sha'[r] = a /\ pcm'[r] = a /\ a # NoAudio
    BY <2>1, <2>3, CompletedRow
  <2> QED
    BY <2>2, <2>4 DEF Accepted
<1>3. CASE ~Completed(r)
  <2>1. status[r] \in Accepted <=> status'[r] \in Accepted
    BY <1>3, RowMoves DEF RowMove, Accepted, Active, Terminal
  <2>2. /\ sha'[r] = sha[r]
        /\ status[r] \in Accepted => pcm'[r] = pcm[r]
        /\ \/ acks'[r] = acks[r]
           \/ acks'[r] = acks[r] \cup {sha[r]} /\ sha[r] # NoAudio
    BY <1>3, OtherRows
  <2> QED
    BY <1>1, <2>1, <2>2
<1> QED
  BY <1>2, <1>3

\* Only TakeJob counts a run, and the row it takes was queued.
LEMMA NextAtMostOneRun ==
  TypeOK /\ AtMostOneRun /\ [Next]_vars => AtMostOneRun'
<1> SUFFICES ASSUME TypeOK, AtMostOneRun, [Next]_vars, NEW r \in Requests
             PROVE  /\ runs'[r] <= 1
                    /\ status'[r] \notin Active \cup Terminal => runs'[r] = 0
  BY DEF AtMostOneRun
<1>1. /\ runs[r] \in Nat /\ runs[r] <= 1
      /\ status[r] \notin Active \cup Terminal => runs[r] = 0
  BY DEF AtMostOneRun, TypeOK
<1>2. status'[r] \notin Active \cup Terminal => status[r] \notin Active \cup Terminal
  <2>1. CASE Completed(r)
    BY <2>1, CompletedRow DEF Completed, Active, Terminal
  <2>2. CASE ~Completed(r)
    BY <2>2, RowMoves DEF RowMove, Accepted, Active, Terminal
  <2> QED
    BY <2>1, <2>2
<1>3. CASE runs'[r] = runs[r]
  BY <1>1, <1>2, <1>3
<1>4. CASE runs'[r] # runs[r]
  <2>1. TakeJob
    BY <1>4, DataMoves DEF CompleteUpload, CrashInComplete, FinishDuplicate
  <2>2. PICK q : /\ status[q] = "queued"
                 /\ status' = [status EXCEPT ![q] = "running"]
                 /\ runs' = [runs EXCEPT ![q] = @ + 1]
    BY <1>4, <2>1 DEF TakeJob, MarksRunning
  <2>3. q = r
    BY <1>4, <2>2 DEF TypeOK
  <2>4. runs[r] = 0 /\ runs'[r] = 1 /\ status'[r] = "running"
    BY <1>1, <2>2, <2>3 DEF TypeOK, Active, Terminal
  <2> QED
    BY <2>4 DEF Active
<1> QED
  BY <1>3, <1>4

-----------------------------------------------------------------------------
(* The theorems.                                                           *)

LEMMA Invariance == Spec => []IInv
<1>1. Init => HashOnlyIfAccepted /\ AckedIsDurable /\ AtMostOneRun
  BY DEF Init, HashOnlyIfAccepted, AckedIsDurable, AtMostOneRun, Accepted, Active, Terminal
<1>2. Init => IInv
  BY <1>1, InitTypeOK, InitRestartFits DEF IInv
<1>3. IInv /\ [Next]_vars => IInv'
  BY NextTypeOK, NextRestartFits, NextHashOnlyIfAccepted, NextAckedIsDurable,
     NextAtMostOneRun DEF IInv
<1> QED
  BY <1>2, <1>3, PTL DEF Spec

\* Every variable keeps its type and the queue its bound, however uploads,
\* cancels, crashes and restarts interleave.
THEOREM TypeCorrect == Spec => []TypeOK
BY Invariance, PTL DEF IInv

\* The durable backlog always fits the queue that VoiceJobWorker.start refills
\* with put_nowait.
THEOREM BacklogFits == Spec => []RestartFits
BY Invariance, PTL DEF IInv

\* A 202 is kept: upload_turn acknowledges only the body whose hash is in the
\* row and whose audio is in the archive, and nothing takes either away.
THEOREM AcknowledgedStays == Spec => []AckedIsDurable
BY Invariance, PTL DEF IInv

\* The agent is set to work at most once for a turn, across duplicate uploads,
\* cancels, stale queue entries and restarts.
THEOREM RunsOnce == Spec => []AtMostOneRun
BY Invariance, PTL DEF IInv

\* A settled turn stays as it is, and so does an accepted body.
THEOREM SettledStays == Spec => SettledIsFinal
<1>1. IInv /\ [Next]_vars =>
        [\A r \in Requests :
           /\ status[r] \in Terminal => status'[r] = status[r]
           /\ sha[r] # NoAudio => sha'[r] = sha[r] /\ pcm'[r] = pcm[r]]_vars
  <2> SUFFICES ASSUME IInv, [Next]_vars, NEW r \in Requests
               PROVE  /\ status[r] \in Terminal => status'[r] = status[r]
                      /\ sha[r] # NoAudio => sha'[r] = sha[r] /\ pcm'[r] = pcm[r]
    OBVIOUS
  <2>1. TypeOK /\ HashOnlyIfAccepted
    BY DEF IInv
  <2>2. CASE Completed(r)
    <3>1. status[r] = "uploading"
      BY <2>1, <2>2, CompletedRow DEF Completed
    <3>2. sha[r] = NoAudio
      BY <2>1, <3>1 DEF HashOnlyIfAccepted, Accepted, Active, Terminal
    <3> QED
      BY <3>1, <3>2 DEF Terminal
  <2>3. CASE ~Completed(r)
    <3>1. RowMove(status[r], status'[r])
      BY <2>1, <2>3, RowMoves
    <3>2. sha[r] # NoAudio => status[r] \in Accepted
      BY <2>1 DEF HashOnlyIfAccepted
    <3>3. sha'[r] = sha[r] /\ (status[r] \in Accepted => pcm'[r] = pcm[r])
      BY <2>1, <2>3, OtherRows
    <3> QED
      BY <3>1, <3>2, <3>3 DEF RowMove, Accepted, Active, Terminal
  <2> QED
    BY <2>2, <2>3
<1> QED
  BY <1>1, Invariance, PTL DEF Spec, SettledIsFinal

-----------------------------------------------------------------------------
(* The store and its worker implement TurnLifecycle.  The step that needs  *)
(* an argument is Work, which the lifecycle allows only while no other     *)
(* turn is being worked on: a row is active only as the consumer's job,    *)
(* and a restart retires the one it finds before any id is taken.          *)

\* At most one row is active, and between a restart's second commit and its end
\* none is.
OneActive ==
  /\ \A r, q \in Requests : {status[r], status[q]} \subseteq Active => r = q
  /\ phase = "jobs_recovered" => \A r \in Requests : status[r] \notin Active

\* Until the process is up no handler has a row, and after a restart's first
\* commit no row waits for one.
NoneOwned ==
  /\ phase # "up" => \A h \in Uploads : recv[h] = NoRequest
  /\ phase \in {"uploads_recovered", "jobs_recovered"} =>
       \A r \in Requests : status[r] # "uploading"

USE DEF vars, durable, process

-----------------------------------------------------------------------------
(* The active row.                                                         *)

\* Only TakeJob makes a row active.
LEMMA NoNewActive ==
  ASSUME TypeOK, [Next]_vars, ~TakeJob, NEW r \in Requests, status'[r] \in Active
  PROVE  status[r] \in Active
<1> USE DEF Active
<1>1. CASE \E h \in Uploads, q \in Requests : BeginUpload(h, q)
  BY <1>1 DEF BeginUpload, TypeOK
<1>2. CASE \E h \in Uploads, a \in Audio : CompleteUpload(h, a)
  BY <1>2 DEF CompleteUpload, TypeOK
<1>3. CASE \E h \in Uploads : FailUpload(h)
  BY <1>3 DEF FailUpload, UploadFailed, TypeOK
<1>4. CASE Progress \/ FinishJob
  <2>1. PICK s : status' = ActiveBecomes(job, s)
    BY <1>4 DEF Progress, FinishJob
  <2> QED
    BY <2>1 DEF ActiveBecomes, TypeOK
<1>5. CASE \E q \in Requests : CancelTurn(q)
  BY <1>5 DEF CancelTurn, CancelledBy, TypeOK
<1>6. CASE Shutdown \/ RecoverJobs
  BY <1>6 DEF Shutdown, RecoverJobs, JobsRecovered
<1>7. CASE RecoverUploads
  BY <1>7 DEF RecoverUploads, UploadsRecovered
<1>8. ASSUME \/ \E h \in Uploads, a \in Audio : FinishDuplicate(h, a) \/ CrashInComplete(h, a)
             \/ \E how \in Ended : EndTask(how)
             \/ Crash \/ Requeue \/ UNCHANGED vars
      PROVE  status' = status
  BY <1>8 DEF FinishDuplicate, CrashInComplete, EndTask, Crash, Requeue
<1> QED
  BY <1>1, <1>2, <1>3, <1>4, <1>5, <1>6, <1>7, <1>8 DEF Next

\* The id that TakeJob takes is a request, and no row is active before.
LEMMA Taken ==
  ASSUME TypeOK, ActiveIsCurrent, TakeJob
  PROVE  /\ Head(queue) \in Requests
         /\ \A r \in Requests : status[r] \notin Active
<1>1. Head(queue) \in Requests
  BY HeadTailProperties DEF TakeJob, TypeOK
<1>2. job \notin Requests /\ phase = "up"
  BY VoiceJobsAssumption DEF TakeJob, VoiceJobsAssumption
<1> QED
  BY <1>1, <1>2 DEF ActiveIsCurrent

LEMMA StepOneActive ==
  ASSUME TypeOK, OneActive, ActiveIsCurrent, [Next]_vars
  PROVE  OneActive'
<1>1. CASE TakeJob
  <2>1. \A r \in Requests : status'[r] \in Active => r = Head(queue)
    BY <1>1, Taken DEF TakeJob, TypeOK
  <2>2. phase' = "up"
    BY <1>1 DEF TakeJob
  <2> QED
    BY <2>1, <2>2 DEF OneActive
<1>2. CASE ~TakeJob
  <2>1. \A r \in Requests : status'[r] \in Active => status[r] \in Active
    BY <1>2, NoNewActive
  <2>2. CASE RecoverJobs
    BY <2>1, <2>2 DEF RecoverJobs, JobsRecovered, OneActive, Active
  <2>3. CASE ~RecoverJobs
    <3>1. phase' = "jobs_recovered" => phase = "jobs_recovered"
      BY <1>2, <2>3 DEF Next, BeginUpload, CompleteUpload, FailUpload, FinishDuplicate, Progress,
         EndTask, FinishJob, CancelTurn, Crash, CrashInComplete, Shutdown, Volatile,
         RecoverUploads, Requeue
    <3> QED
      BY <2>1, <3>1 DEF OneActive
  <2> QED
    BY <2>2, <2>3
<1> QED
  BY <1>1, <1>2

\* The steps that are neither the consumer's nor a cancel's leave its job.
LEMMA JobMoves ==
  ASSUME [Next]_vars, phase' = "up"
  PROVE  \/ TakeJob \/ Progress \/ FinishJob \/ Requeue
         \/ \E how \in Ended : EndTask(how)
         \/ \E r \in Requests : CancelTurn(r)
         \/ UNCHANGED <<phase, job, task>> /\ ~TakeJob
  BY DEF Next, BeginUpload, CompleteUpload, FailUpload, FinishDuplicate, Crash, CrashInComplete,
     Shutdown, Volatile, RecoverUploads, RecoverJobs

LEMMA ProgressStep ==
  ASSUME Progress
  PROVE  \E s \in Active : /\ task \in Pending /\ task' = s /\ s \in Pending
                           /\ status' = ActiveBecomes(job, s)
                           /\ phase' = phase /\ job' = job
<1>1. PICK i \in 1 .. Len(Stages) - 1 :
        /\ task = Stages[i] /\ task' = Stages[i + 1]
        /\ status' = ActiveBecomes(job, Stages[i + 1])
        /\ phase' = phase /\ job' = job
  BY DEF Progress
<1>2. Stages[i] \in Pending /\ Stages[i + 1] \in Pending \cap Active
  BY DEF Stages, Pending, Active
<1> QED
  BY <1>1, <1>2

LEMMA StepActiveIsCurrent ==
  ASSUME TypeOK, OneActive, ActiveIsCurrent, [Next]_vars
  PROVE  ActiveIsCurrent'
<1> SUFFICES ASSUME phase' = "up", NEW r \in Requests, status'[r] \in Active
             PROVE  r = job' /\ task' \in Pending \cup Ended
  BY DEF ActiveIsCurrent
<1>1. CASE TakeJob
  <2>1. CASE MarksRunning(Head(queue))
    <3>1. r = Head(queue)
      BY <1>1, Taken DEF TakeJob, TypeOK
    <3> QED
      BY <1>1, <2>1, <3>1 DEF TakeJob, Pending
  <2>2. CASE ~MarksRunning(Head(queue))
    BY <1>1, <2>2, Taken DEF TakeJob
  <2> QED
    BY <2>1, <2>2
<1>2. CASE ~TakeJob
  <2>1. status[r] \in Active
    BY <1>2, NoNewActive
  <2>2. phase = "up" => r = job /\ task \in Pending \cup Ended
    BY <2>1 DEF ActiveIsCurrent
  <2>3. CASE Progress
    BY <2>2, <2>3, ProgressStep DEF Progress
  <2>4. CASE FinishJob
    <3>1. r = job /\ Outcome[task] \notin Active
      BY <2>2, <2>4 DEF FinishJob, Outcome, Ended, Active
    <3> QED
      BY <2>4, <3>1 DEF FinishJob, ActiveBecomes, TypeOK
  <2>5. CASE Requeue
    BY <2>1, <2>5 DEF Requeue, OneActive
  <2>6. ASSUME NEW how \in Ended, EndTask(how) PROVE r = job' /\ task' \in Pending \cup Ended
    BY <2>2, <2>6 DEF EndTask
  <2>7. ASSUME NEW q \in Requests, CancelTurn(q) PROVE r = job' /\ task' \in Pending \cup Ended
    <3>1. q # r
      BY <2>1, <2>7 DEF CancelTurn, CancelledBy, TypeOK, Active
    <3> QED
      BY <2>2, <2>7, <3>1 DEF CancelTurn, TaskCancelledFor
  <2>8. CASE UNCHANGED <<phase, job, task>>
    BY <2>2, <2>8
  <2> QED
    BY <1>2, <2>3, <2>4, <2>5, <2>6, <2>7, <2>8, JobMoves
<1> QED
  BY <1>1, <1>2

\* A row becomes cancelled only in CancelTurn, which looks for its task.
LEMMA StepCancelStopsTask ==
  ASSUME TypeOK, CancelStopsTask, [Next]_vars
  PROVE  CancelStopsTask'
<1> SUFFICES ASSUME job' # NoRequest, status'[job'] = "cancelled", task' \in Pending
             PROVE  FALSE
  BY DEF CancelStopsTask
<1>1. CASE TakeJob
  BY <1>1, HeadTailProperties DEF TakeJob, CancelStopsTask, TypeOK
<1>2. CASE Progress
  <2>1. PICK s \in Active : /\ task \in Pending /\ job' = job
                            /\ status' = ActiveBecomes(job, s)
    BY <1>2, ProgressStep
  <2>2. job \in Requests
    BY <2>1 DEF TypeOK
  <2>3. status[job] = "cancelled"
    BY <2>1, <2>2 DEF ActiveBecomes, TypeOK, Active
  <2> QED
    BY <2>1, <2>2, <2>3 DEF CancelStopsTask
<1>3. CASE FinishJob \/ \E how \in Ended : EndTask(how)
  BY <1>3 DEF FinishJob, EndTask, Ended, Pending
<1>4. ASSUME NEW q \in Requests, CancelTurn(q) PROVE FALSE
  <2>1. job \in Requests /\ job' = job
    BY <1>4 DEF CancelTurn, TypeOK
  <2>2. task \in Pending /\ q # job
    BY <1>4, <2>1 DEF CancelTurn, TaskCancelledFor, Pending
  <2>3. status[job] = "cancelled"
    BY <1>4, <2>1, <2>2 DEF CancelTurn, CancelledBy, TypeOK
  <2> QED
    BY <2>1, <2>2, <2>3 DEF CancelStopsTask
<1>5. CASE Crash \/ Shutdown \/ \E h \in Uploads, a \in Audio : CrashInComplete(h, a)
  BY <1>5 DEF Crash, Shutdown, CrashInComplete, Volatile
<1>6. CASE UNCHANGED <<job, task>> /\ (status'[job] = "cancelled" => status[job] = "cancelled")
  BY <1>6 DEF CancelStopsTask
<1>7. CASE \/ \E h \in Uploads, q \in Requests : BeginUpload(h, q)
           \/ \E h \in Uploads, a \in Audio : CompleteUpload(h, a)
           \/ \E h \in Uploads : FailUpload(h)
           \/ \E h \in Uploads, a \in Audio : FinishDuplicate(h, a)
           \/ RecoverUploads \/ RecoverJobs \/ Requeue \/ UNCHANGED vars
  <2>1. UNCHANGED <<job, task>>
    BY <1>7 DEF BeginUpload, CompleteUpload, FailUpload, FinishDuplicate, RecoverUploads, RecoverJobs, Requeue
  <2>2. job \in Requests
    BY <2>1 DEF TypeOK
  <2>3. status'[job] = "cancelled" => status[job] = "cancelled"
    <3>1. CASE \/ \E h \in Uploads, q \in Requests : BeginUpload(h, q)
               \/ \E h \in Uploads, a \in Audio : CompleteUpload(h, a)
      BY <3>1, <2>2 DEF BeginUpload, CompleteUpload, TypeOK
    <3>2. CASE \/ \E h \in Uploads : FailUpload(h)
               \/ \E h \in Uploads, a \in Audio : FinishDuplicate(h, a)
      BY <3>2, <2>2 DEF FailUpload, FinishDuplicate, UploadFailed, TypeOK
    <3>3. CASE RecoverUploads \/ RecoverJobs \/ Requeue \/ UNCHANGED vars
      BY <3>3, <2>2 DEF RecoverUploads, RecoverJobs, Requeue, UploadsRecovered, JobsRecovered, TypeOK
    <3> QED
      BY <1>7, <3>1, <3>2, <3>3
  <2> QED
    BY <1>6, <2>1, <2>3
<1> QED
  BY <1>1, <1>2, <1>3, <1>4, <1>5, <1>7 DEF Next

-----------------------------------------------------------------------------
(* The owner of an upload.                                                 *)

OwnedInv == NoneOwned /\ UploadOwned

LEMMA StepOwned ==
  ASSUME TypeOK, OwnedInv, [Next]_vars
  PROVE  OwnedInv'
<1> USE DEF OwnedInv, NoneOwned, UploadOwned
<1>1. ASSUME NEW h \in Uploads, NEW r \in Requests, BeginUpload(h, r) PROVE OwnedInv'
  <2>1. phase = "up" /\ phase' = "up" /\ status[r] # "uploading" /\ r # NoRequest
    BY <1>1, VoiceJobsAssumption DEF BeginUpload, VoiceJobsAssumption
  <2>2. /\ recv'[h] = r /\ isNew'[h] = Claimable(r)
        /\ \A g \in Uploads : g # h => recv'[g] = recv[g] /\ isNew'[g] = isNew[g]
    BY <1>1 DEF BeginUpload, TypeOK
  <2>3. /\ status'[r] = "uploading" <=> Claimable(r)
        /\ \A q \in Requests : q # r => status'[q] = status[q]
    BY <1>1, <2>1 DEF BeginUpload, TypeOK
  <2>4. \A g \in Uploads : isNew[g] => recv[g] # r
    BY <2>1
  <2>5. \A q \in Requests : status'[q] = "uploading" => \E g \in Uploads : recv'[g] = q /\ isNew'[g]
    <3> SUFFICES ASSUME NEW q \in Requests, status'[q] = "uploading"
                 PROVE  \E g \in Uploads : recv'[g] = q /\ isNew'[g]
      OBVIOUS
    <3>1. CASE q = r
      BY <2>2, <2>3, <3>1
    <3>2. CASE q # r
      <4>1. PICK g \in Uploads : recv[g] = q /\ isNew[g]
        BY <2>1, <2>3, <3>2
      <4>2. g # h
        BY <1>1, <4>1, VoiceJobsAssumption DEF BeginUpload, VoiceJobsAssumption
      <4> QED
        BY <2>2, <4>1, <4>2
    <3> QED
      BY <3>1, <3>2
  <2>6. \A g \in Uploads : recv'[g] # NoRequest /\ isNew'[g] => status'[recv'[g]] = "uploading"
    <3> SUFFICES ASSUME NEW g \in Uploads, recv'[g] # NoRequest, isNew'[g]
                 PROVE  status'[recv'[g]] = "uploading"
      OBVIOUS
    <3>1. CASE g = h
      BY <2>2, <2>3, <3>1
    <3>2. CASE g # h
      <4>1. recv'[g] = recv[g] /\ isNew[g] /\ recv[g] \in Requests /\ recv[g] # r
        BY <2>2, <2>4, <3>2 DEF TypeOK
      <4>2. status[recv[g]] = "uploading"
        BY <2>1, <4>1
      <4> QED
        BY <2>3, <4>1, <4>2
    <3> QED
      BY <3>1, <3>2
  <2>7. \A f, g \in Uploads : recv'[f] # NoRequest /\ recv'[f] = recv'[g] /\ isNew'[f] /\ isNew'[g] => f = g
    BY <2>1, <2>2, <2>4
  <2> QED
    BY <2>1, <2>5, <2>6, <2>7
<1>2. ASSUME NEW h \in Uploads, recv[h] # NoRequest, isNew[h], phase = "up", phase' = "up", Close(h),
             status'[recv[h]] # "uploading",
             \A q \in Requests \ {recv[h]} : status'[q] = status[q]
      PROVE  OwnedInv'
  <2>1. /\ recv'[h] = NoRequest /\ isNew' = isNew
        /\ \A g \in Uploads : g # h => recv'[g] = recv[g]
    BY <1>2 DEF Close, TypeOK
  <2>2. \A g \in Uploads : recv[g] = recv[h] /\ isNew[g] => g = h
    BY <1>2
  <2>3. \A q \in Requests : status'[q] = "uploading" => \E g \in Uploads : recv'[g] = q /\ isNew'[g]
    BY <1>2, <2>1
  <2>4. \A g \in Uploads : recv'[g] # NoRequest /\ isNew'[g] => status'[recv'[g]] = "uploading"
    <3> SUFFICES ASSUME NEW g \in Uploads, recv'[g] # NoRequest, isNew'[g]
                 PROVE  status'[recv'[g]] = "uploading"
      OBVIOUS
    <3>1. g # h /\ recv'[g] = recv[g] /\ isNew[g]
      BY <2>1
    <3>2. recv[g] \in Requests \ {recv[h]} /\ status[recv[g]] = "uploading"
      BY <1>2, <2>2, <3>1 DEF TypeOK
    <3> QED
      BY <1>2, <3>1, <3>2
  <2>5. \A f, g \in Uploads : recv'[f] # NoRequest /\ recv'[f] = recv'[g] /\ isNew'[f] /\ isNew'[g] => f = g
    BY <1>2, <2>1
  <2> QED
    BY <1>2, <2>3, <2>4, <2>5
<1>3. ASSUME NEW h \in Uploads, NEW a \in Audio, CompleteUpload(h, a) PROVE OwnedInv'
  BY <1>2, <1>3 DEF CompleteUpload, TypeOK
<1>4. ASSUME NEW h \in Uploads, FailUpload(h) PROVE OwnedInv'
  BY <1>2, <1>4 DEF FailUpload, UploadFailed, TypeOK
<1>5. ASSUME NEW h \in Uploads, NEW a \in Audio, FinishDuplicate(h, a) PROVE OwnedInv'
  <2>1. /\ recv'[h] = NoRequest /\ ~isNew[h] /\ UNCHANGED <<isNew, status, phase>> /\ phase = "up"
        /\ \A g \in Uploads : g # h => recv'[g] = recv[g]
    BY <1>5 DEF FinishDuplicate, Close, TypeOK
  <2> QED
    BY <2>1
<1>6. ASSUME UNCHANGED <<phase, recv, isNew>>,
             \A q \in Requests : status'[q] = "uploading" <=> status[q] = "uploading"
      PROVE  OwnedInv'
  BY <1>6 DEF TypeOK
<1>7. CASE TakeJob
  BY <1>6, <1>7, HeadTailProperties DEF TakeJob, MarksRunning, TypeOK
<1>8. CASE Progress
  <2>1. PICK s \in Active : status' = ActiveBecomes(job, s)
    BY <1>8, ProgressStep
  <2>2. UNCHANGED <<phase, recv, isNew>>
    BY <1>8 DEF Progress
  <2> QED
    BY <1>6, <2>1, <2>2 DEF ActiveBecomes, Active, TypeOK
<1>9. CASE FinishJob
  <2>1. Outcome[task] # "uploading"
    BY <1>9 DEF FinishJob, Outcome, Ended
  <2> QED
    BY <1>6, <1>9, <2>1 DEF FinishJob, ActiveBecomes, Active, TypeOK
<1>10. ASSUME NEW q \in Requests, CancelTurn(q) PROVE OwnedInv'
  BY <1>6, <1>10 DEF CancelTurn, CancelledBy, Active, TypeOK
<1>11. CASE Crash \/ Shutdown \/ \E h \in Uploads, a \in Audio : CrashInComplete(h, a)
  <2>1. phase' = "down" /\ \A h \in Uploads : recv'[h] = NoRequest
    BY <1>11 DEF Crash, Shutdown, CrashInComplete, Volatile
  <2> QED
    BY <2>1
<1>12. CASE RecoverUploads
  BY <1>12 DEF RecoverUploads, UploadsRecovered
<1>13. CASE RecoverJobs
  BY <1>13 DEF RecoverJobs, JobsRecovered
<1>14. CASE Requeue
  BY <1>14 DEF Requeue
<1>15. CASE UNCHANGED vars \/ \E how \in Ended : EndTask(how)
  BY <1>6, <1>15 DEF EndTask
<1> QED
  BY <1>1, <1>3, <1>4, <1>5, <1>7, <1>8, <1>9, <1>10, <1>11, <1>12, <1>13, <1>14, <1>15 DEF Next

-----------------------------------------------------------------------------
(* Invariance.                                                             *)

LifeInv == TypeOK /\ OneActive /\ ActiveIsCurrent /\ CancelStopsTask /\ OwnedInv

LEMMA LifeInvariance == Spec => []LifeInv
<1>1. Init => LifeInv
  BY InitTypeOK DEF Init, LifeInv, OneActive, ActiveIsCurrent, CancelStopsTask, OwnedInv,
     NoneOwned, UploadOwned, Active
<1>2. TypeOK /\ LifeInv /\ [Next]_vars /\ TypeOK' => LifeInv'
  BY StepOneActive, StepActiveIsCurrent, StepCancelStopsTask, StepOwned DEF LifeInv
<1> QED
  BY <1>1, <1>2, TypeCorrect, PTL DEF Spec

\* An upload that is under way has one live handler, however handlers break off
\* and processes die: no row answers 409 for ever (claim_upload, recover_uploads).
THEOREM UploadsHaveOwners == Spec => []UploadOwned
  BY LifeInvariance, PTL DEF LifeInv, OwnedInv

\* The consumer knows every row that is being worked on (VoiceJobWorker._run).
THEOREM ActiveRowIsCurrent == Spec => []ActiveIsCurrent
  BY LifeInvariance, PTL DEF LifeInv

\* A cancel reaches the task of its turn (cancel_turn, worker.cancel).
THEOREM CancelReachesTask == Spec => []CancelStopsTask
  BY LifeInvariance, PTL DEF LifeInv

-----------------------------------------------------------------------------
(* The refinement.                                                         *)

\* The state of a turn, as its row's status tells.
StateOf(s) ==
  CASE s \in {"absent", "upload_failed"} -> "open"
    [] s = "uploading" -> "receiving"
    [] s = "queued" -> "accepted"
    [] s \in Active -> "working"
    [] OTHER -> s

LEMMA StatesOf ==
  /\ StateOf("absent") = "open" /\ StateOf("upload_failed") = "open"
  /\ StateOf("uploading") = "receiving" /\ StateOf("queued") = "accepted"
  /\ \A s \in Active : StateOf(s) = "working"
  /\ \A s \in Terminal : StateOf(s) = s
  /\ \A s \in Statuses : StateOf(s) = "working" => s \in Active
  BY DEF StateOf, Active, Terminal, Statuses, Accepted

LEMMA TurnStates ==
  /\ TurnState = [r \in Requests |-> StateOf(status[r])]
  /\ TurnState' = [r \in Requests |-> StateOf(status'[r])]
  BY DEF TurnState, StateOf

\* A row changes, and its turn with it.
LEMMA OneTurn ==
  ASSUME TypeOK, NEW r \in Requests, NEW s, status' = [status EXCEPT ![r] = s]
  PROVE  TurnState' = [TurnState EXCEPT ![r] = StateOf(s)]
  BY TurnStates DEF TypeOK

LEMMA Stutters ==
  ASSUME UNCHANGED <<status, sha, acks, runs>>
  PROVE  UNCHANGED Lifecycle!vars
  BY TurnStates DEF Lifecycle!vars

LEMMA InitRefines == Init => Lifecycle!Init
<1>1. Init => TurnState = [r \in Requests |-> "open"]
  BY TurnStates, StatesOf DEF Init
<1> QED
  BY <1>1 DEF Init, Lifecycle!Init

\* The active rows are settled: there is one at most.
LEMMA RecoveryRefines ==
  ASSUME TypeOK, OneActive, status' = JobsRecovered, UNCHANGED <<sha, acks, runs>>
  PROVE  [Lifecycle!Next]_(Lifecycle!vars)
<1>1. ASSUME NEW r \in Requests, status[r] \in Active PROVE Lifecycle!Settle(r, "interrupted")
  <2>1. status' = [status EXCEPT ![r] = "interrupted"]
    <3>1. \A q \in Requests : status[q] \in Active => q = r
      BY <1>1 DEF OneActive
    <3> QED
      BY <1>1, <3>1 DEF JobsRecovered, TypeOK
  <2>2. TurnState[r] = "working" /\ StateOf("interrupted") = "interrupted"
    BY <1>1, TurnStates, StatesOf DEF Terminal
  <2> QED
    BY <2>1, <2>2, OneTurn DEF Lifecycle!Settle
<1>2. CASE \A r \in Requests : status[r] \notin Active
  <2>1. status' = status
    BY <1>2 DEF JobsRecovered, TypeOK
  <2> QED
    BY <2>1, Stutters
<1> QED
  BY <1>1, <1>2 DEF Lifecycle!Next, Lifecycle!Outcomes

LEMMA StepRefines ==
  ASSUME LifeInv, [Next]_vars
  PROVE  [Lifecycle!Next]_(Lifecycle!vars)
<1> USE DEF LifeInv
<1>1. ASSUME NEW h \in Uploads, NEW r \in Requests, BeginUpload(h, r)
      PROVE  [Lifecycle!Next]_(Lifecycle!vars)
  <2>1. CASE Claimable(r)
    <3>1. status' = [status EXCEPT ![r] = "uploading"] /\ UNCHANGED <<sha, acks, runs>>
      BY <1>1, <2>1 DEF BeginUpload
    <3>2. TurnState[r] = "open"
      BY <2>1, TurnStates, StatesOf DEF Claimable
    <3>3. TurnState' = [TurnState EXCEPT ![r] = StateOf("uploading")]
      BY <3>1, OneTurn
    <3>4. Lifecycle!Receive(r)
      BY <3>1, <3>2, <3>3, StatesOf DEF Lifecycle!Receive
    <3> QED
      BY <3>4 DEF Lifecycle!Next
  <2>2. CASE ~Claimable(r)
    BY <1>1, <2>2, Stutters DEF BeginUpload, TypeOK
  <2> QED
    BY <2>1, <2>2
<1>2. ASSUME NEW h \in Uploads, NEW a \in Audio, CompleteUpload(h, a)
      PROVE  [Lifecycle!Next]_(Lifecycle!vars)
  <2> DEFINE r == recv[h]
  <2>1. r \in Requests /\ status[r] = "uploading"
    BY <1>2 DEF CompleteUpload, Completes, TypeOK
  <2>2. TurnState[r] = "receiving"
    BY <2>1, TurnStates, StatesOf
  <2>3. TurnState' = [TurnState EXCEPT ![r] = "accepted"]
    <3>1. status' = [status EXCEPT ![r] = "queued"]
      BY <1>2 DEF CompleteUpload
    <3> HIDE DEF r
    <3>2. TurnState' = [TurnState EXCEPT ![r] = StateOf("queued")]
      BY <2>1, <3>1, OneTurn
    <3> QED
      BY <3>2, StatesOf
  <2>4. Lifecycle!Accept(r, a)
    BY <1>2, <2>2, <2>3 DEF CompleteUpload, Lifecycle!Accept
  <2> QED
    BY <2>1, <2>4 DEF Lifecycle!Next
<1>3. ASSUME NEW S \in SUBSET Requests, \A r \in S : status[r] = "uploading",
             status' = [r \in Requests |-> IF r \in S THEN "upload_failed" ELSE status[r]],
             UNCHANGED <<sha, acks, runs>>
      PROVE  [Lifecycle!Next]_(Lifecycle!vars)
  <2>1. \A r \in S : TurnState[r] = "receiving"
    BY <1>3, TurnStates, StatesOf
  <2>2. TurnState' = [r \in Requests |-> IF r \in S THEN "open" ELSE TurnState[r]]
    BY <1>3, TurnStates, StatesOf
  <2>3. Lifecycle!Drop(S)
    BY <1>3, <2>1, <2>2 DEF Lifecycle!Drop
  <2> QED
    BY <2>3 DEF Lifecycle!Next
<1>4. ASSUME NEW h \in Uploads, FailUpload(h) PROVE [Lifecycle!Next]_(Lifecycle!vars)
  <2>1. recv[h] \in Requests /\ status[recv[h]] = "uploading"
    BY <1>4 DEF FailUpload, OwnedInv, UploadOwned, TypeOK
  <2>2. status' = [r \in Requests |-> IF r \in {recv[h]} THEN "upload_failed" ELSE status[r]]
    BY <1>4, <2>1 DEF FailUpload, UploadFailed, TypeOK
  <2> QED
    BY <1>3, <1>4, <2>1, <2>2 DEF FailUpload
<1>5. ASSUME NEW h \in Uploads, NEW a \in Audio, FinishDuplicate(h, a)
      PROVE  [Lifecycle!Next]_(Lifecycle!vars)
  <2> DEFINE r == recv[h]
  <2>1. r \in Requests
    BY <1>5 DEF FinishDuplicate, TypeOK
  <2>2. CASE Verified(r, a)
    <3>1. sha[r] = a /\ a # NoAudio
      BY <2>2, VoiceJobsAssumption DEF Verified, VoiceJobsAssumption
    <3>2. acks' = [acks EXCEPT ![r] = @ \cup {sha[r]}] /\ UNCHANGED <<status, sha, runs>>
      BY <1>5, <2>2, <3>1 DEF FinishDuplicate
    <3>3. Lifecycle!AckAgain(r)
      BY <3>1, <3>2, TurnStates DEF Lifecycle!AckAgain
    <3> QED
      BY <2>1, <3>3 DEF Lifecycle!Next
  <2>3. CASE ~Verified(r, a)
    <3>1. acks' = acks
      BY <1>5, <2>3 DEF FinishDuplicate, TypeOK
    <3> QED
      BY <1>5, <3>1, Stutters DEF FinishDuplicate
  <2> QED
    BY <2>2, <2>3
<1>6. CASE TakeJob
  <2> DEFINE r == Head(queue)
  <2>1. r \in Requests /\ \A q \in Requests : status[q] \notin Active
    BY <1>6, Taken
  <2>2. CASE MarksRunning(r)
    <3>1. /\ status' = [status EXCEPT ![r] = "running"] /\ runs' = [runs EXCEPT ![r] = @ + 1]
          /\ UNCHANGED <<sha, acks>>
      BY <1>6, <2>2 DEF TakeJob
    <3>2. TurnState[r] = "accepted"
      BY <2>1, <2>2, TurnStates, StatesOf DEF MarksRunning
    <3>3. \A q \in Requests : TurnState[q] # "working"
      BY <2>1, TurnStates, StatesOf DEF TypeOK
    <3>4. StateOf("running") = "working"
      BY StatesOf DEF Active
    <3> HIDE DEF r
    <3>5. TurnState' = [TurnState EXCEPT ![r] = "working"]
      <4>1. TurnState' = [TurnState EXCEPT ![r] = StateOf("running")]
        BY <2>1, <3>1, OneTurn
      <4> QED
        BY <3>4, <4>1
    <3>6. Lifecycle!Work(r)
      BY <3>1, <3>2, <3>3, <3>5 DEF Lifecycle!Work
    <3> QED
      BY <2>1, <3>6 DEF Lifecycle!Next
  <2>3. CASE ~MarksRunning(r)
    BY <1>6, <2>3, Stutters DEF TakeJob
  <2> QED
    BY <2>2, <2>3
<1>7. CASE Progress
  <2>1. PICK s \in Active : status' = ActiveBecomes(job, s)
    BY <1>7, ProgressStep
  <2>2. \A r \in Requests : StateOf(status'[r]) = StateOf(status[r])
    BY <2>1, StatesOf DEF ActiveBecomes, TypeOK
  <2>3. TurnState' = TurnState
    BY <2>2, TurnStates
  <2> QED
    BY <1>7, <2>3 DEF Progress, Lifecycle!vars
<1>8. CASE FinishJob
  <2>1. Outcome[task] \in Terminal /\ UNCHANGED <<sha, acks, runs>>
    BY <1>8 DEF FinishJob, Outcome, Ended, Terminal
  <2>2. CASE job \in Requests /\ status[job] \in Active
    <3>1. status' = [status EXCEPT ![job] = Outcome[task]]
      BY <1>8, <2>2 DEF FinishJob, ActiveBecomes, TypeOK
    <3>2. TurnState[job] = "working" /\ StateOf(Outcome[task]) = Outcome[task]
      BY <2>1, <2>2, TurnStates, StatesOf
    <3>3. Lifecycle!Settle(job, Outcome[task])
      BY <2>1, <2>2, <3>1, <3>2, OneTurn DEF Lifecycle!Settle
    <3> QED
      BY <2>1, <2>2, <3>3 DEF Lifecycle!Next, Lifecycle!Outcomes, Terminal
  <2>3. CASE ~(job \in Requests /\ status[job] \in Active)
    <3>1. status' = status
      BY <1>8, <2>3 DEF FinishJob, ActiveBecomes, TypeOK
    <3> QED
      BY <2>1, <3>1, Stutters
  <2> QED
    BY <2>2, <2>3
<1>9. ASSUME NEW r \in Requests, CancelTurn(r) PROVE [Lifecycle!Next]_(Lifecycle!vars)
  <2>1. status' = [status EXCEPT ![r] = "cancelled"] /\ UNCHANGED <<sha, acks, runs>>
    BY <1>9 DEF CancelTurn, CancelledBy, TypeOK
  <2>2. TurnState[r] \in {"working", "accepted"}
    BY <1>9, TurnStates, StatesOf DEF CancelTurn
  <2>3. StateOf("cancelled") = "cancelled"
    BY StatesOf DEF Terminal
  <2>4. Lifecycle!Settle(r, "cancelled")
    BY <2>1, <2>2, <2>3, OneTurn DEF Lifecycle!Settle
  <2> QED
    BY <2>4 DEF Lifecycle!Next, Lifecycle!Outcomes
<1>10. CASE Shutdown
  BY <1>10, RecoveryRefines DEF Shutdown
<1>11. CASE RecoverJobs
  BY <1>11, RecoveryRefines DEF RecoverJobs
<1>12. CASE RecoverUploads
  <2> DEFINE S == {r \in Requests : status[r] = "uploading"}
  <2>1. status' = [r \in Requests |-> IF r \in S THEN "upload_failed" ELSE status[r]]
    BY <1>12 DEF RecoverUploads, UploadsRecovered
  <2> QED
    BY <1>3, <1>12, <2>1 DEF RecoverUploads
<1>13. CASE \/ Crash \/ Requeue \/ \E how \in Ended : EndTask(how)
            \/ \E h \in Uploads, a \in Audio : CrashInComplete(h, a)
  <2>1. UNCHANGED <<status, sha, acks, runs>>
    BY <1>13 DEF Crash, Requeue, EndTask, CrashInComplete
  <2> QED
    BY <2>1, Stutters
<1>14. CASE UNCHANGED vars
  BY <1>14, Stutters
<1> QED
  BY <1>1, <1>2, <1>4, <1>5, <1>6, <1>7, <1>8, <1>9, <1>10, <1>11, <1>12, <1>13, <1>14 DEF Next

\* The gateway keeps the voice protocol: whatever handlers, cancels, the worker
\* and restarts do to its rows is a step of the life of some turn, or none.
THEOREM KeepsTheProtocol == Spec => ImplementsLifecycle
<1>1. Init => Lifecycle!Init
  BY InitRefines
<1>2. LifeInv /\ [Next]_vars => [Lifecycle!Next]_(Lifecycle!vars)
  BY StepRefines
<1> QED
  BY <1>1, <1>2, LifeInvariance, PTL DEF Spec, ImplementsLifecycle, Lifecycle!Spec
=============================================================================
