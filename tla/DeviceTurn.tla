---------------------------- MODULE DeviceTurn -----------------------------
(***************************************************************************)
(* One StickS3 and its gateway.  On the device two tasks share flags       *)
(* without a lock: the main loop, whose app_tick walks the state machine   *)
(* BOOT, IDLE, RECORDING, PROCESSING, PLAYING, ERROR, and the voice_turn   *)
(* task, which uploads the recording while it is made, looks the turn up,  *)
(* polls, cancels and downloads.  An action of the main loop is one tick,  *)
(* cut where the order of its flag writes matters; an action of the task   *)
(* is the code between two waits for the network or for the stream buffer. *)
(* The request and turn ids are in NVS, and the device may reboot or sleep *)
(* at any moment.                                                          *)
(*                                                                         *)
(* The gateway is TurnLifecycle, the specification VoiceJobs implements;   *)
(* any request to it, or the response, may be lost.  Audio is counted in   *)
(* chunks.  The button is the events button_driver reports.                *)
(***************************************************************************)
EXTENDS Naturals, FiniteSets

CONSTANTS Requests,     \* the UUIDs begin_turn_request draws
          RingSize,     \* capacity of the ring buffer, in chunks
          StreamSize,   \* capacity of each of the two stream buffers
          MaxRecord,    \* bound of the model: chunks of a recording
          ReplySize,    \* chunks of a reply
          NoRequest, NoAudio

ASSUME DeviceTurnAssumption ==
  /\ {RingSize, StreamSize, MaxRecord, ReplySize} \subseteq Nat \ {0}
  /\ NoRequest \notin Requests
  /\ NoAudio \notin {"whole", "cut"}

VARIABLES
  \* NVS
  nvs,        \* request_id, and whether turn_id is known
  \* the main loop
  state,      \* app.sm
  ids,        \* the same two settings in RAM
  ring,       \* chunks in app.rb
  overflow,   \* its sticky flag
  captured,   \* chunks the microphone delivered for this recording
  halting,    \* on_ring_buffer_overflow has done its first write
  \* the flags of app_t the two tasks share
  cancel,     \* turn_cancel_requested
  started,    \* turn_audio_started
  finished,   \* turn_upload_finished
  failed,     \* turn_upload_failed
  storage,    \* turn_storage_failed
  result,     \* turn_result
  active,     \* turn_task_active
  outgoing,   \* chunks in turn_upload_stream
  incoming,   \* chunks in turn_audio_stream
  \* the voice_turn task
  pc,         \* where it waits
  mine,       \* the request it was created for
  sent,       \* chunks written to the connection
  got,        \* chunks read from the audio response
  \* the connection each upload was sent on
  link,
  \* the gateway
  turn, body, acks, runs,
  \* history
  minted,     \* the UUIDs drawn
  givenUp,    \* the requests whose turn the device saw end, one way or another
  played      \* chunks of the reply handed to the speaker since PLAYING began

flags == <<cancel, started, finished, failed, storage, result, active>>
streams == <<outgoing, incoming>>
recorder == <<ring, overflow, captured, halting>>
task == <<pc, mine, sent, got>>
gateway == <<turn, body, acks, runs>>
history == <<minted, givenUp, played>>
vars == <<nvs, state, ids, recorder, flags, streams, task, link, gateway, history>>

Gateway == INSTANCE TurnLifecycle WITH Audio <- {"whole", "cut"}

States == {"BOOT", "IDLE", "RECORDING", "PROCESSING", "PLAYING", "ERROR"}
Results == {"waiting", "ready", "failed", "cancelled"}
Uploading == {"connecting", "uploading", "checking", "closing"}
Polling == {"polling", "pending"}
Places == {"none", "downloading", "leaving"} \cup Uploading \cup Polling
NoIds == [req |-> NoRequest, tid |-> FALSE]
Ids == [req : Requests \cup {NoRequest}, tid : BOOLEAN]

TypeOK ==
  /\ nvs \in Ids /\ ids \in Ids
  /\ state \in States
  /\ ring \in 0 .. RingSize /\ outgoing \in 0 .. StreamSize
  /\ incoming \in 0 .. StreamSize
  /\ captured \in 0 .. MaxRecord /\ sent \in 0 .. MaxRecord
  /\ got \in 0 .. ReplySize /\ played \in 0 .. ReplySize
  /\ {overflow, halting, cancel, started, finished, failed, storage, active} \subseteq BOOLEAN
  /\ result \in Results
  /\ pc \in Places
  /\ mine \in Requests \cup {NoRequest}
  /\ link \in [Requests -> {"none", "open", "whole", "cut", "gone"}]
  /\ turn \in [Requests -> {"open", "receiving", "accepted", "working"} \cup Gateway!Outcomes]
  /\ body \in [Requests -> {"whole", "cut", NoAudio}]
  /\ minted \subseteq Requests /\ givenUp \subseteq minted

Init ==
  /\ nvs = NoIds /\ ids = NoIds
  /\ state = "BOOT"
  /\ ring = 0 /\ overflow = FALSE /\ captured = 0 /\ halting = FALSE
  /\ cancel = FALSE /\ started = FALSE /\ finished = FALSE /\ failed = FALSE
  /\ storage = FALSE /\ result = "failed" /\ active = FALSE
  /\ outgoing = 0 /\ incoming = 0
  /\ pc = "none" /\ mine = NoRequest /\ sent = 0 /\ got = 0
  /\ link = [r \in Requests |-> "none"]
  /\ Gateway!Init
  /\ minted = {} /\ givenUp = {} /\ played = 0

-----------------------------------------------------------------------------
(* Faulty variants of definitions below, one for each property: what the   *)
(* code would say with a plausible mistake.  Nothing here uses them.       *)

FinishedBeforeFailed == <<TRUE, FALSE>>
CanRecordAnyTime == TRUE
StaleAudioStarted == started
SavedInRamOnly(new) == ids' = new /\ UNCHANGED nvs
NeverStops == FALSE
NoDeadline == FALSE

-----------------------------------------------------------------------------
(* Helpers of main.c.                                                      *)

\* is_valid_transition
ValidTransition(from, to) ==
  \/ to = "ERROR" /\ from # "ERROR"
  \/ <<from, to>> \in {<<"BOOT", "IDLE">>, <<"BOOT", "PROCESSING">>,
                       <<"IDLE", "RECORDING">>, <<"RECORDING", "PROCESSING">>,
                       <<"PROCESSING", "PLAYING">>, <<"PLAYING", "IDLE">>,
                       <<"ERROR", "IDLE">>}

\* state_machine_step: an illegal transition leaves the state alone.
Step(from, to) == IF ValidTransition(from, to) THEN to ELSE from
EnterState(next) == state' = Step(state, next)

\* voice_settings_save of new ids; the write to NVS may fail.
Saved(new) == ids' = new /\ nvs' = new
NotSaved(new) == ids' = new /\ UNCHANGED nvs

\* turn_clear_ids
ClearIds ==
  \/ Saved(NoIds) /\ UNCHANGED storage
  \/ NotSaved(NoIds) /\ storage' = TRUE

\* ring_buffer_push: what does not fit is lost and raises the sticky flag.
Pushed(n) == IF ring + n > RingSize THEN RingSize ELSE ring + n
Overflows(n) == overflow \/ ring + n > RingSize

\* recording_drain: how many chunks of a ring holding n move to the stream.
Drained(n, full) ==
  IF full THEN 0 ELSE IF n < StreamSize - outgoing THEN n ELSE StreamSize - outgoing

\* start_turn_worker resets what the last turn left behind.
AudioStartedReset == FALSE

StartWorker(r, upload) ==
  /\ outgoing' = 0 /\ incoming' = 0
  /\ cancel' = FALSE /\ started' = AudioStartedReset /\ finished' = ~upload
  /\ failed' = FALSE /\ storage' = FALSE /\ result' = "waiting"
  /\ \/ /\ active' = TRUE                      \* xTaskCreate
        /\ pc' = (IF upload THEN "connecting" ELSE "polling")
        /\ mine' = r /\ sent' = 0 /\ got' = 0
        /\ played' = 0
     \/ active' = FALSE /\ UNCHANGED <<task, played>>

-----------------------------------------------------------------------------
(* app_tick, by state.                                                     *)

\* BOOT: resume a saved request.
Boot ==
  /\ state = "BOOT"
  /\ IF ids.req = NoRequest
     THEN EnterState("IDLE") /\ UNCHANGED <<flags, streams, task, givenUp, played>>
     ELSE /\ StartWorker(ids.req, FALSE)
          /\ EnterState(IF active' THEN "PROCESSING" ELSE "ERROR")
          /\ givenUp' = IF active' THEN givenUp ELSE givenUp \cup {ids.req}
  /\ UNCHANGED <<nvs, ids, recorder, link, gateway, minted>>

\* ... when voice_turn_http_init or a stream buffer failed.
BootFails ==
  /\ state = "BOOT" /\ ids.req # NoRequest
  /\ EnterState("ERROR")
  /\ givenUp' = givenUp \cup {ids.req}
  /\ UNCHANGED <<nvs, ids, recorder, flags, streams, task, link, gateway, minted, played>>

\* recording_start refuses while the last task has not left.
CanRecord == ~active

\* Both ring buffers are reset, the sticky flag with them.
ResetRecorder == ring' = 0 /\ overflow' = FALSE /\ captured' = 0 /\ UNCHANGED halting

\* IDLE: a press starts a recording under a new UUID, saved before anything
\* is sent.  No tunnel, no storage or no memory for the task is an error.
Press(r) ==
  /\ state = "IDLE" /\ r \notin minted
  /\ CanRecord
  /\ minted' = minted \cup {r}
  /\ LET new == [req |-> r, tid |-> FALSE] IN
     \/ /\ Saved(new)
        /\ ResetRecorder
        /\ IF active                   \* start_turn_worker has nothing to do
           THEN UNCHANGED <<flags, streams, task, played>> /\ EnterState("RECORDING")
           ELSE StartWorker(r, TRUE) /\ EnterState(IF active' THEN "RECORDING" ELSE "ERROR")
     \/ /\ NotSaved(new)
        /\ EnterState("ERROR")
        /\ UNCHANGED <<recorder, flags, streams, task, played>>
  /\ UNCHANGED <<link, gateway, givenUp>>

PressRefused ==
  /\ state = "IDLE"
  /\ EnterState("ERROR")
  /\ UNCHANGED <<nvs, ids, recorder, flags, streams, task, link, gateway, history>>

\* RECORDING after an overflow: on_ring_buffer_overflow stops the upload.  The
\* flags are written one by one while the task may be running.
HaltedFlags == <<FALSE, TRUE>>   \* <<finished, failed>> after the first write

OverflowSeen ==
  /\ state = "RECORDING" /\ overflow /\ ~halting
  /\ halting' = TRUE
  /\ finished' = HaltedFlags[1] /\ failed' = (failed \/ HaltedFlags[2])
  /\ UNCHANGED <<nvs, state, ids, ring, overflow, captured, cancel, started, storage,
                 result, active, streams, task, link, gateway, history>>

OverflowReported ==
  /\ state = "RECORDING" /\ halting
  /\ halting' = FALSE
  /\ finished' = TRUE /\ failed' = TRUE /\ cancel' = TRUE
  /\ EnterState("ERROR")
  /\ UNCHANGED <<nvs, ids, ring, overflow, captured, started, storage, result, active,
                 streams, task, link, gateway, history>>

UploadLost == result = "failed" /\ ~active

RecordingFails ==
  /\ state = "RECORDING" /\ ~overflow /\ UploadLost
  /\ EnterState("ERROR")
  /\ UNCHANGED <<nvs, ids, recorder, flags, streams, task, link, gateway, history>>

\* RECORDING: capture, drain, and then the button, which ends the recording
\* even in the tick whose capture overflowed.
Record(n, released) ==
  /\ state = "RECORDING" /\ ~overflow /\ ~UploadLost
  /\ captured + n <= MaxRecord
  /\ captured' = captured + n
  /\ overflow' = Overflows(n)
  /\ LET moved == Drained(Pushed(n), overflow') IN
       ring' = Pushed(n) - moved /\ outgoing' = outgoing + moved
  /\ IF released
     THEN EnterState(IF ids.req = NoRequest \/ ~active THEN "ERROR" ELSE "PROCESSING")
     ELSE UNCHANGED state
  /\ UNCHANGED <<nvs, ids, halting, flags, incoming, task, link, gateway, history>>

TurnFailed == result = "failed" \/ storage

\* PROCESSING: the rest of the recording, the cancel button, the outcome.
Process(pressed) ==
  /\ state = "PROCESSING"
  /\ LET moved == IF finished THEN 0 ELSE Drained(ring, overflow) IN
       /\ ring' = ring - moved
       /\ outgoing' = outgoing + moved
       /\ finished' = (finished \/ ring' = 0)
  /\ cancel' = (cancel \/ pressed \/ (TurnFailed /\ active))
  /\ IF TurnFailed THEN EnterState("ERROR")
     ELSE IF result = "cancelled" THEN EnterState("IDLE")
     ELSE IF started THEN EnterState("PLAYING")
     ELSE UNCHANGED state
  /\ UNCHANGED <<nvs, ids, overflow, captured, halting, started, failed, storage, result,
                 active, incoming, task, link, gateway, history>>

\* PLAYING: on_playback_error, for a failed turn or a speaker that rejects.
PlayError ==
  /\ state = "PLAYING"
  /\ TurnFailed \/ result # "cancelled"
  /\ incoming' = (IF TurnFailed THEN incoming ELSE 0)
  /\ cancel' = TRUE
  /\ EnterState("ERROR")
  /\ UNCHANGED <<nvs, ids, recorder, started, finished, failed, storage, result, active,
                 outgoing, task, link, gateway, history>>

PlayCancelled ==
  /\ state = "PLAYING" /\ ~TurnFailed /\ result = "cancelled"
  /\ EnterState("IDLE")
  /\ UNCHANGED <<nvs, ids, recorder, flags, streams, task, link, gateway, history>>

\* The whole reply has been taken from the stream.
PlayedOut(left) == result = "ready" /\ left = 0

\* PLAYING: hand what has arrived to the speaker; the reply is over when the
\* download is and the speaker has run dry.
Play(dry) ==
  /\ state = "PLAYING" /\ ~TurnFailed /\ result # "cancelled"
  /\ played' = played + incoming
  /\ incoming' = 0
  /\ IF PlayedOut(incoming') /\ dry THEN EnterState("IDLE") ELSE UNCHANGED state
  /\ UNCHANGED <<nvs, ids, recorder, flags, outgoing, task, link, gateway, minted, givenUp>>

\* ERROR: a press and release acknowledge it, once the task has left.
Acknowledge ==
  /\ state = "ERROR" /\ ~active
  /\ EnterState("IDLE")
  /\ UNCHANGED <<nvs, ids, recorder, flags, streams, task, link, gateway, history>>

\* A reset, a crash, a flat battery or the idle sleep: app_init starts over.
Reboot ==
  /\ state' = "BOOT" /\ ids' = nvs
  /\ ring' = 0 /\ overflow' = FALSE /\ captured' = 0 /\ halting' = FALSE
  /\ cancel' = FALSE /\ started' = FALSE /\ finished' = FALSE /\ failed' = FALSE
  /\ storage' = FALSE /\ result' = "failed" /\ active' = FALSE
  /\ outgoing' = 0 /\ incoming' = 0
  /\ pc' = "none" /\ mine' = NoRequest /\ sent' = 0 /\ got' = 0 /\ played' = 0
  /\ link' = [r \in Requests |-> IF link[r] = "open" THEN "gone" ELSE link[r]]
  /\ UNCHANGED <<nvs, gateway, minted, givenUp>>

-----------------------------------------------------------------------------
(* upload_recording.                                                       *)

\* The task reports a failed upload; the ids stay in NVS.
UploadFails ==
  /\ failed' = TRUE /\ result' = "failed" /\ pc' = "leaving"
  /\ givenUp' = givenUp \cup {mine}
  /\ UNCHANGED <<cancel, started, finished, storage, active, mine, sent, got, minted, played>>

Connect ==
  /\ pc = "connecting"
  /\ \/ /\ Gateway!Receive(mine)
        /\ link' = [link EXCEPT ![mine] = "open"]
        /\ pc' = "uploading"
        /\ UNCHANGED <<flags, mine, sent, got, history>>
     \/ UploadFails /\ UNCHANGED <<link, gateway>>
  /\ UNCHANGED <<nvs, state, ids, recorder, streams>>

\* The loop: stop when the main loop failed the upload, else send a chunk.
Upload ==
  /\ pc = "uploading"
  /\ IF failed
     THEN /\ UploadFails
          /\ link' = [link EXCEPT ![mine] = "gone"]
          /\ UNCHANGED outgoing
     ELSE /\ outgoing' = (IF outgoing = 0 THEN 0 ELSE outgoing - 1)
          /\ sent' = sent + (outgoing - outgoing')
          /\ pc' = "checking"
          /\ UNCHANGED <<flags, link, mine, got, history>>
  /\ UNCHANGED <<nvs, state, ids, recorder, incoming, gateway>>

\* The connection breaks while it is written, or the gateway closed it.
UploadBreaks ==
  /\ pc = "uploading" /\ outgoing > 0
  /\ UploadFails
  /\ outgoing' = outgoing - 1
  /\ link' = [link EXCEPT ![mine] = "gone"]
  /\ UNCHANGED <<nvs, state, ids, recorder, incoming, gateway>>

\* The end of an iteration: nothing more will come.  The terminal chunk makes
\* the body complete for the gateway, whatever it holds.
Check ==
  /\ pc = "checking"
  /\ IF finished /\ outgoing = 0
     THEN IF failed
          THEN UploadFails /\ link' = [link EXCEPT ![mine] = "gone"]
          ELSE /\ pc' = "closing"
               /\ link' = [link EXCEPT ![mine] =
                             IF @ # "open" THEN @ ELSE IF sent = captured THEN "whole" ELSE "cut"]
               /\ UNCHANGED <<flags, mine, sent, got, history>>
     ELSE pc' = "uploading" /\ UNCHANGED <<flags, link, mine, sent, got, history>>
  /\ UNCHANGED <<nvs, state, ids, recorder, streams, gateway>>

\* 202: the turn id is saved.  When it cannot be, the main loop is told and
\* the task goes on with the id in RAM.
UploadAnswered ==
  /\ pc = "closing" /\ body[mine] # NoAudio
  /\ LET new == [ids EXCEPT !.tid = TRUE] IN
       \/ Saved(new) /\ UNCHANGED storage
       \/ NotSaved(new) /\ storage' = TRUE
  /\ pc' = "polling"
  /\ UNCHANGED <<state, recorder, cancel, started, finished, failed, result, active, streams,
                 mine, sent, got, link, gateway, history>>

\* Another status, or no response.
UploadUnanswered ==
  /\ pc = "closing"
  /\ UploadFails
  /\ UNCHANGED <<nvs, state, ids, recorder, streams, link, gateway>>

-----------------------------------------------------------------------------
(* voice_turn_client.  A call without an answer, or with a 5xx, is retried *)
(* later and leaves the device as it was.                                  *)

\* The task returns from the client with a result.
Return(how) ==
  /\ result' = how
  /\ pc' = "leaving"
  /\ givenUp' = givenUp \cup {mine}
  /\ UNCHANGED <<cancel, started, finished, failed, active, mine, sent, got, minted, played>>

\* finish: the ids are cleared before the result is seen.
Finish(how) == ClearIds /\ Return(how)

Cancelling == cancel /\ ids.tid

\* voice_turn_client_tick compares the clock with the deadline; the cancel
\* path of the task does not come through here.
PastDeadline == ~Cancelling

Deadline ==
  /\ pc \in Polling /\ PastDeadline
  /\ Finish("failed")
  /\ UNCHANGED <<state, recorder, streams, link, gateway>>

\* GET requests/{id}: the id is found and saved, or found and lost to NVS, or
\* the gateway knows no row, or one whose upload failed.
Lookup ==
  /\ pc = "polling" /\ ~ids.tid
  /\ \/ /\ turn[mine] # "open"
        /\ Saved([ids EXCEPT !.tid = TRUE])
        /\ UNCHANGED <<flags, pc, mine, sent, got, history>>
     \/ /\ turn[mine] # "open"
        /\ Saved(NoIds) \/ NotSaved(NoIds)
        /\ storage' = TRUE
        /\ Return("failed")
     \/ /\ turn[mine] = "open"
        /\ Finish("failed")
  /\ UNCHANGED <<state, recorder, streams, link, gateway>>

\* voice_turn_parse_status: what the device tells apart in the gateway's answer.
\* A row whose upload failed is open again for the gateway.
Status(t) ==
  CASE t \in {"ready", "cancelled"} -> t
    [] t \in {"open", "failed", "interrupted"} -> "failed"
    [] OTHER -> "pending"

\* GET turns/{id}.  One in progress is asked for again later, which changes
\* nothing here; ready leads to the audio, any other status ends the turn.
Poll ==
  /\ pc = "polling" /\ ids.tid /\ ~cancel
  /\ \/ /\ Status(turn[mine]) = "ready"
        /\ pc' = "pending"
        /\ UNCHANGED <<nvs, ids, flags, mine, sent, got, history>>
     \/ /\ Status(turn[mine]) \in {"failed", "cancelled"}
        /\ Finish(Status(turn[mine]))
  /\ UNCHANGED <<state, recorder, streams, link, gateway>>

\* A 4xx, or an answer that cannot be read, to any of the three.
Refused ==
  /\ pc \in Polling /\ ~Cancelling
  /\ Finish("failed")
  /\ UNCHANGED <<state, recorder, streams, link, gateway>>

\* cancel_turn: POST turns/{id}/cancel reaches the gateway, which has a turn to
\* cancel or answers that it has none.
CancelPosted(answered) ==
  \/ Gateway!Settle(mine, "cancelled")
  \/ answered /\ UNCHANGED gateway

\* Any answer ends the turn for the device; a lost one does not.
Cancel(answered) ==
  /\ pc \in Polling /\ Cancelling
  /\ CancelPosted(answered)
  /\ IF answered THEN Finish("cancelled")
     ELSE UNCHANGED <<nvs, ids, flags, task, history>>
  /\ UNCHANGED <<state, recorder, streams, link>>

\* GET turns/{id}/audio
Download ==
  /\ pc = "pending" /\ ~cancel
  /\ pc' = "downloading" /\ got' = 0
  /\ UNCHANGED <<nvs, state, ids, recorder, flags, streams, mine, sent, link, gateway, history>>

DownloadChunk ==
  /\ pc = "downloading" /\ ~cancel
  /\ got < ReplySize /\ incoming < StreamSize
  /\ got' = got + 1
  /\ incoming' = incoming + 1
  /\ started' = TRUE
  /\ UNCHANGED <<nvs, state, ids, recorder, cancel, finished, failed, storage, result,
                 active, outgoing, pc, mine, sent, link, gateway, history>>

\* A download that fails, or ends early, or is no such WAV; not while it waits
\* for room in the stream.  One that broke before any audio was passed on is
\* repeated.
Repeatable == ~started

DownloadBreaks ==
  /\ pc = "downloading" /\ incoming < StreamSize
  /\ \/ Finish("failed")
     \/ Repeatable /\ pc' = "pending" /\ UNCHANGED <<nvs, ids, flags, mine, sent, got, history>>
  /\ UNCHANGED <<state, recorder, streams, link, gateway>>

\* The loop of download_audio looks at the cancel flag between reads.
StopsDownload == cancel

DownloadStops ==
  /\ pc = "downloading" /\ StopsDownload
  /\ pc' = "pending"
  /\ UNCHANGED <<nvs, state, ids, recorder, flags, streams, mine, sent, got, link,
                 gateway, history>>

DownloadEnds ==
  /\ pc = "downloading" /\ got = ReplySize
  /\ Finish("ready")
  /\ UNCHANGED <<state, recorder, streams, link, gateway>>

\* The last write of the task.
Leave ==
  /\ pc = "leaving"
  /\ pc' = "none" /\ active' = FALSE
  /\ UNCHANGED <<nvs, state, ids, recorder, cancel, started, finished, failed, storage,
                 result, streams, mine, sent, got, link, gateway, history>>

-----------------------------------------------------------------------------
(* The gateway, between requests.                                          *)

\* It accepts a body whose end it has seen.
GatewayAccepts(r) ==
  /\ link[r] \in {"whole", "cut"}
  /\ Gateway!Accept(r, link[r])
  /\ UNCHANGED <<nvs, state, ids, recorder, flags, streams, task, link, history>>

\* It refuses the upload, or sees it broken off, or stops itself.
GatewayDrops(r) ==
  /\ Gateway!Drop({r})
  /\ link' = [link EXCEPT ![r] = "gone"]
  /\ UNCHANGED <<nvs, state, ids, recorder, flags, streams, task, history>>

GatewayWorks(r) ==
  /\ Gateway!Work(r) \/ (\E o \in Gateway!Outcomes \ {"cancelled"} : Gateway!Settle(r, o))
  /\ UNCHANGED <<nvs, state, ids, recorder, flags, streams, task, link, history>>

-----------------------------------------------------------------------------

MainLoop ==
  \/ Boot \/ BootFails
  \/ \E r \in Requests : Press(r)
  \/ PressRefused
  \/ OverflowSeen \/ OverflowReported
  \/ RecordingFails
  \/ \E n \in 0 .. 1, released \in BOOLEAN : Record(n, released)
  \/ \E pressed \in BOOLEAN : Process(pressed)
  \/ PlayError \/ PlayCancelled
  \/ \E dry \in BOOLEAN : Play(dry)
  \/ Acknowledge

VoiceTurn ==
  \/ Connect \/ Upload \/ UploadBreaks \/ Check \/ UploadAnswered \/ UploadUnanswered
  \/ Deadline \/ Lookup \/ Poll \/ Refused
  \/ \E answered \in BOOLEAN : Cancel(answered)
  \/ Download \/ DownloadChunk \/ DownloadBreaks \/ DownloadStops \/ DownloadEnds
  \/ Leave

GatewaySteps ==
  \E r \in Requests : GatewayAccepts(r) \/ GatewayDrops(r) \/ GatewayWorks(r)

Next == MainLoop \/ VoiceTurn \/ GatewaySteps \/ Reboot

Spec == Init /\ [][Next]_vars

\* What the device does by itself: both tasks run, the recording ends at its
\* limit, the speaker runs dry, every network call returns within its
\* timeout.  The clock passes the deadline and stays past it: the task cannot
\* come back to compare them for ever, hence the strong fairness.  Nothing is
\* assumed of the gateway: a turn that ends, ends without its help.
LocalFairness ==
  /\ WF_vars(Boot)
  /\ WF_vars(OverflowSeen) /\ WF_vars(OverflowReported) /\ WF_vars(RecordingFails)
  /\ WF_vars(Record(0, TRUE))
  /\ WF_vars(Process(FALSE))
  /\ WF_vars(PlayCancelled) /\ WF_vars(Play(TRUE)) /\ WF_vars(TurnFailed /\ PlayError)
  /\ WF_vars(Connect) /\ WF_vars(Upload) /\ WF_vars(Check)
  /\ WF_vars(UploadAnswered \/ UploadUnanswered)
  /\ SF_vars(Deadline)
  /\ WF_vars(DownloadBreaks \/ DownloadStops \/ DownloadEnds)
  /\ WF_vars(Leave)

\* Beyond that: the gateway is reachable, so that a cancel is answered in the
\* end, and the user acknowledges an error.
OnlineFairness ==
  /\ WF_vars(Cancel(TRUE))
  /\ WF_vars(Acknowledge)

LocalSpec == Spec /\ LocalFairness
OnlineSpec == LocalSpec /\ OnlineFairness

-----------------------------------------------------------------------------
(* Safety.                                                                 *)

\* What the gateway accepts is the whole recording: one that overflowed, or
\* whose upload failed half way, never becomes a turn.
WholeOrNothing == \A r \in Requests : body[r] # "cut"

\* The device never records into nothing: while it records, the task uploads
\* this recording or has reported that it cannot.
RecordingHasTask ==
  state = "RECORDING" =>
    \/ mine = ids.req /\ pc \in Uploading
    \/ mine = ids.req /\ failed

\* What is played is the reply of the turn the device is on: no flag or audio
\* left by an earlier turn lets one pass for another.
PlaysOwnReply ==
  state = "PLAYING" => turn[mine] = "ready" /\ (ids.req = mine \/ mine \in givenUp)

\* A reboot loses no turn: whatever the gateway still has in hand is the saved
\* request, unless the device has reported its end to the user.
OpenTurnIsSaved ==
  \A r \in Requests :
    turn[r] \in {"receiving", "accepted", "working"} /\ r \notin givenUp => nvs.req = r

-----------------------------------------------------------------------------
(* Liveness.                                                               *)

\* Whatever the gateway does, a turn nobody cancels leaves PROCESSING, at the
\* latest at the deadline.  The exceptions are the findings below.
UncancelledTurnEnds ==
  state = "PROCESSING" ~>
    state # "PROCESSING" \/ cancel \/ overflow \/ result = "cancelled"

\* With a gateway that answers in the end, an error can always be
\* acknowledged: the task it leaves behind, a download nobody takes audio
\* from included, ends.
ErrorClears == OnlineFairness => (state = "ERROR" ~> state # "ERROR")

-----------------------------------------------------------------------------
(* What the documents and comments say and the code does not keep.         *)

\* A cancelled turn takes the device out of PROCESSING.  The transition to
\* IDLE that app_tick asks for is not in the table.
CancelLeavesProcessing ==
  state = "PROCESSING" /\ result = "cancelled" ~> state # "PROCESSING"
=============================================================================
