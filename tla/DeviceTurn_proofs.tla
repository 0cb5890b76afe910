------------------------- MODULE DeviceTurn_proofs -------------------------
(***************************************************************************)
(* The device's half of a turn, for every set of requests and every size   *)
(* of ring, stream, recording and reply: whatever the two tasks, the       *)
(* gateway, the NVS and a reboot do to each other, what the gateway        *)
(* accepts is the whole recording, a recording has its task, what is       *)
(* played is the reply of this turn, and no turn is lost.                  *)
(*                                                                         *)
(* The properties follow from one inductive invariant, IInv: TypeOK, and   *)
(* seven parts, each preserved with the help of a few of the others.  The  *)
(* steps are first sorted into kinds (Looks, GoesOn, GivesUp, ...) that    *)
(* say what the names, the flags and the place of the task may do.         *)
(***************************************************************************)
EXTENDS DeviceTurn, TLAPS

Sending == {"connecting", "uploading", "checking"}
Idle == {"none", "leaving"}

\* The task is there exactly while its flag says so, and not before BOOT ends.
TaskInv ==
  /\ active <=> pc # "none"
  /\ state = "BOOT" => pc = "none" /\ ids = nvs

\* A recording is not finished before it is over; once it is, and was not given
\* up, all of it has left the ring.  Until then no chunk is in two places, and
\* none is lost but by an overflow.
SendInv ==
  /\ overflow => ring = RingSize
  /\ state = "RECORDING" => ~finished
  /\ pc \notin Sending \cup Idle => finished
  /\ pc \in Sending /\ finished /\ ~failed => ring = 0 /\ ~overflow
  /\ pc \in Sending =>
       /\ sent + outgoing + ring <= captured
       /\ ~overflow => sent + outgoing + ring = captured

\* No upload was closed over a part of a recording.
WholeInv == \A r \in Requests : link[r] # "cut" /\ body[r] # "cut"

\* The task works for the request in RAM and in NVS; one that has no more to do
\* was reported to the user.
NameInv ==
  /\ {ids.req, nvs.req, mine} \subseteq minted \cup {NoRequest}
  /\ pc \notin Idle => mine # NoRequest /\ ids.req = mine /\ nvs.req = mine
  /\ pc \in Idle => mine \in givenUp \cup {NoRequest}
  /\ state = "RECORDING" => mine = ids.req /\ (pc \in Uploading \/ failed)

\* Audio comes of a turn that is ready, and of the one the device is on.
ReplyInv ==
  /\ pc \in {"pending", "downloading"} => turn[mine] = "ready"
  /\ started => /\ mine # NoRequest /\ turn[mine] = "ready"
                /\ ids.req = mine \/ mine \in givenUp
  /\ state = "PLAYING" => started

\* What the gateway has begun is the saved request or was reported.
SavedInv ==
  /\ \A r \in Requests \ minted : turn[r] = "open"
  /\ pc \in Idle /\ state # "BOOT" =>
       nvs.req \in givenUp \cup {NoRequest} \/ turn[nvs.req] = "open"
  /\ OpenTurnIsSaved

\* No chunk of the reply is counted twice: a download starts again only before
\* anything was handed on.
AudioInv ==
  /\ played + incoming <= ReplySize
  /\ pc = "downloading" => played + incoming <= got
  /\ pc # "none" /\ ~started => played = 0 /\ incoming = 0
  /\ pc \in Uploading \cup Polling /\ started => pc = "pending" /\ cancel

\* TypeOK in groups.
NamesOK ==
  /\ nvs \in Ids /\ ids \in Ids
  /\ mine \in Requests \cup {NoRequest}
  /\ minted \subseteq Requests /\ givenUp \subseteq minted
PlacesOK == state \in States /\ result \in Results /\ pc \in Places
FlagsOK ==
  /\ overflow \in BOOLEAN /\ halting \in BOOLEAN /\ cancel \in BOOLEAN /\ started \in BOOLEAN
  /\ finished \in BOOLEAN /\ failed \in BOOLEAN /\ storage \in BOOLEAN /\ active \in BOOLEAN
GatewayOK ==
  /\ link \in [Requests -> {"none", "open", "whole", "cut", "gone"}]
  /\ turn \in [Requests -> {"open", "receiving", "accepted", "working"} \cup Gateway!Outcomes]
  /\ body \in [Requests -> {"whole", "cut", NoAudio}]
SizesOK ==
  /\ ring \in 0 .. RingSize /\ outgoing \in 0 .. StreamSize
  /\ incoming \in 0 .. StreamSize
  /\ captured \in 0 .. MaxRecord /\ sent \in 0 .. MaxRecord
  /\ got \in 0 .. ReplySize /\ played \in 0 .. ReplySize

IInv == TypeOK /\ TaskInv /\ SendInv /\ WholeInv /\ NameInv /\ ReplyInv /\ SavedInv /\ AudioInv

USE DEF flags, streams, recorder, task, gateway, history

-----------------------------------------------------------------------------
(* The kinds of steps.                                                     *)

\* The main loop looks at the turn, and at most moves between its states.
Looks ==
  /\ UNCHANGED <<nvs, ids, started, storage, result, active, task, link, gateway, minted, givenUp>>
  /\ "BOOT" \notin {state, state'}
  /\ failed => failed'
  /\ state' = "RECORDING" => state = "RECORDING"
  /\ state' = "PLAYING" => state = "PLAYING" \/ started

\* The task goes on with its turn.
GoesOn ==
  /\ {pc, pc'} \cap Idle = {}
  /\ pc \in Sending => pc' \in Uploading
  /\ pc' \in {"pending", "downloading"} => pc \in {"pending", "downloading"} \/ turn[mine] = "ready"
  /\ started => started'
  /\ started' => started \/ pc = "downloading"
  /\ ids' \in {ids, [ids EXCEPT !.tid = TRUE]} /\ nvs' \in {nvs, ids'}
  /\ UNCHANGED <<finished, failed, active, mine, givenUp>>

\* The task ends its turn, and clears the saved ids or leaves them.
GivesUp ==
  /\ pc \notin Idle /\ pc' = "leaving"
  /\ nvs' \in {nvs, NoIds} /\ ids' \in {ids, NoIds}
  /\ UNCHANGED <<started, finished, active, mine>>
  /\ failed \/ pc \in Uploading => failed'
  /\ pc \in Uploading => ids' = ids
  /\ givenUp' = givenUp \cup {mine}

LEMMA MainLoopLooks ==
  ASSUME MainLoop,
         ~Boot, ~BootFails, \A r \in Requests : ~Press(r)
  PROVE  Looks
<1> USE DEF Looks, EnterState, Step, ValidTransition
<1>1. CASE PressRefused
  BY <1>1 DEF PressRefused
<1>2. CASE OverflowSeen
  BY <1>2 DEF OverflowSeen
<1>3. CASE OverflowReported
  BY <1>3 DEF OverflowReported
<1>4. CASE RecordingFails
  BY <1>4 DEF RecordingFails
<1>5. ASSUME NEW n, NEW released, Record(n, released) PROVE Looks
  BY <1>5 DEF Record
<1>6. ASSUME NEW pressed, Process(pressed) PROVE Looks
  BY <1>6 DEF Process
<1>7. CASE PlayError
  BY <1>7 DEF PlayError
<1>8. CASE PlayCancelled
  BY <1>8 DEF PlayCancelled
<1>9. ASSUME NEW dry, Play(dry) PROVE Looks
  BY <1>9 DEF Play
<1>10. CASE Acknowledge
  BY <1>10 DEF Acknowledge
<1> QED
  BY <1>1, <1>2, <1>3, <1>4, <1>5, <1>6, <1>7, <1>8, <1>9, <1>10 DEF MainLoop

LEMMA GoesOnNames ==
  ASSUME NamesOK, GoesOn
  PROVE  /\ ids' \in Ids /\ nvs' \in Ids
         /\ ids'.req = ids.req /\ nvs'.req \in {nvs.req, ids.req}
<1>1. ids' \in {ids, [ids EXCEPT !.tid = TRUE]} /\ nvs' \in {nvs, ids'}
  BY DEF GoesOn
<1>2. ids \in Ids /\ nvs \in Ids
  BY DEF NamesOK
<1>3. ids' \in Ids /\ ids'.req = ids.req
  BY <1>1, <1>2 DEF Ids
<1> QED
  BY <1>1, <1>2, <1>3

\* finish of voice_turn_client, and UploadFails, end a turn.
LEMMA FinishGivesUp ==
  ASSUME NEW how, Finish(how), pc \in Polling \cup {"downloading"}
  PROVE  GivesUp
<1>1. nvs' \in {nvs, NoIds} /\ ids' = NoIds
  BY DEF Finish, ClearIds, Saved, NotSaved
<1>2. Return(how)
  BY DEF Finish
<1> QED
  BY <1>1, <1>2 DEF Return, GivesUp, Polling, Uploading, Idle

LEMMA UploadFailsGivesUp ==
  ASSUME UploadFails, UNCHANGED <<nvs, ids>>, pc \in Uploading
  PROVE  GivesUp
  BY DEF UploadFails, GivesUp, Uploading, Idle

LEMMA UploadSteps ==
  ASSUME Connect \/ Upload \/ UploadBreaks \/ Check \/ UploadAnswered \/ UploadUnanswered
  PROVE  UNCHANGED <<state, minted>> /\ (GoesOn \/ GivesUp)
<1>1. CASE Connect \/ Upload \/ UploadBreaks \/ Check \/ UploadUnanswered
  <2>1. /\ UNCHANGED <<nvs, state, ids>> /\ pc \in Uploading
        /\ \/ UploadFails
           \/ pc' \in Uploading /\ UNCHANGED <<flags, mine, history>>
    BY <1>1, Zenon DEF Connect, Upload, UploadBreaks, Check, UploadUnanswered, Uploading
  <2>2. CASE UploadFails
    BY <2>1, <2>2, UploadFailsGivesUp DEF UploadFails
  <2>3. CASE pc' \in Uploading /\ UNCHANGED <<flags, mine, history>>
    BY <2>1, <2>3 DEF GoesOn, Uploading, Idle
  <2> QED
    BY <2>1, <2>2, <2>3
<1>2. CASE UploadAnswered
  BY <1>2 DEF UploadAnswered, Saved, NotSaved, GoesOn, Idle, Sending
<1> QED
  BY <1>1, <1>2

LEMMA StatusReady == ASSUME NEW t, Status(t) = "ready" PROVE t = "ready"
  BY Zenon DEF Status

LEMMA ClientSteps ==
  ASSUME \/ Deadline \/ Lookup \/ Poll \/ Refused \/ \E answered \in BOOLEAN : Cancel(answered)
         \/ Download \/ DownloadChunk \/ DownloadBreaks \/ DownloadStops \/ DownloadEnds
  PROVE  UNCHANGED <<state, minted>> /\ (GoesOn \/ GivesUp)
<1> DEFINE Ends == \E how \in {"failed", "cancelled", "ready"} : Finish(how)
<1>1. ASSUME Ends, UNCHANGED state, pc \in Polling \cup {"downloading"}
      PROVE  UNCHANGED <<state, minted>> /\ GivesUp
  BY <1>1, FinishGivesUp DEF Finish, Return
<1>2. CASE Deadline \/ Refused
  BY <1>1, <1>2, Zenon DEF Deadline, Refused
<1>3. CASE Lookup
  <2>1. UNCHANGED state /\ pc = "polling"
    BY <1>3 DEF Lookup
  <2>2. CASE Saved([ids EXCEPT !.tid = TRUE]) /\ UNCHANGED <<flags, pc, mine, sent, got, history>>
    BY <2>1, <2>2 DEF Saved, GoesOn, Idle, Sending
  <2>3. CASE (Saved(NoIds) \/ NotSaved(NoIds)) /\ Return("failed")
    BY <2>1, <2>3 DEF Saved, NotSaved, Return, GivesUp, Idle, Uploading
  <2>4. CASE Finish("failed")
    BY <1>1, <2>1, <2>4 DEF Polling
  <2> QED
    BY <1>3, <2>2, <2>3, <2>4 DEF Lookup
<1>4. CASE Poll
  <2>1. UNCHANGED state /\ pc = "polling"
    BY <1>4 DEF Poll
  <2>2. CASE /\ Status(turn[mine]) = "ready" /\ pc' = "pending"
             /\ UNCHANGED <<nvs, ids, flags, mine, sent, got, history>>
    BY <2>1, <2>2, StatusReady DEF GoesOn, Idle, Sending
  <2>3. CASE Status(turn[mine]) \in {"failed", "cancelled"} /\ Finish(Status(turn[mine]))
    BY <1>1, <2>1, <2>3 DEF Polling
  <2> QED
    BY <1>4, <2>2, <2>3 DEF Poll
<1>5. ASSUME NEW answered \in BOOLEAN, Cancel(answered)
      PROVE  UNCHANGED <<state, minted>> /\ (GoesOn \/ GivesUp)
  <2>1. /\ UNCHANGED state /\ pc \in Polling
        /\ Finish("cancelled") \/ UNCHANGED <<nvs, ids, flags, task, history>>
    BY <1>5 DEF Cancel
  <2>2. CASE Finish("cancelled")
    BY <1>1, <2>1, <2>2
  <2>3. CASE UNCHANGED <<nvs, ids, flags, task, history>>
    BY <2>1, <2>3 DEF GoesOn, Idle, Sending, Polling
  <2> QED
    BY <2>1, <2>2, <2>3
<1>6. CASE Download \/ DownloadChunk \/ DownloadStops
  BY <1>6 DEF Download, DownloadChunk, DownloadStops, GoesOn, Idle, Sending
<1>7. CASE DownloadBreaks
  <2>1. UNCHANGED state /\ pc = "downloading"
    BY <1>7 DEF DownloadBreaks
  <2>2. CASE Finish("failed")
    BY <1>1, <2>1, <2>2
  <2>3. CASE pc' = "pending" /\ UNCHANGED <<nvs, ids, flags, mine, sent, got, history>>
    BY <2>1, <2>3 DEF GoesOn, Idle, Sending
  <2> QED
    BY <1>7, <2>2, <2>3 DEF DownloadBreaks
<1>8. CASE DownloadEnds
  BY <1>1, <1>8 DEF DownloadEnds
<1> QED
  BY <1>2, <1>3, <1>4, <1>5, <1>6, <1>7, <1>8

-----------------------------------------------------------------------------
(* The other steps, as far as the invariant cares.                         *)

LEMMA BootSteps ==
  ASSUME Boot \/ BootFails
  PROVE  /\ state = "BOOT" /\ UNCHANGED <<nvs, ids, link, gateway, minted>>
         /\ \/ /\ ids.req = NoRequest /\ state' = "IDLE"
               /\ UNCHANGED <<flags, task, givenUp>>
            \/ /\ ids.req # NoRequest /\ state' = "PROCESSING"
               /\ pc' = "polling" /\ mine' = ids.req /\ active' /\ ~started' /\ finished'
               /\ givenUp' = givenUp
            \/ /\ ids.req # NoRequest /\ state' = "ERROR"
               /\ UNCHANGED task
               /\ UNCHANGED <<active, started, finished, failed>> \/ (~active' /\ ~started' /\ finished')
               /\ givenUp' = givenUp \cup {ids.req}
<1> USE DEF EnterState, Step, ValidTransition
<1>1. CASE BootFails
  BY <1>1 DEF BootFails
<1>2. CASE Boot /\ ids.req = NoRequest
  BY <1>2 DEF Boot
<1>3. CASE Boot /\ ids.req # NoRequest
  <2>1. /\ state = "BOOT" /\ UNCHANGED <<nvs, ids, link, gateway, minted>>
        /\ StartWorker(ids.req, FALSE)
        /\ EnterState(IF active' THEN "PROCESSING" ELSE "ERROR")
        /\ givenUp' = IF active' THEN givenUp ELSE givenUp \cup {ids.req}
    BY <1>3 DEF Boot
  <2>2. CASE active'
    BY <1>3, <2>1, <2>2 DEF StartWorker, AudioStartedReset
  <2>3. CASE ~active'
    BY <1>3, <2>1, <2>3 DEF StartWorker, AudioStartedReset
  <2> QED
    BY <2>2, <2>3
<1> QED
  BY <1>1, <1>2, <1>3

LEMMA PressSteps ==
  ASSUME NEW r \in Requests, Press(r)
  PROVE  /\ state = "IDLE" /\ r \notin minted /\ ~active
         /\ minted' = minted \cup {r} /\ UNCHANGED <<link, gateway, givenUp>>
         /\ ids'.req = r
         /\ \/ /\ nvs' = ids' /\ state' = "RECORDING" /\ ResetRecorder
               /\ pc' = "connecting" /\ mine' = r /\ active' /\ ~started' /\ ~finished'
               /\ outgoing' = 0 /\ sent' = 0
            \/ /\ nvs' = ids' /\ state' = "ERROR" /\ ResetRecorder
               /\ UNCHANGED task /\ ~active' /\ ~started'
            \/ /\ nvs' = nvs /\ state' = "ERROR"
               /\ UNCHANGED <<recorder, flags, streams, task, played>>
<1> DEFINE new == [req |-> r, tid |-> FALSE]
<1> USE DEF EnterState, Step, ValidTransition
<1>1. /\ state = "IDLE" /\ r \notin minted /\ ~active
      /\ minted' = minted \cup {r} /\ UNCHANGED <<link, gateway, givenUp>>
  BY DEF Press, CanRecord
<1>2. CASE /\ Saved(new) /\ ResetRecorder /\ StartWorker(r, TRUE)
           /\ EnterState(IF active' THEN "RECORDING" ELSE "ERROR")
  <2>1. ids'.req = r /\ nvs' = ids'
    BY <1>2 DEF Saved
  <2>2. CASE active'
    BY <1>1, <1>2, <2>1, <2>2 DEF StartWorker, AudioStartedReset
  <2>3. CASE ~active'
    BY <1>1, <1>2, <2>1, <2>3 DEF StartWorker, AudioStartedReset
  <2> QED
    BY <2>2, <2>3
<1>3. CASE /\ NotSaved(new) /\ EnterState("ERROR")
           /\ UNCHANGED <<recorder, flags, streams, task, played>>
  BY <1>1, <1>3 DEF NotSaved
<1> QED
  BY <1>1, <1>2, <1>3 DEF Press

\* What the gateway has in hand.
Hand == {"receiving", "accepted", "working"}

\* The gateway takes nothing back, and begins only what the device sends it.
LEMMA TurnSteps ==
  ASSUME GatewayOK, [Next]_vars, NEW r \in Requests
  PROVE  /\ turn[r] = "ready" => turn'[r] = "ready"
         /\ \/ r = mine /\ pc = "connecting" /\ pc' = "uploading"
            \/ /\ turn[r] = "open" => turn'[r] = "open"
               /\ turn'[r] \in Hand => turn[r] \in Hand
<1> DEFINE Kept == /\ turn[r] = "ready" => turn'[r] = "ready"
                   /\ turn[r] = "open" => turn'[r] = "open"
                   /\ turn'[r] \in Hand => turn[r] \in Hand
<1> USE DEF Hand
<1>1. ASSUME UNCHANGED turn PROVE Kept
  BY <1>1
<1>2. CASE MainLoop \/ Reboot \/ UNCHANGED vars
  <2>1. UNCHANGED turn
    BY <1>2, Zenon DEF MainLoop, Boot, BootFails, Press, PressRefused, OverflowSeen, OverflowReported,
       RecordingFails, Record, Process, PlayError, PlayCancelled, Play, Acknowledge, Reboot, vars
  <2> QED
    BY <1>1, <2>1
<1>3. CASE Connect
  <2>1. CASE UNCHANGED gateway
    BY <1>1, <2>1
  <2>2. CASE Gateway!Receive(mine) /\ pc' = "uploading"
    BY <1>3, <2>2 DEF Connect, Gateway!Receive, GatewayOK
  <2> QED
    BY <1>3, <2>1, <2>2 DEF Connect
<1>4. ASSUME NEW answered \in BOOLEAN, Cancel(answered) PROVE Kept
  <2>1. Gateway!Settle(mine, "cancelled") \/ UNCHANGED gateway
    BY <1>4 DEF Cancel, CancelPosted
  <2> QED
    BY <2>1 DEF Gateway!Settle, GatewayOK
<1>5. CASE \/ Upload \/ UploadBreaks \/ Check \/ UploadAnswered \/ UploadUnanswered
           \/ Deadline \/ Lookup \/ Poll \/ Refused \/ Download \/ DownloadChunk
           \/ DownloadBreaks \/ DownloadStops \/ DownloadEnds \/ Leave
  <2>1. UNCHANGED turn
    BY <1>5, Zenon DEF Upload, UploadBreaks, Check, UploadAnswered, UploadUnanswered,
       Deadline, Lookup, Poll, Refused, Download, DownloadChunk, DownloadBreaks, DownloadStops,
       DownloadEnds, Leave
  <2> QED
    BY <1>1, <2>1
<1>6. ASSUME NEW q \in Requests, GatewayAccepts(q) \/ GatewayDrops(q) \/ GatewayWorks(q)
      PROVE  Kept
  BY <1>6 DEF GatewayAccepts, GatewayDrops, GatewayWorks, Gateway!Accept, Gateway!Drop,
     Gateway!Work, Gateway!Settle, Gateway!Outcomes, GatewayOK
<1> QED
  BY <1>2, <1>3, <1>4, <1>5, <1>6 DEF Next, VoiceTurn, GatewaySteps

LEMMA StepKinds ==
  ASSUME [Next]_vars
  PROVE  \/ Looks
         \/ Boot \/ BootFails
         \/ \E r \in Requests : Press(r)
         \/ UNCHANGED <<state, minted>> /\ GoesOn
         \/ UNCHANGED <<state, minted>> /\ GivesUp
         \/ Leave
         \/ GatewaySteps
         \/ Reboot
         \/ UNCHANGED vars
  BY MainLoopLooks, UploadSteps, ClientSteps, Zenon DEF Next, VoiceTurn

LEMMA GatewayFrame ==
  ASSUME GatewaySteps
  PROVE  UNCHANGED <<nvs, state, ids, recorder, flags, streams, task, history>>
  BY Zenon DEF GatewaySteps, GatewayAccepts, GatewayDrops, GatewayWorks

-----------------------------------------------------------------------------
(* The parts of the invariant.                                             *)

LEMMA NextTaskInv ==
  ASSUME NamesOK, TaskInv, [Next]_vars
  PROVE  TaskInv'
<1> USE DEF TaskInv, Idle
<1>1. CASE Looks
  BY <1>1 DEF Looks
<1>2. CASE Boot \/ BootFails
  BY <1>2, BootSteps
<1>3. ASSUME NEW r \in Requests, Press(r) PROVE TaskInv'
  BY <1>3, PressSteps
<1>4. CASE UNCHANGED <<state, minted>> /\ GoesOn
  BY <1>4 DEF GoesOn
<1>5. CASE UNCHANGED <<state, minted>> /\ GivesUp
  BY <1>5 DEF GivesUp
<1>6. CASE Leave
  BY <1>6 DEF Leave
<1>7. CASE GatewaySteps
  BY <1>7, GatewayFrame
<1>8. CASE Reboot
  BY <1>8 DEF Reboot
<1>9. CASE UNCHANGED vars
  BY <1>9 DEF vars
<1> QED
  BY <1>1, <1>2, <1>3, <1>4, <1>5, <1>6, <1>7, <1>8, <1>9, StepKinds

LEMMA NextNamesOK ==
  ASSUME NamesOK, TaskInv, NameInv, [Next]_vars
  PROVE  NamesOK'
<1>1. UNCHANGED <<nvs, ids, mine, minted, givenUp>> => NamesOK'
  BY DEF NamesOK
<1>2. NoIds \in Ids
  BY DEF NoIds, Ids
<1>3. CASE Looks
  BY <1>1, <1>3 DEF Looks
<1>4. CASE Boot \/ BootFails
  <2>1. ids.req \in Requests \cup {NoRequest} /\ (ids.req # NoRequest => ids.req \in minted)
    BY DEF NamesOK, NameInv, Ids
  <2> QED
    BY <1>4, <2>1, BootSteps DEF NamesOK
<1>5. ASSUME NEW r \in Requests, Press(r) PROVE NamesOK'
  <2>1. [req |-> r, tid |-> FALSE] \in Ids
    BY DEF Ids
  <2>2. ids' \in Ids /\ nvs' \in Ids
    BY <1>5, <2>1 DEF Press, Saved, NotSaved, NamesOK
  <2> QED
    BY <1>5, <2>2, PressSteps DEF NamesOK
<1>6. CASE UNCHANGED <<state, minted>> /\ GoesOn
  BY <1>6, GoesOnNames DEF GoesOn, NamesOK
<1>7. CASE UNCHANGED <<state, minted>> /\ GivesUp
  BY <1>2, <1>7 DEF GivesUp, NamesOK, NameInv
<1>8. CASE Leave
  BY <1>1, <1>8 DEF Leave
<1>9. CASE GatewaySteps
  BY <1>1, <1>9, GatewayFrame
<1>10. CASE Reboot
  BY <1>10 DEF Reboot, NamesOK
<1>11. CASE UNCHANGED vars
  BY <1>1, <1>11 DEF vars
<1> QED
  BY <1>3, <1>4, <1>5, <1>6, <1>7, <1>8, <1>9, <1>10, <1>11, StepKinds

LEMMA NextNameInv ==
  ASSUME NamesOK, TaskInv, SendInv, NameInv, [Next]_vars
  PROVE  NameInv'
<1> USE DEF NameInv, Idle
<1>1. CASE Looks
  BY <1>1 DEF Looks
<1>2. CASE Boot \/ BootFails
  BY <1>2, BootSteps DEF TaskInv
<1>3. ASSUME NEW r \in Requests, Press(r) PROVE NameInv'
  BY <1>3, PressSteps, DeviceTurnAssumption DEF TaskInv, Uploading
<1>4. CASE UNCHANGED <<state, minted>> /\ GoesOn
  BY <1>4, GoesOnNames DEF GoesOn, SendInv, Sending, Uploading
<1>5. CASE UNCHANGED <<state, minted>> /\ GivesUp
  BY <1>5 DEF GivesUp, NoIds, SendInv, Sending, Uploading
<1>6. CASE Leave
  BY <1>6 DEF Leave, Uploading
<1>7. CASE GatewaySteps
  BY <1>7, GatewayFrame
<1>8. CASE Reboot
  BY <1>8 DEF Reboot
<1>9. CASE UNCHANGED vars
  BY <1>9 DEF vars
<1> QED
  BY <1>1, <1>2, <1>3, <1>4, <1>5, <1>6, <1>7, <1>8, <1>9, StepKinds

\* A turn that is ready stays so, and the request is given up before another
\* takes its place.
LEMMA NextReplyInv ==
  ASSUME NamesOK, GatewayOK, TaskInv, NameInv, ReplyInv, [Next]_vars
  PROVE  ReplyInv'
<1>1. mine # NoRequest /\ turn[mine] = "ready" => turn'[mine] = "ready"
  BY TurnSteps DEF NamesOK
<1> USE DEF ReplyInv, NameInv, Idle
<1>2. CASE Looks
  BY <1>2 DEF Looks
<1>3. CASE Boot \/ BootFails
  BY <1>3, BootSteps DEF TaskInv
<1>4. ASSUME NEW r \in Requests, Press(r) PROVE ReplyInv'
  BY <1>4, PressSteps DEF TaskInv
<1>5. CASE UNCHANGED <<state, minted>> /\ GoesOn
  <2>1. /\ pc \notin Idle /\ ids'.req = ids.req /\ mine' = mine /\ UNCHANGED state
        /\ pc' \in {"pending", "downloading"} => pc \in {"pending", "downloading"} \/ turn[mine] = "ready"
        /\ started' => started \/ pc = "downloading"
    BY <1>5, GoesOnNames DEF GoesOn
  <2>2. state = "PLAYING" => started'
    BY <1>5 DEF GoesOn
  <2> QED
    BY <1>1, <2>1, <2>2
<1>6. CASE UNCHANGED <<state, minted>> /\ GivesUp
  BY <1>1, <1>6 DEF GivesUp
<1>7. CASE Leave
  BY <1>7 DEF Leave
<1>8. CASE GatewaySteps
  BY <1>1, <1>8, GatewayFrame
<1>9. CASE Reboot
  BY <1>9 DEF Reboot
<1>10. CASE UNCHANGED vars
  BY <1>10 DEF vars
<1> QED
  BY <1>2, <1>3, <1>4, <1>5, <1>6, <1>7, <1>8, <1>9, <1>10, StepKinds

\* Only the request the task works on gets into the gateway's hands, and it is
\* in NVS; it leaves NVS once it was given up.
LEMMA NextSavedInv ==
  ASSUME NamesOK, GatewayOK, TaskInv, NameInv, SavedInv, NameInv', [Next]_vars
  PROVE  SavedInv'
<1> DEFINE Sent(r) == r = mine /\ pc = "connecting" /\ pc' = "uploading"
<1>1. ASSUME NEW r \in Requests
      PROVE  \/ Sent(r)
             \/ /\ turn[r] = "open" => turn'[r] = "open"
                /\ turn'[r] \in Hand => turn[r] \in Hand
  BY <1>1, TurnSteps
<1>2. nvs.req \in Requests \cup {NoRequest} /\ mine \in Requests \cup {NoRequest}
  BY DEF NamesOK, Ids
<1> USE DEF SavedInv, OpenTurnIsSaved, NameInv, Idle
<1>3. ASSUME UNCHANGED <<nvs, turn, givenUp>>, minted \subseteq minted',
             pc' \in Idle /\ state' # "BOOT" => pc \in Idle /\ state # "BOOT"
      PROVE  SavedInv'
  BY <1>3
<1>4. CASE Looks
  BY <1>3, <1>4 DEF Looks
<1>5. CASE Boot \/ BootFails
  BY <1>5, BootSteps DEF TaskInv
<1>6. ASSUME NEW r \in Requests, Press(r) PROVE SavedInv'
  <2>1. pc = "none" /\ state = "IDLE"
    BY <1>6, PressSteps DEF TaskInv
  <2>2. \A q \in Requests : turn[q] \in Hand => q \in givenUp
    BY <2>1, DeviceTurnAssumption DEF Hand
  <2>3. /\ UNCHANGED <<turn, givenUp>> /\ turn[r] = "open" /\ minted' = minted \cup {r}
        /\ pc' = "none" => nvs' = nvs \/ nvs'.req = r
    BY <1>6, <2>1, PressSteps
  <2>4. pc' \in {"none", "connecting"}
    BY <1>6, <2>1, PressSteps
  <2> QED
    BY <1>2, <2>1, <2>2, <2>3, <2>4 DEF Hand
<1>7. CASE UNCHANGED <<state, minted>> /\ GoesOn
  <2>1. UNCHANGED givenUp /\ pc' \notin Idle /\ nvs'.req = nvs.req
    BY <1>7, GoesOnNames DEF GoesOn
  <2> QED
    BY <1>1, <1>2, <1>7, <2>1 DEF Hand
<1>8. CASE UNCHANGED <<state, minted>> /\ GivesUp
  <2>1. /\ pc' = "leaving" /\ givenUp' = givenUp \cup {mine} /\ nvs.req = mine
        /\ nvs'.req \in {mine, NoRequest}
    BY <1>8 DEF GivesUp, NoIds
  <2> QED
    BY <1>1, <1>2, <1>8, <2>1 DEF Hand
<1>9. CASE Leave
  BY <1>3, <1>9 DEF Leave
<1>10. CASE GatewaySteps
  <2>1. UNCHANGED <<nvs, state, pc, minted, givenUp>>
    BY <1>10, GatewayFrame
  <2> QED
    BY <1>1, <1>2, <2>1 DEF Hand
<1>11. CASE Reboot
  BY <1>11 DEF Reboot
<1>12. CASE UNCHANGED vars
  BY <1>3, <1>12 DEF vars
<1> QED
  BY <1>4, <1>5, <1>6, <1>7, <1>8, <1>9, <1>10, <1>11, <1>12, StepKinds

\* What no step of the client of a turn, of the gateway or of the speaker touches.
Recording == <<ring, overflow, captured, finished, sent, outgoing>>

LEMMA SameRecording ==
  ASSUME SendInv, UNCHANGED Recording, failed => failed',
         state' = "RECORDING" => state = "RECORDING",
         pc' = pc \/ pc' \in Idle \/ {pc, pc'} \cap (Sending \cup Idle) = {} \/
           ({pc, pc'} \subseteq Sending)
  PROVE  SendInv'
  BY DEF SendInv, Recording, Idle, Sending

LEMMA ClientKeepsRecording ==
  ASSUME \/ Deadline \/ Lookup \/ Poll \/ Refused \/ \E answered \in BOOLEAN : Cancel(answered)
         \/ Download \/ DownloadChunk \/ DownloadBreaks \/ DownloadStops \/ DownloadEnds
  PROVE  /\ UNCHANGED <<Recording, failed, body>> /\ pc \notin Sending \cup Idle
         /\ UNCHANGED link /\ (pc' = pc \/ pc' \in {"leaving", "polling", "pending", "downloading"})
  BY Zenon DEF Deadline, Lookup, Poll, Refused, Cancel, CancelPosted, Gateway!Settle,
     Download, DownloadChunk, DownloadBreaks, DownloadStops, DownloadEnds,
     Finish, Return, Recording, Sending, Idle, Polling

\* Chunks move from the ring to the stream and from there to the connection; the
\* end of the recording is declared by the main loop when the ring is empty.
LEMMA NextSendInv ==
  ASSUME SizesOK, TaskInv, SendInv, [Next]_vars
  PROVE  SendInv'
<1>1. CASE Boot \/ BootFails
  <2>1. UNCHANGED recorder
    BY <1>1 DEF Boot, BootFails
  <2> QED
    BY <1>1, <2>1, BootSteps DEF TaskInv, SendInv, Sending, Idle
<1>2. ASSUME NEW r \in Requests, Press(r) PROVE SendInv'
  <2>1. pc = "none" /\ state = "IDLE"
    BY <1>2, PressSteps DEF TaskInv
  <2>2. \/ pc' = "connecting" /\ ~finished' /\ outgoing' = 0 /\ sent' = 0 /\ ResetRecorder
        \/ pc' = "none" /\ state' = "ERROR" /\ (ResetRecorder \/ UNCHANGED recorder)
    BY <1>2, <2>1, PressSteps
  <2>3. ResetRecorder => ring' = 0 /\ ~overflow' /\ captured' = 0
    BY DEF ResetRecorder
  <2> QED
    BY <2>1, <2>2, <2>3, DeviceTurnAssumption DEF SendInv, Sending, Idle
<1>3. CASE PressRefused \/ RecordingFails \/ PlayCancelled \/ Acknowledge
  <2>1. UNCHANGED <<Recording, failed, pc>> /\ (state' = "RECORDING" => state = "RECORDING")
    BY <1>3 DEF PressRefused, RecordingFails, PlayCancelled, Acknowledge, EnterState, Step,
       ValidTransition, Recording
  <2> QED
    BY <2>1, SameRecording
<1>4. CASE OverflowSeen
  BY <1>4 DEF OverflowSeen, HaltedFlags, SendInv
<1>5. CASE OverflowReported
  BY <1>5 DEF OverflowReported, EnterState, Step, ValidTransition, SendInv
<1>6. ASSUME NEW n \in 0 .. 1, NEW released \in BOOLEAN, Record(n, released) PROVE SendInv'
  <2>1. /\ state = "RECORDING" /\ ~overflow /\ captured' = captured + n
        /\ finished' = finished /\ failed' = failed /\ sent' = sent /\ pc' = pc
    BY <1>6 DEF Record
  <2>2. /\ ring' = Pushed(n) - Drained(Pushed(n), overflow')
        /\ outgoing' = outgoing + Drained(Pushed(n), overflow')
    BY <1>6 DEF Record
  <2>3. CASE ring + n > RingSize
    <3>1. overflow'
      BY <1>6, <2>3, Zenon DEF Record, Overflows
    <3>2. ring' = RingSize /\ outgoing' = outgoing
      BY <2>2, <2>3, <3>1, DeviceTurnAssumption DEF Pushed, Drained, SizesOK
    <3>3. sent' + outgoing' + ring' <= captured' \/ pc \notin Sending
      BY <2>1, <2>3, <3>2, DeviceTurnAssumption DEF SendInv, SizesOK
    <3> QED
      BY <2>1, <3>1, <3>2, <3>3 DEF SendInv
  <2>4. CASE ~(ring + n > RingSize)
    <3>1. ~overflow'
      BY <1>6, <2>1, <2>4, Zenon DEF Record, Overflows
    <3>2. ring' + outgoing' = ring + n + outgoing /\ ring' \in Nat /\ outgoing' \in Nat
      BY <2>2, <2>4, <3>1, DeviceTurnAssumption DEF Pushed, Drained, SizesOK
    <3>3. {ring, outgoing, captured, sent} \subseteq Nat
      BY DeviceTurnAssumption DEF SizesOK
    <3>4. CASE pc \in Sending
      <4>1. sent + outgoing + ring = captured
        BY <2>1, <3>4 DEF SendInv
      <4>2. sent' + outgoing' + ring' = captured' /\ sent' + outgoing' + ring' <= captured'
        BY <2>1, <3>2, <3>3, <4>1
      <4> QED
        BY <2>1, <3>1, <4>2 DEF SendInv
    <3>5. CASE pc \notin Sending
      BY <2>1, <3>1, <3>5 DEF SendInv
    <3> QED
      BY <3>4, <3>5
  <2> QED
    BY <2>3, <2>4
<1>7. ASSUME NEW pressed \in BOOLEAN, Process(pressed) PROVE SendInv'
  <2> DEFINE moved == IF finished THEN 0 ELSE Drained(ring, overflow)
  <2>1. /\ state' # "RECORDING" /\ UNCHANGED <<overflow, captured, failed, sent, pc>>
        /\ ring' = ring - moved /\ outgoing' = outgoing + moved
        /\ finished' <=> finished \/ ring' = 0
    BY <1>7 DEF Process, EnterState, Step, ValidTransition
  <2>2. /\ moved \in 0 .. ring
        /\ finished \/ overflow => moved = 0
    BY DeviceTurnAssumption DEF Drained, SizesOK
  <2> HIDE DEF moved
  <2> QED
    BY <2>1, <2>2, DeviceTurnAssumption DEF SendInv, SizesOK, Sending, Idle
<1>8. CASE PlayError \/ \E dry \in BOOLEAN : Play(dry)
  <2>1. UNCHANGED <<Recording, failed, pc>> /\ state' # "RECORDING"
    BY <1>8 DEF PlayError, Play, EnterState, Step, ValidTransition, Recording
  <2> QED
    BY <2>1, SameRecording
<1>9. CASE Connect
  <2>1. /\ UNCHANGED Recording /\ (failed => failed') /\ UNCHANGED state
        /\ pc = "connecting" /\ pc' \in {"uploading", "leaving"}
    BY <1>9 DEF Connect, UploadFails, Recording
  <2> QED
    BY <2>1, SameRecording DEF Idle, Sending
<1>10. CASE Upload
  <2>1. CASE failed
    <3>1. UNCHANGED Recording /\ failed' /\ UNCHANGED state /\ pc' = "leaving"
      BY <1>10, <2>1 DEF Upload, UploadFails, Recording
    <3> QED
      BY <3>1, SameRecording DEF Idle
  <2>2. CASE ~failed
    <3>1. /\ pc = "uploading" /\ pc' = "checking" /\ UNCHANGED <<recorder, finished, failed, state>>
          /\ outgoing' = (IF outgoing = 0 THEN 0 ELSE outgoing - 1)
          /\ sent' = sent + (outgoing - outgoing')
      BY <1>10, <2>2 DEF Upload
    <3> QED
      BY <3>1, DeviceTurnAssumption DEF SendInv, SizesOK, Sending, Idle
  <2> QED
    BY <2>1, <2>2
<1>11. CASE UploadBreaks
  <2>1. pc' = "leaving" /\ UNCHANGED <<recorder, finished, state>>
    BY <1>11 DEF UploadBreaks, UploadFails
  <2> QED
    BY <2>1 DEF SendInv, Sending, Idle
<1>12. CASE Check
  <2>1. /\ UNCHANGED Recording /\ (failed => failed') /\ UNCHANGED state /\ pc = "checking"
        /\ pc' \in {"leaving", "uploading"} \/ (pc' = "closing" /\ finished)
    BY <1>12 DEF Check, UploadFails, Recording
  <2>2. CASE pc' \in {"leaving", "uploading"}
    BY <2>1, <2>2, SameRecording DEF Idle, Sending
  <2>3. CASE pc' = "closing" /\ finished
    BY <2>1, <2>3 DEF SendInv, Recording, Sending, Idle
  <2> QED
    BY <2>1, <2>2, <2>3
<1>13. CASE UploadAnswered \/ UploadUnanswered
  <2>1. /\ UNCHANGED Recording /\ (failed => failed') /\ UNCHANGED state
        /\ pc = "closing" /\ pc' \in {"polling", "leaving"}
    BY <1>13 DEF UploadAnswered, UploadUnanswered, UploadFails, Recording
  <2> QED
    BY <2>1, SameRecording DEF Idle, Sending
<1>14. CASE \/ Deadline \/ Lookup \/ Poll \/ Refused \/ \E answered \in BOOLEAN : Cancel(answered)
            \/ Download \/ DownloadChunk \/ DownloadBreaks \/ DownloadStops \/ DownloadEnds
  <2>1. UNCHANGED state
    BY <1>14, ClientSteps
  <2>2. {pc, pc'} \cap (Sending \cup Idle) = {} \/ pc' \in Idle \/ pc' = pc
    BY <1>14, ClientKeepsRecording DEF Sending, Idle
  <2> QED
    BY <1>14, <2>1, <2>2, ClientKeepsRecording, SameRecording
<1>15. CASE Leave
  <2>1. UNCHANGED <<Recording, failed, state>> /\ pc' = "none"
    BY <1>15 DEF Leave, Recording
  <2> QED
    BY <2>1, SameRecording DEF Idle
<1>16. CASE GatewaySteps
  <2>1. UNCHANGED <<Recording, failed, state, pc>>
    BY <1>16, GatewayFrame DEF Recording
  <2> QED
    BY <2>1, SameRecording
<1>17. CASE Reboot
  BY <1>17 DEF Reboot, SendInv, Sending, Idle
<1>18. CASE UNCHANGED vars
  <2>1. UNCHANGED <<Recording, failed, state, pc>>
    BY <1>18 DEF Recording, vars
  <2> QED
    BY <2>1, SameRecording
<1> QED
  BY <1>1, <1>2, <1>3, <1>4, <1>5, <1>6, <1>7, <1>8, <1>9, <1>10, <1>11, <1>12, <1>13, <1>14,
     <1>15, <1>16, <1>17, <1>18 DEF Next, MainLoop, VoiceTurn

\* A body is closed over what was sent, and the gateway accepts what was closed.
LEMMA NextWholeInv ==
  ASSUME NamesOK, GatewayOK, SizesOK, SendInv, WholeInv, [Next]_vars
  PROVE  WholeInv'
<1> USE DEF WholeInv
<1>1. ASSUME UNCHANGED body, NEW v, v # "cut",
             \A r \in Requests : link'[r] = link[r] \/ link'[r] = v
      PROVE  WholeInv'
  BY <1>1
<1>2. ASSUME UNCHANGED <<link, body>> PROVE WholeInv'
  BY <1>2
<1>3. CASE MainLoop \/ UNCHANGED vars
  <2>1. UNCHANGED <<link, body>>
    BY <1>3, Zenon DEF MainLoop, Boot, BootFails, Press, PressRefused, OverflowSeen, OverflowReported,
       RecordingFails, Record, Process, PlayError, PlayCancelled, Play, Acknowledge, vars
  <2> QED
    BY <1>2, <2>1
<1>4. CASE Connect
  <2>1. body' = body
    BY <1>4, Zenon DEF Connect, Gateway!Receive
  <2>2. link' = [link EXCEPT ![mine] = "open"] \/ link' = link
    BY <1>4 DEF Connect
  <2>3. \A r \in Requests : link'[r] = link[r] \/ link'[r] = "open"
    BY <2>2 DEF GatewayOK
  <2> QED
    BY <1>1, <2>1, <2>3
<1>5. CASE Upload \/ UploadBreaks
  <2>1. body' = body
    BY <1>5, Zenon DEF Upload, UploadBreaks
  <2>2. link' = [link EXCEPT ![mine] = "gone"] \/ link' = link
    BY <1>5 DEF Upload, UploadBreaks
  <2>3. \A r \in Requests : link'[r] = link[r] \/ link'[r] = "gone"
    BY <2>2 DEF GatewayOK
  <2> QED
    BY <1>1, <2>1, <2>3
<1>6. CASE Check
  <2>1. body' = body /\ pc = "checking"
    BY <1>6 DEF Check
  <2>2. CASE finished /\ outgoing = 0 /\ ~failed
    <3>1. pc \in Sending /\ ring = 0 /\ ~overflow
      BY <2>1, <2>2 DEF SendInv, Sending
    <3>2. sent = captured
      BY <2>2, <3>1 DEF SendInv, SizesOK
    <3>3. link' = [link EXCEPT ![mine] = IF @ # "open" THEN @ ELSE IF sent = captured THEN "whole" ELSE "cut"]
      BY <1>6, <2>2 DEF Check
    <3>4. \A r \in Requests : link'[r] = link[r] \/ link'[r] = "whole"
      BY <3>2, <3>3 DEF GatewayOK
    <3> QED
      BY <1>1, <2>1, <3>4
  <2>3. CASE ~(finished /\ outgoing = 0 /\ ~failed)
    <3>1. link' = [link EXCEPT ![mine] = "gone"] \/ link' = link
      BY <1>6, <2>3 DEF Check
    <3>2. \A r \in Requests : link'[r] = link[r] \/ link'[r] = "gone"
      BY <3>1 DEF GatewayOK
    <3> QED
      BY <1>1, <2>1, <3>2
  <2> QED
    BY <2>2, <2>3
<1>7. CASE UploadAnswered \/ UploadUnanswered
  BY <1>2, <1>7 DEF UploadAnswered, UploadUnanswered
<1>8. CASE \/ Deadline \/ Lookup \/ Poll \/ Refused \/ \E answered \in BOOLEAN : Cancel(answered)
           \/ Download \/ DownloadChunk \/ DownloadBreaks \/ DownloadStops \/ DownloadEnds
  BY <1>2, <1>8, ClientKeepsRecording
<1>9. CASE Leave
  BY <1>2, <1>9 DEF Leave
<1>10. ASSUME NEW q \in Requests, GatewayAccepts(q) PROVE WholeInv'
  BY <1>10 DEF GatewayAccepts, Gateway!Accept, GatewayOK
<1>11. ASSUME NEW q \in Requests, GatewayDrops(q) PROVE WholeInv'
  <2>1. body' = body /\ link' = [link EXCEPT ![q] = "gone"]
    BY <1>11 DEF GatewayDrops, Gateway!Drop
  <2>2. \A r \in Requests : link'[r] = link[r] \/ link'[r] = "gone"
    BY <2>1 DEF GatewayOK
  <2> QED
    BY <1>1, <2>1, <2>2
<1>12. ASSUME NEW q \in Requests, GatewayWorks(q) PROVE WholeInv'
  BY <1>2, <1>12 DEF GatewayWorks, Gateway!Work, Gateway!Settle
<1>13. CASE Reboot
  <2>1. body' = body /\ \A r \in Requests : link'[r] = link[r] \/ link'[r] = "gone"
    BY <1>13 DEF Reboot
  <2> QED
    BY <1>1, <2>1
<1> QED
  BY <1>3, <1>4, <1>5, <1>6, <1>7, <1>8, <1>9, <1>10, <1>11, <1>12, <1>13
     DEF Next, VoiceTurn, GatewaySteps

\* A download begins again only while nothing was handed on; PLAYING moves what
\* arrived and counts it.
LEMMA NextAudioInv ==
  ASSUME SizesOK, TaskInv, AudioInv, [Next]_vars
  PROVE  AudioInv'
<1> USE DEF AudioInv
<1> USE DeviceTurnAssumption
<1>1. ASSUME UNCHANGED <<played, incoming, got, pc, started>>, cancel => cancel' PROVE AudioInv'
  BY <1>1 DEF Uploading, Polling
<1>2. CASE Boot \/ BootFails
  <2>1. CASE UNCHANGED <<played, incoming, flags, task>>
    BY <1>1, <2>1
  <2>2. CASE StartWorker(ids.req, FALSE) /\ Boot
    BY <1>2, <2>2 DEF Boot, StartWorker, AudioStartedReset, TaskInv, SizesOK, Uploading, Polling
  <2> QED
    BY <1>2, <2>1, <2>2 DEF Boot, BootFails
<1>3. ASSUME NEW r \in Requests, Press(r) PROVE AudioInv'
  BY <1>3 DEF Press, CanRecord, StartWorker, AudioStartedReset, TaskInv, SizesOK, Uploading, Polling
<1>4. CASE PressRefused \/ OverflowSeen \/ OverflowReported \/ RecordingFails \/ PlayCancelled \/ Acknowledge
           \/ \E n \in 0 .. 1, released \in BOOLEAN : Record(n, released)
           \/ \E pressed \in BOOLEAN : Process(pressed)
  <2>1. UNCHANGED <<played, incoming, got, pc, started>> /\ (cancel => cancel')
    BY <1>4 DEF PressRefused, OverflowSeen, OverflowReported, RecordingFails, PlayCancelled,
       Acknowledge, Record, Process
  <2> QED
    BY <1>1, <2>1
<1>5. CASE PlayError
  BY <1>5 DEF PlayError, SizesOK, Uploading, Polling
<1>6. ASSUME NEW dry \in BOOLEAN, Play(dry) PROVE AudioInv'
  BY <1>6 DEF Play, SizesOK, Uploading, Polling
<1>7. CASE \/ Connect \/ Upload \/ UploadBreaks \/ Check \/ UploadAnswered \/ UploadUnanswered
  <2>1. /\ UNCHANGED <<played, incoming, got, started, cancel>>
        /\ pc \in Uploading /\ pc' \in Uploading \cup {"leaving", "polling"}
    BY <1>7 DEF Connect, Upload, UploadBreaks, Check, UploadAnswered, UploadUnanswered, UploadFails, Uploading
  <2> QED
    BY <2>1 DEF Uploading, Polling
<1>8. CASE \/ Deadline \/ Lookup \/ Poll \/ Refused \/ \E answered \in BOOLEAN : Cancel(answered)
  <2>1. /\ UNCHANGED <<played, incoming, got, started, cancel>>
        /\ pc \in Polling /\ (pc' \in {pc, "leaving"} \/ (pc = "polling" /\ pc' = "pending"))
    BY <1>8 DEF Deadline, Lookup, Poll, Refused, Cancel, Finish, Return, Polling
  <2> QED
    BY <2>1 DEF Uploading, Polling
<1>9. CASE Download
  BY <1>9 DEF Download, Uploading, Polling
<1>10. CASE DownloadChunk
  BY <1>10 DEF DownloadChunk, SizesOK, Uploading, Polling
<1>11. CASE DownloadBreaks
  <2>1. /\ UNCHANGED <<played, incoming, got, started, cancel>> /\ pc = "downloading"
        /\ pc' = "leaving" \/ (pc' = "pending" /\ ~started)
    BY <1>11 DEF DownloadBreaks, Finish, Return, Repeatable
  <2> QED
    BY <2>1 DEF Uploading, Polling
<1>12. CASE DownloadStops \/ DownloadEnds \/ Leave
  BY <1>12 DEF DownloadStops, StopsDownload, DownloadEnds, Finish, Return, Leave, Uploading, Polling
<1>13. CASE GatewaySteps
  BY <1>1, <1>13, GatewayFrame
<1>14. CASE Reboot
  BY <1>14 DEF Reboot, Uploading, Polling
<1>15. CASE UNCHANGED vars
  BY <1>1, <1>15 DEF vars
<1> QED
  BY <1>2, <1>3, <1>4, <1>5, <1>6, <1>7, <1>8, <1>9, <1>10, <1>11, <1>12, <1>13, <1>14, <1>15
     DEF Next, MainLoop, VoiceTurn

-----------------------------------------------------------------------------
(* Type correctness, group by group.                                       *)

\* The legal transitions, and the places the task goes to, are all there are.
LEMMA NextPlacesOK ==
  ASSUME PlacesOK, [Next]_vars
  PROVE  PlacesOK'
<1> USE DEF PlacesOK, States, Results, Places, Uploading, Polling
<1>1. ASSUME NEW next \in States, EnterState(next), UNCHANGED <<result, pc>> PROVE PlacesOK'
  BY <1>1 DEF EnterState, Step
<1>2. CASE Boot \/ BootFails
  BY <1>2 DEF Boot, BootFails, StartWorker, EnterState, Step
<1>3. ASSUME NEW r \in Requests, Press(r) PROVE PlacesOK'
  BY <1>3 DEF Press, StartWorker, EnterState, Step
<1>4. CASE PressRefused \/ OverflowReported \/ RecordingFails \/ PlayError \/ PlayCancelled \/ Acknowledge
  BY <1>1, <1>4 DEF PressRefused, OverflowReported, RecordingFails, PlayError, PlayCancelled, Acknowledge
<1>5. CASE OverflowSeen
  BY <1>5 DEF OverflowSeen
<1>6. ASSUME NEW n \in 0 .. 1, NEW released \in BOOLEAN, Record(n, released) PROVE PlacesOK'
  BY <1>6 DEF Record, EnterState, Step
<1>7. ASSUME NEW pressed \in BOOLEAN, Process(pressed) PROVE PlacesOK'
  BY <1>7 DEF Process, EnterState, Step
<1>8. ASSUME NEW dry \in BOOLEAN, Play(dry) PROVE PlacesOK'
  BY <1>8 DEF Play, EnterState, Step
<1>9. CASE Connect \/ Upload \/ UploadBreaks \/ Check \/ UploadAnswered \/ UploadUnanswered
  BY <1>9 DEF Connect, Upload, UploadBreaks, Check, UploadAnswered, UploadUnanswered, UploadFails
<1>10. CASE Deadline \/ Lookup \/ Refused \/ \E answered \in BOOLEAN : Cancel(answered)
  BY <1>10 DEF Deadline, Lookup, Refused, Cancel, Finish, Return
<1>11. CASE Poll
  BY <1>11 DEF Poll, Finish, Return
<1>12. CASE Download \/ DownloadChunk \/ DownloadBreaks \/ DownloadStops \/ DownloadEnds \/ Leave
  BY <1>12 DEF Download, DownloadChunk, DownloadBreaks, DownloadStops, DownloadEnds, Leave, Finish, Return
<1>13. CASE GatewaySteps
  BY <1>13, GatewayFrame
<1>14. CASE Reboot
  BY <1>14 DEF Reboot
<1>15. CASE UNCHANGED vars
  BY <1>15 DEF vars
<1> QED
  BY <1>2, <1>3, <1>4, <1>5, <1>6, <1>7, <1>8, <1>9, <1>10, <1>11, <1>12, <1>13, <1>14, <1>15
     DEF Next, MainLoop, VoiceTurn

LEMMA NextFlagsOK ==
  ASSUME FlagsOK, [Next]_vars
  PROVE  FlagsOK'
<1> USE DEF FlagsOK
<1>1. CASE Boot \/ BootFails
  <2>1. CASE Boot
    BY <2>1, ZenonT(30) DEF Boot, StartWorker, AudioStartedReset
  <2>2. CASE BootFails
    BY <2>2, Zenon DEF BootFails
  <2> QED
    BY <1>1, <2>1, <2>2
<1>2. ASSUME NEW r \in Requests, Press(r) PROVE FlagsOK'
  BY <1>2, Zenon DEF Press, StartWorker, AudioStartedReset, ResetRecorder
<1>3. CASE PressRefused \/ RecordingFails \/ PlayCancelled \/ Acknowledge
  <2>1. CASE PressRefused \/ RecordingFails
    BY <2>1, Zenon DEF PressRefused, RecordingFails
  <2>2. CASE PlayCancelled \/ Acknowledge
    BY <2>2, Zenon DEF PlayCancelled, Acknowledge
  <2> QED
    BY <1>3, <2>1, <2>2
<1>4. CASE OverflowSeen \/ OverflowReported \/ PlayError
  BY <1>4, Zenon DEF OverflowSeen, HaltedFlags, OverflowReported, PlayError
<1>5. ASSUME NEW n \in 0 .. 1, NEW released \in BOOLEAN, Record(n, released) PROVE FlagsOK'
  BY <1>5, Zenon DEF Record, Overflows
<1>6. ASSUME NEW pressed \in BOOLEAN, Process(pressed) PROVE FlagsOK'
  BY <1>6, Zenon DEF Process
<1>7. ASSUME NEW dry \in BOOLEAN, Play(dry) PROVE FlagsOK'
  BY <1>7, Zenon DEF Play
<1>8. CASE Connect \/ Upload \/ UploadBreaks \/ Check \/ UploadUnanswered
  <2>1. CASE Connect \/ Upload
    <3>1. CASE Connect
      BY <3>1, ZenonT(30) DEF Connect, UploadFails
    <3>2. CASE Upload
      BY <3>2, ZenonT(30) DEF Upload, UploadFails
    <3> QED
      BY <2>1, <3>1, <3>2
  <2>2. CASE UploadBreaks \/ Check
    BY <2>2, Zenon DEF UploadBreaks, Check, UploadFails
  <2>3. CASE UploadUnanswered
    BY <2>3, Zenon DEF UploadUnanswered, UploadFails
  <2> QED
    BY <1>8, <2>1, <2>2, <2>3
<1>9. CASE UploadAnswered
  BY <1>9, Zenon DEF UploadAnswered
<1>10. ASSUME NEW how, Finish(how), UNCHANGED recorder PROVE FlagsOK'
  BY <1>10, Zenon DEF Finish, ClearIds, Return
<1>11. CASE Lookup
  BY <1>10, <1>11, Zenon DEF Lookup, Return
<1>12. CASE Deadline \/ Poll \/ Refused \/ \E answered \in BOOLEAN : Cancel(answered)
  <2>1. CASE Deadline \/ Refused
    BY <1>10, <2>1, Zenon DEF Deadline, Refused
  <2>2. CASE Poll
    BY <1>10, <2>2, Zenon DEF Poll
  <2>3. CASE \E answered \in BOOLEAN : Cancel(answered)
    BY <1>10, <2>3, Zenon DEF Cancel
  <2> QED
    BY <1>12, <2>1, <2>2, <2>3
<1>13. CASE Download \/ DownloadChunk \/ DownloadBreaks \/ DownloadStops \/ DownloadEnds
  <2>1. CASE Download \/ DownloadChunk
    BY <1>10, <2>1, Zenon DEF Download, DownloadChunk
  <2>2. CASE DownloadBreaks \/ DownloadStops
    BY <1>10, <2>2, Zenon DEF DownloadBreaks, DownloadStops
  <2>3. CASE DownloadEnds
    BY <1>10, <2>3, Zenon DEF DownloadEnds
  <2> QED
    BY <1>13, <2>1, <2>2, <2>3
<1>14. CASE Leave
  BY <1>14, Zenon DEF Leave
<1>15. CASE GatewaySteps
  BY <1>15, GatewayFrame, Zenon
<1>16. CASE Reboot
  BY <1>16, Zenon DEF Reboot
<1>17. CASE UNCHANGED vars
  BY <1>17, Zenon DEF vars
<1> QED
  BY <1>1, <1>2, <1>3, <1>4, <1>5, <1>6, <1>7, <1>8, <1>9, <1>11, <1>12, <1>13, <1>14, <1>15,
     <1>16, <1>17, Zenon DEF Next, MainLoop, VoiceTurn

\* The task sends requests of its own turn only; the rest is the gateway's.
LEMMA NextGatewayOK ==
  ASSUME NamesOK, NameInv, GatewayOK, [Next]_vars
  PROVE  GatewayOK'
<1> USE DEF GatewayOK, Gateway!Outcomes
<1>1. UNCHANGED <<link, gateway>> => GatewayOK'
  OBVIOUS
<1>2. CASE MainLoop \/ UNCHANGED vars
  <2>1. UNCHANGED <<link, gateway>>
    BY <1>2, Zenon DEF MainLoop, Boot, BootFails, Press, PressRefused, OverflowSeen, OverflowReported,
       RecordingFails, Record, Process, PlayError, PlayCancelled, Play, Acknowledge, vars
  <2> QED
    BY <1>1, <2>1
<1>3. CASE Connect
  <2>1. mine \in Requests
    BY <1>3 DEF Connect, NamesOK, NameInv, Idle
  <2> QED
    BY <1>3, <2>1 DEF Connect, Gateway!Receive
<1>4. CASE Upload \/ UploadBreaks \/ Check
  BY <1>4 DEF Upload, UploadBreaks, Check
<1>5. CASE UploadAnswered \/ UploadUnanswered \/ Deadline \/ Lookup \/ Poll \/ Refused \/ Leave
  BY <1>1, <1>5, Zenon DEF UploadAnswered, UploadUnanswered, Deadline, Lookup, Poll, Refused, Leave
<1>6. ASSUME NEW answered \in BOOLEAN, Cancel(answered) PROVE GatewayOK'
  <2>1. link' = link /\ (Gateway!Settle(mine, "cancelled") \/ UNCHANGED gateway)
    BY <1>6 DEF Cancel, CancelPosted
  <2> QED
    BY <2>1 DEF Gateway!Settle
<1>7. CASE Download \/ DownloadChunk \/ DownloadBreaks \/ DownloadStops \/ DownloadEnds
  BY <1>1, <1>7, Zenon DEF Download, DownloadChunk, DownloadBreaks, DownloadStops, DownloadEnds
<1>8. ASSUME NEW r \in Requests, GatewayAccepts(r) PROVE GatewayOK'
  BY <1>8 DEF GatewayAccepts, Gateway!Accept
<1>9. ASSUME NEW r \in Requests, GatewayDrops(r) PROVE GatewayOK'
  BY <1>9 DEF GatewayDrops, Gateway!Drop
<1>10. ASSUME NEW r \in Requests, GatewayWorks(r) PROVE GatewayOK'
  BY <1>10 DEF GatewayWorks, Gateway!Work, Gateway!Settle
<1>11. CASE Reboot
  BY <1>11 DEF Reboot
<1> QED
  BY <1>2, <1>3, <1>4, <1>5, <1>6, <1>7, <1>8, <1>9, <1>10, <1>11 DEF Next, VoiceTurn, GatewaySteps

\* No counter leaves its bounds: a chunk is sent or heard once.
LEMMA NextSizesOK ==
  ASSUME SizesOK, SendInv, AudioInv, [Next]_vars
  PROVE  SizesOK'
<1> DEFINE Sizes == <<ring, outgoing, incoming, captured, sent, got, played>>
<1> USE DEF SizesOK
<1> USE DeviceTurnAssumption
<1>1. UNCHANGED Sizes => SizesOK'
  OBVIOUS
<1>2. CASE Boot \/ BootFails
  BY <1>2 DEF Boot, BootFails, StartWorker
<1>3. ASSUME NEW r \in Requests, Press(r) PROVE SizesOK'
  BY <1>3 DEF Press, StartWorker, ResetRecorder
<1>4. CASE \/ PressRefused \/ OverflowSeen \/ OverflowReported \/ RecordingFails
           \/ PlayCancelled \/ Acknowledge
  BY <1>1, <1>4 DEF PressRefused, OverflowSeen, OverflowReported, RecordingFails, PlayCancelled, Acknowledge
<1>5. ASSUME NEW n \in 0 .. 1, NEW released \in BOOLEAN, Record(n, released) PROVE SizesOK'
  BY <1>5 DEF Record, Pushed, Drained
<1>6. ASSUME NEW pressed \in BOOLEAN, Process(pressed) PROVE SizesOK'
  BY <1>6 DEF Process, Drained
<1>7. CASE PlayError
  BY <1>7 DEF PlayError
<1>8. ASSUME NEW dry \in BOOLEAN, Play(dry) PROVE SizesOK'
  BY <1>8 DEF Play, AudioInv
<1>9. CASE Connect \/ Check \/ UploadAnswered \/ UploadUnanswered
  BY <1>1, <1>9, Zenon DEF Connect, Check, UploadAnswered, UploadUnanswered, UploadFails
<1>10. CASE Upload
  <2>1. CASE failed
    BY <1>1, <1>10, <2>1 DEF Upload, UploadFails
  <2>2. CASE ~failed
    BY <1>10, <2>2 DEF Upload, SendInv, Sending
  <2> QED
    BY <2>1, <2>2
<1>11. CASE UploadBreaks
  BY <1>11 DEF UploadBreaks, UploadFails
<1>12. CASE \/ Deadline \/ Lookup \/ Poll \/ Refused \/ \E answered \in BOOLEAN : Cancel(answered)
            \/ DownloadBreaks \/ DownloadStops \/ DownloadEnds \/ Leave
  BY <1>1, <1>12, Zenon DEF Deadline, Lookup, Poll, Refused, Cancel, DownloadBreaks, DownloadStops,
     DownloadEnds, Leave, Finish, Return
<1>13. CASE Download \/ DownloadChunk
  BY <1>13 DEF Download, DownloadChunk
<1>14. CASE GatewaySteps
  BY <1>1, <1>14, GatewayFrame
<1>15. CASE Reboot
  BY <1>15 DEF Reboot
<1>16. CASE UNCHANGED vars
  BY <1>1, <1>16 DEF vars
<1> QED
  BY <1>2, <1>3, <1>4, <1>5, <1>6, <1>7, <1>8, <1>9, <1>10, <1>11, <1>12, <1>13, <1>14, <1>15, <1>16
     DEF Next, MainLoop, VoiceTurn

LEMMA TypeGroups == TypeOK <=> NamesOK /\ PlacesOK /\ FlagsOK /\ GatewayOK /\ SizesOK
  BY DEF TypeOK, NamesOK, PlacesOK, FlagsOK, GatewayOK, SizesOK

-----------------------------------------------------------------------------
(* The invariant and what follows from it.                                 *)

LEMMA InitIInv == Init => IInv
<1> SUFFICES ASSUME Init PROVE IInv
  OBVIOUS
<1> USE DeviceTurnAssumption
<1>1. GatewayOK /\ \A r \in Requests : turn[r] = "open" /\ body[r] = NoAudio
  BY DEF Init, Gateway!Init, GatewayOK
<1>2. NamesOK /\ PlacesOK /\ SizesOK
  BY DEF Init, NamesOK, PlacesOK, SizesOK, NoIds, Ids, States, Results, Places
<1>3. FlagsOK
  BY Zenon DEF Init, FlagsOK
<1>4. TaskInv /\ SendInv /\ AudioInv
  BY DEF Init, TaskInv, SendInv, AudioInv, Sending, Idle, Uploading, Polling
<1>5. WholeInv
  BY <1>1 DEF Init, WholeInv
<1>6. NameInv /\ ReplyInv
  BY DEF Init, NameInv, ReplyInv, NoIds, Idle
<1>7. SavedInv
  BY <1>1 DEF Init, SavedInv, OpenTurnIsSaved, NoIds, Idle
<1> QED
  BY <1>1, <1>2, <1>3, <1>4, <1>5, <1>6, <1>7, TypeGroups DEF IInv

LEMMA NextIInv == IInv /\ [Next]_vars => IInv'
<1> SUFFICES ASSUME IInv, [Next]_vars PROVE IInv'
  OBVIOUS
<1>1. /\ NamesOK /\ PlacesOK /\ FlagsOK /\ GatewayOK /\ SizesOK
      /\ TaskInv /\ SendInv /\ WholeInv /\ NameInv /\ ReplyInv /\ SavedInv /\ AudioInv
  BY TypeGroups DEF IInv
<1>2. NamesOK' /\ PlacesOK' /\ FlagsOK' /\ GatewayOK' /\ SizesOK'
  BY <1>1, NextNamesOK, NextPlacesOK, NextFlagsOK, NextGatewayOK, NextSizesOK
<1>3. TaskInv' /\ SendInv' /\ AudioInv'
  BY <1>1, NextTaskInv, NextSendInv, NextAudioInv
<1>4. WholeInv'
  BY <1>1, NextWholeInv
<1>5. NameInv'
  BY <1>1, NextNameInv
<1>6. ReplyInv'
  BY <1>1, NextReplyInv
<1>7. SavedInv'
  BY <1>1, <1>5, NextSavedInv
<1>8. TypeOK'
  BY <1>2 DEF TypeOK, NamesOK, PlacesOK, FlagsOK, GatewayOK, SizesOK
<1> QED
  BY <1>3, <1>4, <1>5, <1>6, <1>7, <1>8 DEF IInv

LEMMA IInvAlways == Spec => []IInv
  BY InitIInv, NextIInv, PTL DEF Spec

\* The state of the device and of the gateway stays in its types: counters
\* within the ring, the streams, the recording and the reply, whatever order
\* the two tasks write the flags of app_t in.
THEOREM TypeCorrect == Spec => []TypeOK
<1>1. IInv => TypeOK
  BY DEF IInv
<1> QED
  BY <1>1, IInvAlways, PTL

\* WholeOrNothing: upload_recording closes the body only over the whole of what
\* the microphone delivered, so the gateway never accepts a part of a recording.
THEOREM AcceptsWholeRecordings == Spec => []WholeOrNothing
<1>1. IInv => WholeOrNothing
  BY DEF IInv, WholeInv, WholeOrNothing
<1> QED
  BY <1>1, IInvAlways, PTL

\* RecordingHasTask: in RECORDING the task uploads this recording, or has set
\* turn_upload_failed for it.
THEOREM RecordsForATask == Spec => []RecordingHasTask
<1>1. IInv => RecordingHasTask
  BY DEF IInv, NameInv, RecordingHasTask
<1> QED
  BY <1>1, IInvAlways, PTL

\* PlaysOwnReply: start_turn_worker resets what the last turn left, and the task
\* starts the audio only of a turn the gateway called ready.
THEOREM PlaysTheReply == Spec => []PlaysOwnReply
<1>1. IInv => PlaysOwnReply
  BY DEF IInv, ReplyInv, PlaysOwnReply
<1> QED
  BY <1>1, IInvAlways, PTL

\* OpenTurnIsSaved: the request id is in NVS before anything is sent and stays
\* until the end of the turn was seen, so a reboot at any moment resumes it.
THEOREM SavesOpenTurns == Spec => []OpenTurnIsSaved
<1>1. IInv => OpenTurnIsSaved
  BY DEF IInv, SavedInv
<1> QED
  BY <1>1, IInvAlways, PTL
=============================================================================
