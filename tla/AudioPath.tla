----------------------------- MODULE AudioPath -----------------------------
(***************************************************************************)
(* The way of the sound through the device, byte by byte: from the         *)
(* microphone through app.rb, turn_upload_stream and the chunked upload to *)
(* the gateway, and from the WAV reply through the parser and              *)
(* turn_audio_stream to the speaker.  Microphone and speaker share one     *)
(* codec, which audio_sticks3.c switches between them.  DeviceTurn has the *)
(* protocol and the interleavings of the flags; here the tick of the main  *)
(* loop is one step, and the turn client is reduced to the reply it gets.  *)
(*                                                                         *)
(* The bytes of a recording are numbered from 1, those of a reply by       *)
(* WavParser.  Two bytes are a frame.                                      *)
(***************************************************************************)
EXTENDS RingBuffer, HttpUpload, WavParser

CONSTANTS StreamSize,   \* capacity of each stream buffer, in bytes
          ReadSize,     \* the most one read of a stream or a socket takes
          CaptureSize,  \* the most the microphone delivers in a tick
          Files,        \* the replies, as lists of chunks
          MaxRecord,    \* bound of the model: bytes of a recording
          MaxTurns      \* bound of the model: recordings made

ASSUME AudioPathAssumption ==
  /\ {StreamSize, ReadSize, CaptureSize, MaxRecord, MaxTurns} \subseteq Nat \ {0}
  /\ Byte = 1 .. MaxRecord
  /\ \A f \in Files : Wave(f)

VARIABLES
  state,      \* app.sm
  rb,         \* app.rb
  captured,   \* bytes the microphone delivered for this recording
  flags,      \* the flags of app_t
  outgoing,   \* turn_upload_stream
  incoming,   \* turn_audio_stream
  pending,    \* turn_pending_byte and turn_pending_value
  codec,      \* audio_sticks3.c
  pc,         \* where the voice_turn task is
  reply,      \* the file of the turn, and how much of it was read and fed
  parser,     \* the wav_parser_t of the download
  heard,      \* history: the bytes the speaker has played
  turns       \* history: recordings made

recorder == <<rb, captured, outgoing>>
player == <<incoming, pending, heard>>
download == <<reply, parser>>
vars == <<state, recorder, flags, player, codec, pc, download, turns, upload>>

NoFlags == [cancel |-> FALSE, started |-> FALSE, finished |-> FALSE, failed |-> FALSE,
            released |-> FALSE, active |-> FALSE, result |-> "failed"]
NoReply == [chunks |-> <<>>, got |-> 0, fed |-> 0]
File == WavFile(reply.chunks)
Uploading == {"opening", "receiving", "writing", "checking", "closing"}

Init ==
  /\ state = "IDLE" /\ rb = EmptyRing /\ captured = 0
  /\ flags = NoFlags /\ outgoing = <<>> /\ incoming = <<>> /\ pending = <<>>
  /\ codec = [ready |-> FALSE, mic |-> FALSE, spk |-> FALSE, capture |-> FALSE,
              playback |-> FALSE, due |-> 0, dma |-> <<>>]
  /\ pc = "none" /\ reply = NoReply /\ parser = NewParser
  /\ heard = <<>> /\ turns = 0
  /\ InitUpload

-----------------------------------------------------------------------------
(* Faulty variants of definitions below, one for each property: what the   *)
(* code would say with a plausible mistake.  Nothing here uses them.       *)

SentEarly == flags.finished
RetryAnyway == pc' = "waiting" /\ UNCHANGED flags
NoVerdict(p) == "ready"
FromTheLast(due) == due

-----------------------------------------------------------------------------
(* audio_sticks3.c.  due is s_play_until_us less the time now, in frames;  *)
(* dma is what the speaker was given and has not played.                   *)

\* audio_capture_deinit: both ends of the codec are closed and given up.
Deinited(c) == [c EXCEPT !.ready = FALSE, !.mic = FALSE, !.spk = FALSE, !.capture = FALSE]

\* audio_capture_init undoes itself when a step of it fails.
CaptureInit(c, ok) == IF ok THEN [Deinited(c) EXCEPT !.ready = TRUE, !.mic = TRUE] ELSE Deinited(c)

\* ensure_audio, with which a start of the capture or of the playback begins.
Ensured(c, ok) == IF c.ready THEN c ELSE CaptureInit(c, ok)

\* audio_capture_start: hw_audio_capture_start ignores that it refused.
CaptureStarted(c) == [c EXCEPT !.capture = @ \/ (c.ready /\ ~c.playback)]
CaptureStopped(c) == [c EXCEPT !.capture = FALSE]

\* audio_capture_read: a microphone that is not capturing, or closed, delivers
\* nothing.
CaptureRead(c, n) == n = 0 \/ (c.capture /\ c.mic)

\* audio_playback_start: the codec goes over to the speaker, or, when that
\* cannot be opened or set up, back to the microphone, which may fail as well.
PlaybackStarted(c, ok, reopened) ==
  IF ~c.ready \/ c.playback THEN c
  ELSE [c EXCEPT !.capture = FALSE, !.mic = ~ok /\ reopened, !.spk = ok,
                 !.playback = ok, !.due = IF ok THEN 0 ELSE @]

\* audio_playback_write takes whole frames while the playback is on.
Writable(c, bytes) == c.playback /\ bytes # <<>> /\ ~Odd(Len(bytes))
FromNow(due) == IF due < 0 THEN 0 ELSE due
Written(c, bytes) ==
  [c EXCEPT !.dma = @ \o bytes, !.due = FromNow(@) + Len(bytes) \div 2]

\* audio_playback_stop: what the speaker has not played is cut off.
PlaybackStopped(c, reopened) ==
  IF ~c.playback THEN c
  ELSE [c EXCEPT !.playback = FALSE, !.spk = FALSE, !.mic = reopened, !.due = 0, !.dma = <<>>]

\* audio_playback_get_buffer_level
Drained(c) == ~c.playback \/ c.due <= 0

\* The time of one frame passes.  What is overdue is only told from what is
\* not: the bound keeps due from falling for ever.
Elapse ==
  /\ codec.playback /\ codec.due > -1
  /\ codec' = [codec EXCEPT !.due = @ - 1,
                            !.dma = IF @ = <<>> THEN @ ELSE SubSeq(@, 3, Len(@))]
  /\ heard' = heard \o (IF codec.dma = <<>> THEN <<>> ELSE SubSeq(codec.dma, 1, 2))
  /\ UNCHANGED <<state, recorder, flags, incoming, pending, pc, download, turns, upload>>

-----------------------------------------------------------------------------
(* The main loop: app_tick.                                                *)

\* IDLE: recording_start under a new request, with both streams and every flag
\* reset by start_turn_worker.
Press ==
  /\ state = "IDLE" /\ ~flags.active /\ turns < MaxTurns
  /\ turns' = turns + 1
  /\ rb' = Reset(rb) /\ captured' = 0 /\ heard' = <<>>
  /\ outgoing' = <<>> /\ incoming' = <<>> /\ pending' = <<>>
  /\ flags' = [NoFlags EXCEPT !.active = TRUE, !.result = "waiting"]
  /\ pc' = "opening" /\ reply' = NoReply /\ parser' = NewParser
  /\ \E ok \in BOOLEAN : codec' = CaptureStarted(Ensured(codec, ok))
  /\ state' = "RECORDING"
  /\ UNCHANGED upload

\* No tunnel, no storage, or the last task has not left yet.
PressRefused ==
  /\ state = "IDLE" /\ state' = "ERROR"
  /\ UNCHANGED <<recorder, flags, player, codec, pc, download, turns, upload>>

\* recording_drain: what the stream has room for, unless the ring overflowed.
Moved(ring) == IF ring.overflow THEN 0 ELSE Least(ring.count, StreamSize - Len(outgoing))
Drain(ring) ==
  /\ rb' = Pop(ring, Moved(ring))
  /\ outgoing' = outgoing \o Taken(ring, Moved(ring))

\* RECORDING: a failed upload and an overflow end it, the second one with the
\* flags that make the task give the upload up.
OverflowFlags == [flags EXCEPT !.failed = TRUE, !.finished = TRUE, !.cancel = TRUE]
RecordingStops ==
  /\ state = "RECORDING"
  /\ \/ rb.overflow /\ flags' = OverflowFlags
     \/ ~rb.overflow /\ flags.result = "failed" /\ ~flags.active /\ UNCHANGED flags
  /\ codec' = CaptureStopped(codec) /\ state' = "ERROR"
  /\ UNCHANGED <<recorder, player, pc, download, turns, upload>>

\* recording_capture: app.rb behind the n bytes of this tick.
Captured(n) == Push(rb, [i \in 1 .. n |-> captured + i])

\* Otherwise capture, drain, and perhaps the release.
Record(n, released) ==
  /\ state = "RECORDING" /\ ~rb.overflow /\ ~(flags.result = "failed" /\ ~flags.active)
  /\ CaptureRead(codec, n) /\ captured + n <= MaxRecord
  /\ captured' = captured + n
  /\ Drain(Captured(n))
  /\ IF released
     THEN /\ codec' = CaptureStopped(codec)
          /\ flags' = [flags EXCEPT !.released = TRUE]
          /\ state' = IF flags.active THEN "PROCESSING" ELSE "ERROR"
     ELSE UNCHANGED <<codec, flags, state>>
  /\ UNCHANGED <<player, pc, download, turns, upload>>

\* PROCESSING: the rest of the recording, the cancel button, the outcome.
Process(pressed) ==
  /\ state = "PROCESSING"
  /\ IF flags.released /\ ~flags.finished THEN Drain(rb) ELSE UNCHANGED <<rb, outgoing>>
  /\ LET lost == flags.result = "failed"
         ended == flags.finished \/ (flags.released /\ rb'.count = 0) IN
     /\ flags' = [flags EXCEPT !.finished = ended,
                               !.cancel = @ \/ pressed \/ (lost /\ flags.active)]
     /\ IF lost THEN state' = "ERROR" /\ UNCHANGED codec
        ELSE IF flags.result # "cancelled" /\ flags.started
        THEN /\ state' = "PLAYING"
             /\ \E init, ok, reopened \in BOOLEAN :
                  codec' = PlaybackStarted(Ensured(codec, init), ok, reopened)
        ELSE UNCHANGED <<state, codec>>     \* to IDLE is no transition
  /\ UNCHANGED <<captured, player, pc, download, turns, upload>>

\* playback_release_resources, on every way out of PLAYING.
Release(c) ==
  /\ \E reopened \in BOOLEAN : codec' = PlaybackStopped(c, reopened)
  /\ pending' = <<>>

\* PLAYING: turn_playback_drain takes what has arrived behind the byte left over
\* from the last time, and hands whole frames to the speaker, which may fail.
Play ==
  /\ state = "PLAYING"
  /\ LET n == Least(Len(incoming), ReadSize - Len(pending))
         bytes == pending \o SubSeq(incoming, 1, n)
         frames == SubSeq(bytes, 1, 2 * (Len(bytes) \div 2))
         left == SubSeq(bytes, Len(frames) + 1, Len(bytes))
         rejected == frames # <<>> /\ ~Writable(codec, frames)
         after == IF frames = <<>> THEN codec ELSE Written(codec, frames)
         ended == flags.result = "ready" /\ n = Len(incoming) IN
     IF flags.result = "failed"
     THEN state' = "ERROR" /\ Release(codec) /\ flags' = [flags EXCEPT !.cancel = TRUE]
          /\ UNCHANGED incoming
     ELSE IF flags.result = "cancelled"
     THEN state' = "IDLE" /\ Release(codec) /\ UNCHANGED <<flags, incoming>>
     ELSE /\ incoming' = SubSeq(incoming, n + 1, Len(incoming))
          /\ \/ /\ frames # <<>> \/ (ended /\ left # <<>>)
                /\ state' = "ERROR" /\ Release(codec) /\ flags' = [flags EXCEPT !.cancel = TRUE]
             \/ /\ ~rejected /\ ~(ended /\ left # <<>>) /\ UNCHANGED flags
                /\ IF ended /\ Drained(after) THEN state' = "IDLE" /\ Release(after)
                   ELSE UNCHANGED state /\ codec' = after /\ pending' = left
  /\ UNCHANGED <<recorder, heard, pc, download, turns, upload>>

\* ERROR is acknowledged once the task has left.
Acknowledge ==
  /\ state = "ERROR" /\ ~flags.active /\ state' = "IDLE"
  /\ UNCHANGED <<recorder, flags, player, codec, pc, download, turns, upload>>

\* An idle sleep whose rails could not be switched off: audio_capture_deinit
\* has run, and the device goes on.
SleepAborted ==
  /\ state \in {"IDLE", "ERROR"} /\ ~flags.active /\ codec.ready
  /\ codec' = Deinited(codec)
  /\ UNCHANGED <<state, recorder, flags, player, pc, download, turns, upload>>

-----------------------------------------------------------------------------
(* The voice_turn task.                                                    *)

taskFrame == <<state, rb, captured, player, codec, turns>>

Leave(result) == flags' = [flags EXCEPT !.result = result] /\ pc' = "leaving"
GivesUp ==
  /\ AbortSession
  /\ pc' = "leaving" /\ flags' = [flags EXCEPT !.failed = TRUE, !.result = "failed"]

Open(how) ==
  /\ pc = "opening"
  /\ OpenSession(how)
  /\ IF session'.state = "OPEN" THEN pc' = "receiving" /\ UNCHANGED flags
     ELSE pc' = "leaving" /\ flags' = [flags EXCEPT !.failed = TRUE, !.result = "failed"]
  /\ UNCHANGED <<taskFrame, outgoing, download>>

\* The loop of upload_recording: take what the stream has and write it.
Receive ==
  /\ pc = "receiving"
  /\ IF flags.failed THEN GivesUp /\ UNCHANGED outgoing
     ELSE LET n == Least(Len(outgoing), ReadSize) IN
          /\ outgoing' = SubSeq(outgoing, n + 1, Len(outgoing))
          /\ IF n = 0 THEN pc' = "checking" /\ UNCHANGED upload
             ELSE pc' = "writing" /\ WriteBody(SubSeq(outgoing, 1, n))
          /\ UNCHANGED flags
  /\ UNCHANGED <<taskFrame, download>>

\* write_all, for a chunk or for the end of the body; the socket may break.
Write(n) ==
  /\ pc \in {"writing", "closing"} /\ WriteSocket(n)
  /\ pc' = IF pc = "writing" /\ out' = <<>> THEN "checking" ELSE pc
  /\ UNCHANGED <<taskFrame, flags, outgoing, download>>

WriteBreaks ==
  /\ pc \in {"writing", "closing"} /\ out # <<>> /\ GivesUp
  /\ UNCHANGED <<taskFrame, outgoing, download>>

\* The end of the recording is the finished flag with an empty stream.
AllSent == flags.finished /\ outgoing = <<>>
Check ==
  /\ pc = "checking"
  /\ IF ~AllSent THEN pc' = "receiving" /\ UNCHANGED <<flags, upload>>
     ELSE IF flags.failed THEN GivesUp
     ELSE pc' = "closing" /\ FinishBody /\ UNCHANGED flags
  /\ UNCHANGED <<taskFrame, outgoing, download>>

\* finish_body: the gateway answers 202, or anything else, or not at all.
Answered(accepted) ==
  /\ pc = "closing" /\ out = <<>>
  /\ IF accepted THEN CloseSession /\ pc' = "waiting" /\ UNCHANGED flags ELSE GivesUp
  /\ UNCHANGED <<taskFrame, outgoing, download>>

\* voice_turn_client_tick finds the turn ready and begins the download, or finds
\* that it failed; a cancel that is requested comes first.  A turn in progress,
\* or no answer, only makes it wait.
Poll ==
  /\ pc = "waiting"
  /\ \/ flags.cancel /\ Leave("cancelled") /\ UNCHANGED download
     \/ Leave("failed") /\ UNCHANGED download
     \/ /\ ~flags.cancel /\ pc' = "reading" /\ UNCHANGED flags
        /\ \E f \in Files : reply' = [NoReply EXCEPT !.chunks = f]
        /\ parser' = NewParser
  /\ UNCHANGED <<taskFrame, outgoing, upload>>

\* What download_audio returns, and what the client makes of it: a retry from
\* the beginning is possible until audio was handed on.
Retry ==
  IF flags.started /\ ~flags.cancel THEN Leave("failed")
  ELSE pc' = "waiting" /\ UNCHANGED flags
Verdict(p) == IF Finished(p) THEN "ready" ELSE "failed"

\* esp_http_client_read: a block, the end (which a connection that closes early
\* looks like as well), or an error.  A cancel is seen before.
ReadReply(n) ==
  /\ pc = "reading"
  /\ IF flags.cancel THEN n = 0 /\ Retry /\ UNCHANGED reply
     ELSE IF n > 0
     THEN /\ reply.got + n <= Len(File)
          /\ reply' = [reply EXCEPT !.got = @ + n] /\ pc' = "feeding" /\ UNCHANGED flags
     ELSE Leave(Verdict(parser)) /\ UNCHANGED reply
  /\ UNCHANGED <<taskFrame, outgoing, parser, upload>>

ReadBreaks ==
  /\ pc = "reading" /\ ~flags.cancel /\ Retry
  /\ UNCHANGED <<taskFrame, outgoing, download, upload>>

\* stream_pcm: only the speaker's rate is played, and only what the stream has room for.
RoomFor(rate) == IF rate = PlayRate THEN StreamSize - Len(incoming) ELSE 0

\* One pass of the inner loop: the rest of the block goes into the parser, and
\* what does not fit into the stream is fed again later.
FeedReply ==
  /\ pc = "feeding"
  /\ IF flags.cancel THEN Retry /\ UNCHANGED <<incoming, download>>
     ELSE LET s == Feed(parser, SubSeq(File, reply.fed + 1, reply.got), RoomFor)
              invalid == s.asked /\ s.p.rate # PlayRate IN
          /\ incoming' = incoming \o s.pcm
          /\ parser' = s.p /\ reply' = [reply EXCEPT !.fed = @ + s.used]
          /\ IF s.result = "error" \/ invalid
             THEN /\ pc' = "leaving"
                  /\ flags' = [flags EXCEPT !.result = "failed",
                                            !.started = @ \/ (s.asked /\ ~invalid)]
             ELSE /\ pc' = IF reply'.fed = reply.got THEN "reading" ELSE pc
                  /\ flags' = [flags EXCEPT !.started = @ \/ s.asked]
  /\ UNCHANGED <<state, recorder, pending, heard, codec, turns, upload>>

Exit ==
  /\ pc = "leaving" /\ pc' = "none" /\ flags' = [flags EXCEPT !.active = FALSE]
  /\ UNCHANGED <<taskFrame, outgoing, download, upload>>

-----------------------------------------------------------------------------
VoiceTurn ==
  \/ \E how \in {"refused", "nomemory", "unreachable", "open"} : Open(how)
  \/ Receive \/ Check \/ WriteBreaks
  \/ \E n \in 1 .. 3 : Write(n)
  \/ \E accepted \in BOOLEAN : Answered(accepted)
  \/ Poll \/ ReadBreaks \/ FeedReply \/ Exit
  \/ \E n \in 0 .. ReadSize : ReadReply(n)

MainLoop ==
  \/ Press \/ PressRefused \/ RecordingStops \/ Play \/ Acknowledge \/ SleepAborted
  \/ \E n \in 0 .. CaptureSize, released \in BOOLEAN : Record(n, released)
  \/ \E pressed \in BOOLEAN : Process(pressed)

Next == MainLoop \/ VoiceTurn \/ Elapse

Spec == Init /\ [][Next]_vars

\* Both tasks are scheduled, time passes, and every network call returns: the
\* stack's own timeouts bound a read or a poll that is not answered.  The last
\* conjunct is weak fairness of FeedReply, whose step is a stutter at most while
\* the stream is full; TLC would take long to find out when it is enabled.
Fairness ==
  /\ WF_vars(Play) /\ WF_vars(Elapse)
  /\ WF_vars(ReadReply(0) \/ ReadBreaks) /\ WF_vars(Exit)
  /\ WF_vars(Poll /\ pc' = "leaving")
  /\ []<>(pc # "feeding" \/ Len(incoming) = StreamSize) \/ []<><<FeedReply>>_vars
FairSpec == Spec /\ Fairness

-----------------------------------------------------------------------------
(* Safety.                                                                 *)

AudioTypeOK ==
  /\ state \in {"IDLE", "RECORDING", "PROCESSING", "PLAYING", "ERROR"}
  /\ flags \in [cancel : BOOLEAN, started : BOOLEAN, finished : BOOLEAN, failed : BOOLEAN,
                released : BOOLEAN, active : BOOLEAN,
                result : {"waiting", "ready", "failed", "cancelled"}]
  /\ pc \in Uploading \cup {"none", "waiting", "reading", "feeding", "leaving"}
  /\ captured \in Nat /\ Len(outgoing) <= StreamSize /\ Len(incoming) <= StreamSize
  /\ Len(pending) <= 1
  /\ UploadTypeOK

\* The ring is never out of step with itself, wherever its ends have wrapped:
\* the write position is count bytes ahead of the read position, and what lies
\* between them was captured.
RingWellFormed == WellFormed(rb)

\* What the gateway takes for a complete body is the whole recording, and the
\* device has stopped recording.
WholeBodyIsRecording ==
  peer.at = "whole" /\ pc # "opening" /\ turns > 0 /\ flags.active =>
    /\ peer.body = [i \in 1 .. captured |-> i]
    /\ state # "RECORDING" /\ ~rb.overflow

\* Whatever became of an upload, the next one finds the transport free.
NextUploadCanBegin == pc \notin Uploading \ {"opening"} => ~Busy

\* Microphone and speaker take turns on the codec, as the state machine does:
\* capture only while recording, with the speaker off, playback only while
\* playing; outside of a reply nothing waits to be played.
CodecFollowsState ==
  /\ codec.capture => state = "RECORDING" /\ codec.ready /\ ~codec.spk
  /\ codec.playback => state = "PLAYING" /\ codec.spk /\ ~codec.mic
  /\ state \in {"IDLE", "ERROR"} => pending = <<>> /\ codec.dma = <<>>

\* The speaker plays the samples of the reply and nothing else, in order and in
\* whole frames, wherever the connection, the stream and the odd byte split them.
PlayedInOrder ==
  state \in {"PROCESSING", "PLAYING"} =>
    IsPrefix(heard \o codec.dma \o pending \o incoming, Samples(reply.chunks))

\* A turn that is ready had a reply the device can play, and got its last sample:
\* a connection that closed early is not taken for the end of the file.
ReadyIsSound ==
  flags.result = "ready" =>
    Sound(reply.chunks) /\ \A i \in reply.fed + 1 .. Len(File) : File[i].value = NoSample

\* Unless it was cancelled, PLAYING ends in IDLE only when the last sample has
\* left the speaker.
HeardToTheEnd ==
  [][state = "PLAYING" /\ state' = "IDLE" /\ flags.result # "cancelled" =>
       heard = Samples(reply.chunks)]_vars

\* A sound reply is not refused, neither on the way nor at its end, however it was
\* split.
SoundReplyAccepted ==
  [][pc = "feeding" \/ (pc = "reading" /\ reply.got = Len(File) /\ ReadReply(0))
       => ~(pc' = "leaving" /\ flags'.result = "failed" /\ Sound(reply.chunks))]_vars

=============================================================================
