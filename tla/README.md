# A verification of hermes-echo in TLA+

hermes-echo turns a push-to-talk device (an M5Stack StickS3) into the voice of
an assistant.  The device streams a recording to a gateway; the gateway
transcribes it, has an agent answer it, speaks the answer and serves it as a
WAV file; the device polls and plays it.  This directory holds TLA+ models of
the parts that decide whether a turn is lost, run twice, cut short or left
hanging, and of the parts of the device that decide whether it can be used at
all: its sound, its keys and its sleep, its settings, its network.  TLC checks
them on small instances; TLAPS proves what matters most for all instances.

## 1. The system

    StickS3 firmware          voice gateway (FastAPI)              agent service (host)
    -----------------         ------------------------------       -----------------------
    main loop (app_tick)      upload / status / cancel handlers    HTTP adapter
      | flags, streams          | VoiceJobStore (SQLite, archive)    | AgentService + SQLite
    voice_turn task  --HTTP-->  | VoiceJobWorker (queue, 1 task) --HTTP--> workers -> CodexRuntime -> SDK
      | NVS                     | VoicePipeline: STT, agent, TTS     |
    Wi-Fi manager, VPN task,    | KnowledgeStore --files, outbox--> GitKnowledgeSync -> git
    configuration page

| component | state it keeps | operations | correct when |
|---|---|---|---|
| `jobs/store.py` VoiceJobStore | rows `voice_jobs`, archived `input.pcm`, staged uploads | claim, complete, fail, duplicate, running, progress, finish, cancel, two recoveries | every row has one owner, an acknowledged body survives every stop, a settled turn stays settled |
| `jobs/worker.py` VoiceJobWorker | bounded in-memory queue, the current task | start, close, enqueue, cancel, consumer loop | the agent runs at most once for a turn, the queue can always be refilled, what is scheduled is settled |
| `jobs/api.py` | nothing of its own | upload (one await for the body), status, audio, cancel, reset | the answers tell what the rows say |
| `pipeline.py` VoicePipeline | files of the turn | STT, agent, TTS, deadline | progress in order, an end for every task |
| `agents/codex_client.py`, `agent_service/app.py` | nothing of its own | submit, poll, cancel over HTTP | a cancelled turn cancels its request |
| `agent_service/service.py`, `store.py` AgentService | rows `requests`, `device_sessions`, `session_history`; bounded queue | submit, cancel, reset, workers, start, close | one request per device, one SDK turn per request, conversations not shared |
| `agent_service/runtime.py` CodexRuntime | cache of threads, registry of active turns | start/resume/fork, run, interrupt, timeout | a timeout or a cancel stops the turn |
| `knowledge/store.py` KnowledgeStore | journal (SQLite), pages, outbox | publish in several durable steps, replay after a crash | no page of a person overwritten, every page published once |
| `agent_service/git_sync.py` | the repository, the outbox, a lock file | verify, commit, push | every outbox item reaches the remote once |
| `firmware/src/main.c`, `state_machine.c` | state, ring buffer, flags shared by two tasks | app_tick in six states, voice_turn task | no half recording accepted, no stale reply played, the device never stuck |
| `voice_turn_client.c`, `voice_turn_http.c` | the ids of the turn, deadline, retry delay | lookup, poll, cancel, download | every wait ends |
| `http_session.c`, `voice_transport.c`, `http_voice_client.c`, `voice_http_chunk.c` | one chunked POST | begin, write, end, abort | the terminal chunk only after the whole body, the next upload can begin |
| `ring_buffer.c`, `wav_parser.c`, `audio_sticks3.c` | indices, parser state, the codec's two directions | push/pop, feed, switch, drain | the sound arrives whole and in order, in both directions |
| `button_driver.c`, `screen_brightness.c`, `voice_wifi_profiles.c`, `power_policy.c`, the power tick of `board_sticks3.c` | debounced keys, idle time | poll, click, hold, sleep, wake | a press means one thing, the device sleeps only at rest and can be woken |
| `voice_settings.c`, `voice_config_form.c`, `voice_config_httpd.c` | one settings record in RAM, its keys in NVS | load, migrate, save, reset, the page's form | no setting lost, no secret at the wrong place, a reset lasts |
| `voice_wifi_*.c`, the Wi-Fi part of `board_sticks3.c` and of the page | profiles, set-up access point, selector, scan | connect in turn, open set-up, scan | a network in range is joined, otherwise set-up opens |
| `voice_wireguard.c` | state of the tunnel | the task's tick | recording is allowed only behind the tunnel |

How they interact.  Device and gateway exchange HTTP requests, any of which,
or its response, may be lost.  On the device the main loop and the
`voice_turn` task share plain flags and two stream buffers, without a lock;
the Wi-Fi manager, the event loop, the web server and the scan task share
plain flags too; the page and the voice task save the same settings record
under a mutex that covers the write to NVS and not the copy in RAM.  The
gateway and the agent service are single asyncio loops whose SQLite calls are
synchronous: the code between two awaits is atomic and everything else
interleaves.  Gateway and agent service share the knowledge directory, a lock
file and the outbox.

What is hard: two upload handlers of one request around an await; stops of
either service between two durable writes; a bounded queue next to a count of
rows that is meant to bound it; cancels racing the end of the work they
cancel; sessions read before and written after an await; flags written one by
one while another task tests them; a ring and a stream that look empty for a
moment; a reply split anywhere by the network, the parser and the stream; lost
answers; deadlines racing late answers; going to sleep while a key or a cable
moves; a save cut after any key.  `PROJECT.json` lists each of these hazards at
its line, with the properties that cover it.

## 2. The modules

| module | models | code |
|---|---|---|
| `TurnLifecycle` | the abstract specification of a turn: open, receiving, accepted, working, one of four outcomes; one accepted body, the agent set to work at most once, acknowledgements only for the accepted body | what the v2 protocol promises, as store.py enforces it |
| `VoiceJobs` | store, handlers and worker of the gateway, with crashes and restarts; refines `TurnLifecycle` | jobs/store.py, worker.py, api.py, pipeline.py |
| `AgentService` | the agent service with its store, workers, SDK threads, turns, cancels, resets, timeouts and restarts | agent_service/service.py, store.py, runtime.py |
| `DeviceTurn` | the main loop and the voice_turn task of the firmware, NVS, reboots, a lossy network; composed with the gateway as `TurnLifecycle` | firmware main.c, state_machine.c, voice_turn_client.c, voice_turn_http.c, http_voice_client.c |
| `KnowledgeStore` | the writer of the vault: context, publish, the steps of `_apply`, replay, failed writes and stops, edits by hand | backend knowledge/store.py |
| `GitSync` | the Git publisher, composed with `KnowledgeStore` through the lock, the outbox and the pages | agent_service/git_sync.py |
| `RingBuffer` | push, pop and reset on head, tail and count, as operators | ring_buffer.c |
| `HttpUpload` | one upload connection, its session and transport, and the chunked decoder at the other end | http_session.c, voice_transport.c, http_voice_client.c, voice_http_chunk.c |
| `WavParser` | the incremental parser, as operators, next to what a sound file is | wav_parser.c |
| `AudioPath` | the sound, byte by byte, from the microphone to the gateway and from the reply to the speaker; composes the three above with the codec and the main loop | main.c, audio_sticks3.c, voice_turn_http.c |
| `Controls` | two keys, recording limit, brightness, portal, sleep and wake-up | button_driver.c, screen_brightness.c, voice_wifi_profiles.c, power_policy.c, board_sticks3.c, main.c |
| `Settings` | the shared settings record, its NVS copy, form, reset, migration | voice_settings.c, voice_config_form.c, voice_config_httpd.c, main.c |
| `WireGuard` | the VPN's task and its tick, store by store | voice_wireguard.c |
| `Network` | Wi-Fi manager, selector, set-up access point, scan, events; composed with `WireGuard` | board_sticks3.c, voice_wifi_profiles.c, voice_wifi_setup.c, voice_config_httpd.c |
| `VoiceJobs_proofs`, `AgentService_proofs`, `DeviceTurn_proofs`, `GitSync_proofs` (with the knowledge store), `AudioPath_proofs` (with the ring and the upload), `Controls_proofs`, `Settings_proofs`, `Network_proofs` | theorems, section 5 | |
| `MCVoiceJobs`, `MCAgentService`, `MCDeviceTurn`, `MCGitSync`, `MCAudioPath`, `MCControls`, `MCSettings`, `MCNetwork` | instances for TLC | |

`TurnLifecycle` is the seam between gateway and device: `VoiceJobs` implements
it (`ImplementsLifecycle`, checked and proved) and `DeviceTurn` uses it as its
gateway, so a device property checked against `TurnLifecycle` is checked
against everything the real gateway may do.  `DeviceTurn` and `AudioPath` model
the same main loop from two sides: the first has every interleaving of the
flags and counts chunks, the second has every byte and takes a tick as one
step.

### VoiceJobs

Rows are functions of the request (`status`, `sha`, `created`); `pcm` is the
archived body.  The process is `phase` (down, two steps of `start`, up), the
open upload handlers (`recv`, `isNew`), `queue`, and the consumer's `job` with
its `task`.  An action is the code between two awaits: `BeginUpload` (the
claim), `CompleteUpload` / `FailUpload` / `FinishDuplicate` (what follows the
body), `TakeJob`, `Progress`, `EndTask`, `FinishJob` (the consumer and its
task), `CancelTurn`, and `Crash`, `CrashInComplete` (between `os.replace` and
the commit), `Shutdown`, `RecoverUploads`, `RecoverJobs`, `Requeue`.
Every store statement is an operator named for it.

Abstracted: error codes and paths; the files staged in `.uploads`; audio as
its hash; `created_at` as a count (two rows never share a timestamp, where the
code would fall back to an unspecified order); `close()` as one step, since
nothing new is taken once the consumer is cancelled; SQLite never fails.

### AgentService

One function per column, one per local of a worker (`pc`, `req`, `wgen`,
`wthread`), `entry` for `runtime._active`, `target` for a cancel that awaits
its interrupt.  A worker's awaits are the values of `pc`.  `ThreadReady` may
return a fresh thread, the one asked for, or a fork of it; `TimeOut` is always
possible while a turn runs; `InterruptArrives` and `CancelReturns` are apart,
so an interrupt may act before its answer, after it, or never.

Abstracted: transcripts, answers and prompts; a submission of a known request
id, which changes nothing; the forwarding of deltas.  Assumed of the SDK:
thread ids are fresh, and an interrupted or timed-out turn ends.  `MaxGen`
bounds the resets.

### DeviceTurn

`state` is the state machine, `ids`/`nvs` the two ids in RAM and in flash,
`ring`, `outgoing`, `incoming` count chunks, and the seven flags of `app_t`
that both tasks touch are variables of their own.  The main loop has one
action per state and outcome; `on_ring_buffer_overflow` is two actions because
the order of its writes matters to the task.  The task has one action per
network wait.  `link` is what the gateway sees of each upload's connection:
open, ended by the terminal chunk after the whole recording or a cut one, or
gone.

Abstracted: bytes to chunks; time to the events it causes (the deadline may
pass whenever the code compares it; the recording limit is `released`); the
button to its reported events; a settings save writes both ids or neither;
the screen; tunnel and TLS set-up to a connection that may fail.  A press
while a task of an earlier turn is alive is refused, as in `recording_start`.
Sleep and power-off are `Reboot`, allowed anywhere.

### KnowledgeStore and GitSync

`journal` is the table `commits`: a row's status, its place among the rows,
and the before image of every file it changes; the after image is the before
image with the source added.  `page` is the vault, `outbox` the items in
`.sync`.  A publication is one action up to the commit of its row (`Publish`);
from there `pc` and `at` follow `_apply` from file to file: `Preflight`,
`Check` (read and compare), `Write` (`os.replace`), `PutItem`, `Finish`.
`Replay` enters the same steps from `_recover`, and differs from `publish` in
what a conflict does: it closes the row.  `EditByHand` needs no lock and may
come anywhere, also between `Check` and `Write`.  `GitSync` adds the pass of
`run_once`: `GitReads` (items and hashes), `GitCommits`, `GitPushes`, one
`GitUnlinks` per item, and `GitFails` for a failed or timed-out command and
for a stop.

Abstracted: a page is the sequence of publications and edits its writers had
before them, so an agent that rewords a page it was shown keeps its history;
edits only add, pages are not deleted; index.md and log.md are one file;
source pages and schema.md are immutable and left out, with `capture`; the
outbox item's `created_ns` is the order of the rows, which holds while the
clock is not set back; the repository is in order (no detached HEAD, no
unmerged index).

### RingBuffer, HttpUpload, WavParser and AudioPath

A ring is a record of `data`, `head`, `tail`, `count` and the overflow flag;
`Push` and `Pop` are defined on whole blocks with the masked indices, and
`Contents` is what the ring stands for.  `HttpUpload` keeps the state of
`http_session_t`, the two flags of `voice_transport_t`, the client's handle and
the parts that `write_all` has still to hand over; `peer` is the decoder of a
chunked body, token by token.  A handle that could not be opened, a write that
takes one part or breaks, and an abort at any point are steps of it.
`WavParser` feeds a token at a time, which is what the code's loops do with n
of them; `Sound` and `Samples` say what a file means without the parser.
`KnownRates` are the rates the parser takes, `PlayRate` the one the speaker is
opened at.  A file is a `Wave`: one format chunk and one data chunk, with any
others around them.  That is what the gateway forwards of its TTS, whose file it
has only opened with Python's `wave`; `FmtSize` is even as it is in the code.
The parser does not look at the length in the RIFF header: of a file with two
data chunks it would take a connection cut between them for the end.

`AudioPath` joins them: `Record` is the tick of RECORDING with its drain,
`Receive`/`Write`/`Check` the upload task, `ReadReply` and `FeedReply` the
download with its would-block retry, `Play` the tick of PLAYING with the odd
byte of `playback_pump`, `Elapse` the clock the speaker is drained against.
`codec` is `audio_sticks3.c`: what is open and running, what the speaker holds,
and `s_play_until_us` less the time.  Any of its calls may fail.

Abstracted: a chunk header is `HeaderSize` tokens that carry what the whole
header says; sizes are small; register values; URL and header texts; the turn
client reduced to the reply it gets (it is in `DeviceTurn`).  A turn ends here
before the next one starts.  The bounds on recordings (`MaxRecord`, the bytes
of one; `MaxTurns`, their number) are in the guards.

### Controls

An iteration of the main loop is `AppTick` (one disjunct per state, each with
`button_poll` and the state's own code) and `PowerTick`, which serves KEY2 and
the sleep policy; going to sleep takes `ArmInterrupt`, `Recheck`, `DeepSleep`,
any of which may fail.  Keys and cable may move between any two steps.  Times
are ages, capped at the largest value a comparison tells apart, which is exact
as long as no difference of two `uint32_t` times reaches 2^32 ms.  `since`,
`woke`, `spoke`, `opened` and `quiet` are history, for the properties only.

Abstracted: the turn to what it reports (`TurnPlays`, `TurnEnds`, `TurnLeaves`);
one hand, so a key moves only while the other is up; the fixed delays of the
loop, which are `MaxStep`.

### Settings

`ram` is the record that three tasks share and `nvs` the keys; a save is one
`Write` per key in the order of `save_unlocked`, so that a `PowerCut` or
`WriteFails` may come between any two.  The page is `Post` (the form laid over
the current record, and its validation), `PostSaves`, `Copy` (one step per
field, without the mutex) and `Answer`; the voice side is `BeginTurnRequest`,
`SaveTurnId`, `ClearIds`, `VoiceSaves`; then `Reset`, `Dim`, `Restart`.
`Loaded` is `voice_settings_load` with its migration of the old full address.

Abstracted: a secret is named after what it opens, so that "the right
password" can be said; the five WireGuard texts and the port, which are valid
or not together, are one field.  Not modelled: duplicated keys in a form; the
erase of a damaged NVS partition.

### WireGuard and Network

In `WireGuard` the task reads the station and the mode (`Look`), and `tick` is one
step for each store to the atomic state and for each call that opens or takes
down the tunnel, in the code's order, because other tasks read the state in
between: `Disconnect` before `StandDown`, but `LeaveAddress` before `DropTunnel`;
`BeginOpen`, `Open` and `AskPeer`; `OpenFails` before `Undo`.
`Network` has the manager's period as `Manager` steps (set-up access
point, announcement to the page, choice of a profile, `connect`), the scan task
and its stop, the page's request for a scan and the two steps of the server's
start, the driver with its queue of events, and `WifiEvent`, which handles one.
Time is counted in periods of the manager; `Period` waits for the steps that
are due within it, in any order.

Abstracted: addresses are numbers, one of them in the tunnel's subnet; passwords
and DHCP options; captive DNS and mDNS; the delays inside the VPN's task.  A call of the
library that fails, a lost connection, a page request and a manual set-up are
events counted by `MaxEvents`.

## 3. The runs

| run | shows | instance |
|---|---|---|
| `jobs` | durability of what was acknowledged, at most one run, the restart fits, settled is final, refinement of `TurnLifecycle`, what is scheduled is settled while the process stays up | 2 requests, 2 handlers, 2 bodies, queue of 1; 44.8 k states |
| `agent_safety` | one request per device, one SDK turn per request, conversations not shared | 3 requests of 2 devices, 2 workers, 3 threads, queue of 1, 2 generations |
| `agent_liveness` | what is scheduled is settled, by the timeout if need be | 2 requests of 1 device, 2 workers, 2 threads |
| `agent_reset_undone` | finding: a closed conversation becomes active again | 2 requests of 1 device |
| `device_turn` | only whole recordings accepted, a recording always has its task, the reply played is this turn's, no open turn forgotten; an uncancelled turn leaves PROCESSING, an error can be acknowledged | 2 turns, ring of 2, stream of 1, recordings of up to 4 chunks, replies of 3; 105,788 states |
| `device_cancel_hangs` | finding: a cancelled turn leaves the device in PROCESSING | 1 turn |
| `knowledge` | edits survive, what is finished reaches origin whole, nothing is forgotten, the outbox empties | 2 publications, 2 pages and the index, 1 edit by hand; 687,030 states |
| `audio` | the ring fits together, a complete body is the whole recording, the next upload can begin, the speaker plays the reply's samples in order and to the end, a sound reply is accepted and only a sound one is ready | ring of 4, streams, reads and captures of 3, recordings of up to 8 bytes, 2 turns, 4 reply files (sound with a chunk before or after the data, 16 kHz, without format); 279,544 states |
| `controls` | a cancel is a press of its own, a hold of KEY2 means one thing, no sleep while a turn or the portal is open, a cable wakes the device | debounce 1, recording 2, click and hold 3, portal 2, poll 2, sleep 2, loop 1; 2,277,095 states |
| `controls_stale_hold` | finding: a key that is still held starts a recording | loop of up to 2 |
| `settings` | no setting and no id is lost, secrets stay with what they open, a reset lasts | 2 profiles, 2 networks, 2 gateways, 9 forms, a new NVS or one of an older firmware, 2 events; 5.34 M states |
| `network` | recording only behind the tunnel (but for one step, section 4), the page has its scan, the scan has its radio, set-up opens, a network in range is joined | 2 saved of 3 profiles, 3 addresses of which one clashes, 1 event; 1,179,208 states |

**Bounds.**  Two turns and a queue of one let one turn run, one wait and let a
cancelled turn keep the place in the queue that the other needs; two handlers
and two bodies give every pair of claims, duplicates and conflicts.  Two
requests of one device and one of another give contention within a device and
across the workers; three threads allow a start, a resume and a fork; two
generations one reset between two conversations.  On the device two turns are
needed for anything stale to reach a next turn; a ring of two next to a stream
of one lets each be full while the other is not; a recording longer than both
together must wrap through them, and a reply longer than the stream must wait
for the speaker.  Two publications and two pages give items that overlap in a
page or only in the index; one edit by hand meets either publication at any
step.  In `audio` reads, captures and stream are odd, so that samples are split
everywhere, and eight bytes go twice round a ring of four.  In `controls` every
limit differs from the debounce and the polls miss some of them.  In `settings`
two events (among forms, resets, cuts and failed writes) give a form beside the
voice task's own saves and a fault, or two forms.  In `network` the saved
profiles leave a gap, and one event is a loss, a failed call, a page request
or a manual set-up in every place.

**Symmetry** is used only in `agent_safety`, on sets whose elements the module
never tells apart.

**Deadlock** is checked except in `audio`, `settings` and `network`, where the
bounds `MaxTurns` and `MaxEvents` may leave nothing to do; elsewhere the
services can always stop or start and the device can always reboot.

**Fairness.**  Gateway: the event loop runs what is ready (the consumer, its
resumption, the steps of a start) and a pipeline task ends, because
`pipeline.run` has a deadline of its own; nothing is assumed of clients.
Agent service: likewise, and the SDK answers its calls; a turn need not end
before its timeout.  Device (`LocalFairness`): both tasks are scheduled, every
network call returns within its timeout, the speaker runs dry, a recording
ends at its limit; strong fairness of `Deadline`, because the clock passes the
deadline and stays past it while the task keeps coming back to compare.
`OnlineFairness` adds that a cancel is answered in the end and that the user
acknowledges an error; `ErrorClears` is stated under it.  Knowledge
(`FairSpec`): the thread that holds the lock runs, some operation of the store
comes next and replays what is pending, and the publisher's loop comes round
every 15 s; `OutboxDrains` speaks of behaviours in which failures and stops
come to an end.  Audio: both tasks are scheduled, time passes, and every
network call returns.  (The last conjunct is weak fairness of `FeedReply`
written out: while the stream is full its step changes nothing.)  Network: the
manager, the scan and the event loop are scheduled, time passes, and a network
in range answers within the attempt; nothing is assumed of the VPN's task, of a
manual set-up or of the page's users.

**Mutants.**  Each property is paired with a small fault in a definition it
depends on (the operators marked as faulty variants or slips): a dropped guard,
a missed reset, two writes swapped.  With the fault the property fails, so it
says something about the code.

## 4. What the code does not keep

Each of these is a run whose property quotes the repository's words and fails.

* **A reset undone** (`agent_reset_undone`).  A cancel settles the row while
  the worker still awaits the SDK; a reset is then allowed, and the worker's
  `save_thread` puts the old generation and thread back.
* **PROCESSING for ever after a cancel** (`device_cancel_hangs`).  `app_tick`
  asks for PROCESSING to IDLE, which `is_valid_transition` does not allow.
* **A stale hold records** (`controls_stale_hold`).  `enter_state` resets the
  button when it enters IDLE, so a key that is still down, from a cancel in
  PLAYING or a recording cut at its limit, is a new press after the debounce.

Without a run of its own; the models contain these behaviours, and the
properties are stated so that they hold in spite of them.

Gateway and agent service:

* A cancelled turn leaves the count of queued rows at once and the queue only
  when the consumer comes to it.  In between `complete_upload` finds room and
  `enqueue` does not: an acknowledged turn waits for a restart.
  `AgentService.submit` has the same gap; the device is busy until then.
* Until a turn's handle is registered `cancel` has nothing to interrupt, and
  the registry is kept by thread (runtime.py:228): the SDK turn works on.
* A publisher's pass cut off among its unlinks may leave the earlier of two
  items.  Every publication changes the index, so that item's hashes are out of
  date and later passes answer `conflict` although nobody has edited anything.
  The next publication clears it.
* An edit by hand between the last check of a page and its `os.replace` is
  overwritten (the edits in `raced`).

Device:

* When the capture that overflows the ring and the release fall into one tick,
  PROCESSING waits for a ring that `recording_drain` no longer drains.
* A cancel whose requests are never answered is repeated without a deadline:
  the cancel path does not pass by the comparison in `voice_turn_client_tick`.
* When only the `202` is lost the task reports a failure and does not look the
  request up (docs/en/protocol.md:67 tells the client to); the saved id is
  looked up after a reboot, until the next press replaces it.
* A refusal of `hw_audio_capture_start` is ignored (main.c:356): the recording
  stays empty.  A microphone that cannot be opened again after playback is
  noticed only by the next recording.
* `http_voice_client` keeps a handle it could not open until the next begin.
* A sleep that is broken off leaves the backlight off; only a
  click of KEY2 sets it again.

Settings:

* A voice save between the page's save and its copy into RAM
  (voice_config_httpd.c:444-448) writes the old settings back: the page says
  saved, the restart uses the old ones (`disturbed`).
* A save that is cut or fails may leave a new gateway with the old token, a
  network without its password, a new request id with the old turn id (`torn`).
  The restart, 250 ms after the answer, may itself cut a running save.  What a
  failed save leaves is excused until the next finished one, which must put it
  right; after a cut `NothingLost` and `SecretsStayPaired` claim no more
  (`disturbed`).

Network:

* A scan breaks off an attempt; the selector waits its whole time and then
  takes the next profile.
* When the start with the profiles fails, the start without them forgets the
  saved networks until a restart.
* When SNTP cannot be set up the VPN stays in "error".
* A tick that stands down takes the tunnel away (voice_wireguard.c:59) before it
  stores the new state (63); the branch for a new address stores first (77-78).
  In between the status is still "connected", which the screen shows as a
  connected peer (README.md:87-89) and which lets a recording begin
  (main.c:765) while the station itself is still up, as when the set-up network
  comes.  `ReadyMeansTunnel` excuses this one place, `worker = "pausing"`, and
  no other step of a tick.
* Each connection that the manager sees, however short, gives the station its
  whole time again until set-up opens.  `SetupOpens` speaks of a device that
  stays offline, not of one whose connection comes and goes.

Hazards no model reaches: an SQLite error ends the gateway's consumer
(worker.py:73); the thread of a cancelled TTS goes on writing its file
(pipeline.py:128); SDK calls are awaited without a timeout of their own
(runtime.py:151).

## 5. What is proved

Each result holds for every value of the constants that its module's ASSUME
admits (finite sets of requests; queue and other sizes of at least one; a ring
whose capacity is a power of two, as `ring_buffer_init` demands; an address
that is not 0; "none" values outside their sets; a settings store that was
written under the names the code reads, each secret beside its name, and legacy
addresses whose replacement is current).

| module | theorem | says |
|---|---|---|
| `VoiceJobs_proofs` | `TypeCorrect` | `Spec => []TypeOK`, the bound of the queue included |
| | `BacklogFits` | `Spec => []RestartFits` |
| | `AcknowledgedStays` | `Spec => []AckedIsDurable` |
| | `RunsOnce` | `Spec => []AtMostOneRun` |
| | `SettledStays` | `Spec => SettledIsFinal` |
| | `KeepsTheProtocol` | the gateway implements `TurnLifecycle` |
| | `UploadsHaveOwners` | `Spec => []UploadOwned` |
| | `ActiveRowIsCurrent` | `Spec => []ActiveIsCurrent` |
| | `CancelReachesTask` | `Spec => []CancelStopsTask` |
| `AgentService_proofs` | `AgentTypeCorrect` | `Spec => []TypeOK` |
| | `BacklogFits` | `Spec => []RestartFits` |
| | `QueueHoldsEachOnce` | `Spec => []NothingQueuedTwice` |
| | `WaitingSurvivesRestart` | `Spec => RestartRequeues`: a start puts back every queued row |
| | `OneRequestPerDevice` | `Spec => []OnePerDevice` |
| | `OneTurnPerRequest` | `Spec => []AtMostOneTurn` |
| | `ThreadsStayApart` | `Spec => []ThreadsNotShared` |
| `DeviceTurn_proofs` | `TypeCorrect` | `Spec => []TypeOK` |
| | `AcceptsWholeRecordings` | `Spec => []WholeOrNothing` |
| | `RecordsForATask` | `Spec => []RecordingHasTask` |
| | `PlaysTheReply` | `Spec => []PlaysOwnReply` |
| | `SavesOpenTurns` | `Spec => []OpenTurnIsSaved` |
| `GitSync_proofs` | `VaultTypeCorrect` | `Spec => []GitTypeOK` |
| | `EditsAreKept` | `Spec => []EditsSurvive` |
| | `PublicationsReachOrigin` | `Spec => []NothingForgotten` |
| | `OriginIsWhole` | `Spec => []NeverHalfPushed` |
| `AudioPath_proofs` | `AudioTypeCorrect` | `Spec => []AudioTypeOK` |
| | `PushAppends`, `PopTakes` | push and pop are append and take on the contents, wrap-around included |
| | `RingStaysWellFormed` | `Spec => []RingWellFormed` |
| | `CodecTakesTurns` | `Spec => []CodecFollowsState` |
| | `UploadLeavesNoHold` | `Spec => []NextUploadCanBegin` |
| | `BodyIsTheRecording` | `Spec => []WholeBodyIsRecording` |
| | `PlaysInOrder` | `Spec => []PlayedInOrder` |
| | `ReadyReplyIsSound` | `Spec => []ReadyIsSound` |
| | `SoundRepliesAccepted` | `Spec => SoundReplyAccepted` |
| | `RepliesAreHeard` | `Spec => HeardToTheEnd` |
| `Controls_proofs` | `ControlsTypeCorrect` | `Spec => []ControlsTypeOK` |
| | `SleepsAtRest` | `Spec => []NeverSleepsBusy` |
| | `CableIsNotMissed` | `Spec => []CableWakes` |
| | `RecordingEndsInTime` | `Spec => []RecordingIsBounded` |
| | `SleepsWhenQuiet` | `Spec => SleepsOnlyWhenQuiet` |
| | `CancelsOnItsOwnPress` | `Spec => CancelIsDeliberate` |
| | `OneMeaningForAHold` | `Spec => OneMeaningPerHold` |
| `Settings_proofs` | `SettingsTypeCorrect` | `Spec => []SettingsTypeOK` |
| | `ResetLasts` | `Spec => []ResetSticks` |
| | `NothingIsLost` | `Spec => []NothingLost` |
| | `SecretsKeepTheirPairs` | `Spec => []SecretsStayPaired` |
| `Network_proofs` | `NetworkTypeCorrect` | `FairSpec => []NetworkTypeOK` |
| | `RecordsBehindTunnel` | `FairSpec => []ReadyMeansTunnel` |
| | `FlagEndsUpTrue` | `FairSpec => []FlagIsTrue` |
| | `FirstScanIsNotLost` | `FairSpec => []PortalHasScan` |
| | `NoConnectOverAScan` | `FairSpec => ScanOwnsRadio` |

The arguments.

* **VoiceJobs.**  `IInv == TypeOK /\ RestartFits /\ HashOnlyIfAccepted /\
  AckedIsDurable /\ AtMostOneRun`.  `RestartFits` is needed for `TypeOK`:
  `Requeue` fills the queue from the rows without looking at its size.
  `HashOnlyIfAccepted` rules out a hash on a row that a new upload could still
  claim, without which a repeated upload could be acknowledged for a body about
  to be replaced.  That a turn runs once follows from the rows alone: only a
  queued row is taken, and no statement makes a row that was taken queued again.
* **The refinement.**  `LifeInv` adds that at most one row is in work, that it
  is the consumer's, that a cancelled row's task was told, and that each
  uploading row has one owner.  With it every step of the gateway is a step of
  one turn of `TurnLifecycle` or changes none.
* **AgentService.**  `IInv == RowsInv /\ OnePerDevice /\ AtMostOneTurn /\
  ThreadsFit /\ QueueFits`.  `RowsInv` ties queue, rows, sessions and the workers' locals
  together; a session has its thread from its own device's history, and a fork
  is fresh, hence threads stay apart.  `QueueFits` says that the queue holds no
  request twice and only requests that have a row, so that a new submission is
  not in it yet; a start puts the rows back by the time they were created, with
  as many places as there are rows, hence each once and all of them.
* **DeviceTurn.**  `IInv == TypeOK /\ TaskInv /\ SendInv /\ WholeInv /\ NameInv
  /\ ReplyInv /\ SavedInv /\ AudioInv`.  None of the four properties is inductive
  alone.  `SendInv` counts: what was captured is in the ring, on its way or
  sent, so a task that sees `finished` and an empty ring has sent all of it, and
  an overflow keeps the ring full, hence seen.  `NameInv` says which request the
  task, RAM and NVS name and that one the task has left was reported; with it
  `SavedInv` follows: the gateway has only begun what NVS names or what was
  reported.  `ReplyInv` says that audio only ever comes of a turn that is ready.
  The many actions are sorted into kinds first (`StepKinds`), so that each part
  is proved once per kind.
* **The vault.**  `IInv == TypeInv /\ WriterInv /\ Kept /\ EditInv /\
  EditsSurvive`.  `EditInv`: when `_apply` is about to replace a page, an edit in
  it that was in time was already there when the journal row was written, so the
  row's new text holds it.  `WholeInv` is what crash recovery rests on: a
  publication of which anything has left the store (an item, a row that is done,
  a commit) is in all its pages and in what the pending row will put in their
  place.  `PassInv` carries that through a pass of the publisher: it commits the
  pages its items name, and nothing of the pending row, because a page's hash
  must be that of the latest item that names it; the latest one exists since the
  outbox is finite (`LastOne`).  `SentInv` and `HalfInv` then state the two
  properties for the local branch as well as for the origin.
* **RingBuffer and AudioPath.**  `WellFormed` says that tail is head plus count,
  modulo the capacity, and that what lies between was pushed.  The two lemmas
  about it, and the room in the stream, make `RingInv` inductive.  `CodecInv` is
  stated on a codec and a state, `Fits`, with one lemma per function of
  `audio_sticks3.c`, failures included. For the upload, `StreamInv` says that
  the body the gateway has decoded, the rest of the chunk being written, the
  stream and the ring are, in this order, the bytes 1, 2, 3, ... of the
  recording and, unless the ring overflowed, all of them; `WireInv` relates what
  is still to be written of a chunk to the state of the decoder at the other
  end; `DoneInv` says that a closed body left nothing behind.  `SessionInv` is
  what frees the transport: it is held only while the task sends, on every path
  out of an upload. For the reply, the chunks of the file get offsets
  (`Begins`), and `At`, `AtHeader`, `Pos` say what the parser knows when the
  reader has come to a byte: which chunk it is in, how much of it is left,
  whether format and data have been seen, whether a pad byte is due.  One lemma
  per kind of token (`HeaderEnd`, `DataByte`, ...) takes `Pos` from a byte to
  the next, so where a read was cut does not matter; `DownloadInv` is `Pos` at
  the bytes fed so far, plus the count of samples handed to the stream.
  `Flatten`, `Samples` and the offsets are recursive functions.  What they
  compute is shown by induction over a set of numbers: the set of those for
  which the claim fails, if not empty, has a least member (`LeastOf`, from the
  library's well-founded order of the subsets of a finite set), and `Climb` is
  the resulting rule.  `Numbered(q, d, k)` says that a queue holds the bytes k +
  1, k + 2, ... of the data chunk; `OrderInv` says it of what was played, of
  what the codec holds, of the odd byte and of the stream, one behind the other;
  `SpeakerInv` ties the codec's buffer to the time the speaker is still due.
  Their conjunction, `PlaybackInv`, is inductive on top of the upload's and the
  codec's invariants. `AudioTypeOK` needs `WireInv` as well: that the gateway's
  decoder never meets a token out of place, wherever an upload was cut off, is
  not a matter of types.
* **Controls.**  Between deciding to sleep and sleeping only the world acts
  (`RestInv`), and of that only the cable matters, whose interrupt is armed
  before the source is read for the last time (`CableInv`).  A recording is never older
  than the press it belongs to (`SpokeInv`), and the time the policy has
  counted is never longer than the time that was quiet (`QuietInv`).
  `PressInv`: while a turn runs and the driver takes KEY1 for released, a key
  that is down was pressed after the recording.  `HoldInv` compares the ages
  two modules keep of one hold of KEY2: the portal's hold began no earlier than
  the press the click would be counted from.  This is where the proof needs
  `ClickLimit <= HoldTime`, which the code has as two separate constants of
  3000 ms (screen_brightness.c:23, voice_wifi_profiles.c:70): a click
  limit two ticks longer lets TLC find one hold that is both.
* **Settings.**  `ResetInv`: while a reset writes, what it has passed is clean,
  and afterwards nobody else gets past `reset_pending`.  The other two need the
  record, the form laid over it and NVS together, as long as no save was cut or
  crossed: `SaveInv` says up to which key a save has brought its source to NVS,
  and up to which field the page has copied its form; `KeepInv` says where the
  settings that were last saved for the page then are; `IdInv` ties the open turn
  to the ids of the record and of the form; `PairInv` says that each of the three
  keeps its secrets with what they open.  Two lemmas carry it: every field is in
  the order of the writes and in that of the copies (`Orders`), and a load gives
  back what a save has written (`LoadsSaved`), which holds for the records a
  device can have (`Regular`): no stored text stands for a missing key, the sleep
  time is in its range, and the gateway is not an old full address, which
  `voice_settings_valid` refuses.  `SettingsAssumption` and `StoredAssumption`
  say the same of the constants: the addresses and forms, and an old firmware
  that left each secret with what it opens.  `KnownInv` completes the types:
  wherever a request is kept it was made here or by an older firmware, and a save
  stops behind its last key.
* **Network.**  `TunnelInv` says for each place in a tick what holds there:
  where a tunnel is opened the address is the one last seen and does not clash,
  where one is dropped the new state is stored already, and the place behind the
  disconnect is the only one where "connected" has no tunnel.  `FlagInv` says
  that the flag *will* be right: the last event in the queue, or the flag when
  it is empty, tells whether the station has an address. `ScanInv`: a page that
  is up with the set-up network has its scan, or the manager is about to
  announce one; and a network the manager has chosen was chosen without a scan,
  so one begun since then has not reached the radio. For the types two things
  have to be shown.  At most four events wait: a report of the driver uses up
  one the station had still to make (`ToCome`), only an attempt of the manager
  gives it new ones, and a period begins with an empty queue.  And the selector,
  which goes round the table from the profile it tried last, stops at one that
  is saved, if there is one (`FollowingIsSaved`).  They need the table to have a
  row and the saved profiles to be rows of it (`NetworkAssumption`).

Proved although no run checks them: `NothingQueuedTwice`, `RestartRequeues`,
`UploadOwned`, `ActiveIsCurrent`,
`CancelStopsTask`, `TypeOK` and `RestartFits` of the agent service,
`ControlsTypeOK`, `RecordingIsBounded`, `SleepsOnlyWhenQuiet`,
`CodecFollowsState`, `FlagIsTrue`, `DeviceTurn`'s `TypeOK`, `GitTypeOK`,
`AudioTypeOK`, `SettingsTypeOK`, `NetworkTypeOK`.

Only model-checked is liveness (`ScheduledSettles`, `ErrorClears`, `UncancelledTurnEnds`,
`OutboxDrains`, `SetupOpens`, `JoinsReachable`): it rests on fairness and
`ENABLED`, which the proof system does not handle.  Every safety invariant and
action property of the passing runs has its theorem above.

No module declares a RECURSIVE operator.

## 6. What is not modelled, and the plan

In this order:

1. `Pipeline`: the files of a turn, the TTS thread that outlives its task, the
   deadline; refined by the single `EndTask` of `VoiceJobs`.
2. `CodexClient` composed with `AgentService`: a gateway that stops while its
   agent request runs.
3. The gateway's rate limiter; failing SQLite statements in both services.

Left out for good: drawing and fonts, codec registers, DNS and mDNS, metrics
and logging, the vendored QR code, wording and URL texts, the STT, TTS and
Hermes clients beyond "a result or an error", the note store nothing calls, and
`playback_occupancy.c`, which no code of the device calls.
