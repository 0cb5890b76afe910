------------------------------ MODULE Controls ------------------------------
(***************************************************************************)
(* The two keys and the power of the device, as the main loop serves them. *)
(* An iteration is app_tick, which polls KEY1 (button_driver) for the      *)
(* state machine, and then board_sticks3_power_tick, which looks at KEY2   *)
(* (a click dims the screen, a hold opens the set-up portal) and decides   *)
(* about deep sleep.  Keys and cable move between any two steps, and going *)
(* to sleep takes several.  The turn is reduced to what it reports.        *)
(*                                                                         *)
(* The code keeps the time of an event and compares the uint32_t           *)
(* difference to now; here an event has an age, counted in units of the    *)
(* shortest loop and up to the largest value a comparison tells apart.     *)
(* The two agree while no age reaches 2^32 ms.                             *)
(***************************************************************************)
EXTENDS Naturals

CONSTANTS Debounce,     \* 30 ms, for both keys
          MaxRecord,    \* MAX_RECORD_SECONDS
          ClickLimit,   \* a brightness click is shorter than 3 s
          HoldTime,     \* holding KEY2 for 3 s opens the portal
          PortalTime,   \* which closes after 300 s
          PollEvery,    \* the power source is read once a second
          SleepAfter,   \* sleep_timeout_seconds
          MaxStep       \* bound of the model: the longest loop

ASSUME ControlsAssumption ==
  /\ {Debounce, MaxRecord, ClickLimit, HoldTime, PortalTime, PollEvery, SleepAfter, MaxStep}
       \subseteq Nat \ {0}
  /\ ClickLimit <= HoldTime

VARIABLES
  pc,       \* app_tick is next, or a step of board_sticks3_power_tick, or asleep
  state,    \* app.sm
  btn,      \* button_driver_t of KEY1
  seen,     \* ignore_button_until_release, error_ack_ready, error_ack_pressed
  turn,     \* turn_task_active, turn_result, turn_audio_started, turn_cancel_requested
  light,    \* screen_brightness_t of KEY2
  portal,   \* voice_wifi_portal_t
  policy,   \* power_policy_t, and the age of last_poll
  \* the world
  key1, key2,
  cable,    \* external power, next to the battery
  irq,      \* the PMIC's interrupt on its insertion: armed, and raised
  \* history
  since,    \* the state of the device when KEY1 last went down
  woke,     \* KEY2 has been down since the device slept
  spoke,    \* age of the recording
  opened,   \* KEY2 opened the portal in the hold it is in
  quiet     \* age of the last thing that speaks against sleep

app == <<state, btn, seen, turn, spoke>>
power == <<light, portal, policy, opened, quiet>>
world == <<key1, key2, cable, since, woke>>
vars == <<pc, app, power, world, irq>>

Aged(age, n, top) == IF age + n < top THEN age + n ELSE top
\* An age that nothing is going to read is kept at its largest.
AgedIf(read, age, n, top) == IF read THEN Aged(age, n, top) ELSE top
Top == Debounce + MaxStep

-----------------------------------------------------------------------------
(* Faulty variants of definitions below, one for each property: what the   *)
(* code would say with a plausible mistake.  Nothing here uses them.       *)

LetsGo(b) == [b EXCEPT !.pressed = FALSE]
CountsFromTheStart(l, down) == [l EXCEPT !.initialized = TRUE, !.changed = 0]
BusyByState == state \notin {"IDLE", "ERROR"}
TrustFirstRead(readable) == TRUE

-----------------------------------------------------------------------------
(* button_driver.c.  debounced and is_pressed are equal after every poll   *)
(* and every reset, and are one field here.                                *)

NewButton == [raw |-> FALSE, edge |-> Debounce, pressed |-> FALSE, press |-> MaxRecord,
              fired |-> FALSE]

\* BUTTON_EVENT_MAX_RECORD_TIMEOUT, once a hold.
TimedOut(b) == b.pressed /\ ~b.fired /\ b.press >= MaxRecord
Timeout(b) == [b EXCEPT !.fired = TRUE]

\* button_poll of a button whose ages are up to date.
Poll(b, raw) ==
  LET edge == IF raw # b.raw THEN 0 ELSE b.edge
      level == IF edge >= Debounce THEN raw ELSE b.pressed
      sampled == [b EXCEPT !.raw = raw, !.edge = edge]
  IN  CASE level /\ ~b.pressed ->
             [event |-> "pressed",
              b |-> [sampled EXCEPT !.pressed = TRUE, !.press = 0, !.fired = FALSE]]
        [] ~level /\ b.pressed ->
             [event |-> "released", b |-> [sampled EXCEPT !.pressed = FALSE]]
        [] level = b.pressed /\ TimedOut(sampled) ->
             [event |-> "timeout", b |-> Timeout(sampled)]
        [] OTHER -> [event |-> "none", b |-> sampled]

-----------------------------------------------------------------------------
(* screen_brightness.c                                                     *)

NewLight == [initialized |-> FALSE, raw |-> FALSE, down |-> FALSE, armed |-> FALSE,
             changed |-> Top, pressed |-> ClickLimit + Top]

\* The first tick takes the key as it is: releasing a key that woke the device
\* is no click.
First(l, down) == [l EXCEPT !.initialized = TRUE, !.raw = down, !.down = down, !.changed = 0]

\* A press counts from its edge: pressed_ms = changed_ms.
PressedAt(l) == l.changed
Released(l) == [l EXCEPT !.down = FALSE, !.armed = FALSE]

\* screen_brightness_tick: the new state, and whether it was a click.
LightTick(l, down) ==
  LET edge == IF down # l.raw THEN [l EXCEPT !.raw = down, !.changed = 0] ELSE l
      short == edge.armed /\ edge.pressed - edge.changed < ClickLimit
  IN  IF ~l.initialized THEN [l |-> First(l, down), click |-> FALSE]
      ELSE IF edge.down = down \/ edge.changed < Debounce THEN [l |-> edge, click |-> FALSE]
      ELSE IF down
      THEN [l |-> [edge EXCEPT !.down = TRUE, !.pressed = PressedAt(edge), !.armed = TRUE],
            click |-> FALSE]
      ELSE [l |-> Released(edge), click |-> short]

-----------------------------------------------------------------------------
(* voice_wifi_portal_tick and power_policy.c                               *)

NewPortal == [held |-> FALSE, fired |-> FALSE, active |-> FALSE,
              hold |-> HoldTime, open |-> PortalTime]

PortalTick(p, down, busy) ==
  LET q == IF p.active /\ p.open >= PortalTime THEN [p EXCEPT !.active = FALSE] ELSE p IN
  IF ~down \/ busy THEN [q EXCEPT !.held = FALSE, !.fired = FALSE]
  ELSE IF ~q.held THEN [q EXCEPT !.held = TRUE, !.hold = 0]
  ELSE IF ~q.fired /\ q.hold >= HoldTime
  THEN [q EXCEPT !.active = TRUE, !.fired = TRUE, !.open = 0]
  ELSE q

\* power_policy_reset
PolicyReset(p) == [p EXCEPT !.idle = 0, !.tracking = FALSE]

\* power_policy_should_sleep, up to its answer
Tracked(p, battery, busy) ==
  IF ~battery \/ busy THEN PolicyReset(p)
  ELSE IF p.tracking THEN p ELSE [p EXCEPT !.tracking = TRUE, !.idle = 0]
ShouldSleep(p, battery, busy) ==
  battery /\ ~busy /\ Tracked(p, battery, busy).idle >= SleepAfter

-----------------------------------------------------------------------------
NoTurn == [active |-> FALSE, result |-> "failed", started |-> FALSE, cancel |-> FALSE]
NewTurn == [NoTurn EXCEPT !.active = TRUE, !.result = "waiting"]
NotSeen == [ignore |-> FALSE, ready |-> FALSE, pressed |-> FALSE]

\* Power-up, and every wake-up: a saved request is resumed, or cannot be.
Booted(s, t) ==
  /\ <<s, t>> \in {<<"IDLE", NoTurn>>, <<"PROCESSING", NewTurn>>, <<"ERROR", NoTurn>>}

Init ==
  /\ \E s \in {"IDLE", "PROCESSING", "ERROR"}, t \in {NoTurn, NewTurn} :
       Booted(s, t) /\ state = s /\ turn = t
  /\ pc = "app" /\ btn = NewButton /\ seen = NotSeen /\ light = NewLight /\ portal = NewPortal
  /\ policy = [idle |-> 0, tracking |-> FALSE, poll |-> PollEvery]
  /\ key1 \in BOOLEAN /\ key2 \in BOOLEAN /\ cable \in BOOLEAN
  /\ irq = [armed |-> FALSE, raised |-> FALSE]
  /\ since = "asleep" /\ woke = key2
  /\ spoke = 0 /\ opened = FALSE /\ quiet = 0

-----------------------------------------------------------------------------
(* The world.                                                              *)

\* The keys bounce.  A bound of the model: one hand, so that a key moves only
\* while the other one is up and was taken for that.
Key1Moves ==
  /\ ~key2 /\ ~light.down
  /\ key1' = ~key1
  /\ since' = IF key1 THEN since ELSE IF pc = "asleep" THEN pc ELSE state
  /\ UNCHANGED <<pc, app, power, key2, cable, woke, irq>>

Key2Moves ==
  /\ ~key1 /\ ~btn.pressed
  /\ key2' = ~key2
  /\ woke' = IF key2 THEN woke ELSE pc = "asleep"
  /\ UNCHANGED <<pc, app, power, key1, cable, since, irq>>

CableMoves ==
  /\ cable' = ~cable
  /\ irq' = [irq EXCEPT !.raised = @ \/ (irq.armed /\ ~cable)]
  /\ UNCHANGED <<pc, app, power, key1, key2, since, woke>>

\* The voice_turn task: audio begins, the result is known, the task leaves.
TurnPlays ==
  /\ turn.active /\ turn.result = "waiting" /\ pc # "asleep"
  /\ state # "RECORDING"
  /\ turn' = [turn EXCEPT !.started = TRUE]
  /\ UNCHANGED <<pc, state, btn, seen, spoke, power, world, irq>>

TurnEnds(result) ==
  /\ turn.active /\ turn.result = "waiting" /\ pc # "asleep"
  /\ result = "ready" => turn.started
  /\ result = "cancelled" => turn.cancel
  /\ turn' = [turn EXCEPT !.result = result]
  /\ UNCHANGED <<pc, state, btn, seen, spoke, power, world, irq>>

TurnLeaves ==
  /\ turn.active /\ turn.result # "waiting" /\ pc # "asleep"
  /\ turn' = [turn EXCEPT !.active = FALSE]
  /\ UNCHANGED <<pc, state, btn, seen, spoke, power, world, irq>>

-----------------------------------------------------------------------------
(* app_tick, on a button whose ages are up to date.                        *)

\* enter_state: into ERROR it forgets the acknowledgement, into IDLE the button.
Enter(next, b) == state' = next /\ btn' = IF next = "IDLE" THEN NewButton ELSE b
EnterError(b) == Enter("ERROR", b) /\ seen' = [seen EXCEPT !.ready = FALSE, !.pressed = FALSE]
Stay(b) == UNCHANGED state /\ btn' = b

\* IDLE: recording_start after a press, when there is a network.
Idle(b) ==
  LET poll == Poll(b, key1) IN
  IF seen.ignore
  THEN /\ UNCHANGED <<state, turn>>
       /\ btn' = IF key1 THEN b ELSE NewButton
       /\ seen' = [seen EXCEPT !.ignore = key1]
  ELSE \/ Stay(poll.b) /\ UNCHANGED <<seen, turn>>
       \/ poll.event = "pressed" /\ EnterError(poll.b) /\ UNCHANGED turn
       \/ /\ poll.event = "pressed" /\ ~turn.active
          /\ Enter("RECORDING", poll.b) /\ turn' = NewTurn /\ UNCHANGED seen

\* RECORDING: an overflow and a failed upload, which are looked at before the
\* button, end it in ERROR; a release and the limit in PROCESSING.
RecordingEnds(event) == event \in {"released", "timeout"}
Recording(b) ==
  LET poll == Poll(b, key1) IN
  /\ UNCHANGED turn
  /\ \/ EnterError(b)
     \/ /\ turn.result # "failed" \/ turn.active
        /\ IF ~RecordingEnds(poll.event) THEN Stay(poll.b) /\ UNCHANGED seen
           ELSE IF turn.active THEN Enter("PROCESSING", poll.b) /\ UNCHANGED seen
           ELSE EnterError(poll.b)

\* PROCESSING: the button cancels.  enter_state(STATE_IDLE) is no transition.
Processing(b) ==
  LET poll == Poll(b, key1)
      lost == turn.result = "failed"
  IN
  /\ turn' = [turn EXCEPT !.cancel = @ \/ poll.event = "pressed" \/ (lost /\ turn.active)]
  /\ IF lost THEN EnterError(poll.b)
     ELSE IF turn.result = "cancelled"
     THEN Stay(poll.b) /\ seen' = [seen EXCEPT !.ignore = TRUE]
     ELSE UNCHANGED seen /\ IF turn.started THEN Enter("PLAYING", poll.b) ELSE Stay(poll.b)

\* PLAYING does not poll the button.  The speaker may refuse, or have played
\* everything.
Playing(b) ==
  \/ turn.result = "cancelled" /\ Enter("IDLE", b) /\ seen' = [seen EXCEPT !.ignore = TRUE]
     /\ UNCHANGED turn
  \/ turn.result # "cancelled" /\ EnterError(b) /\ turn' = [turn EXCEPT !.cancel = TRUE]
  \/ turn.result = "ready" /\ Enter("IDLE", b) /\ UNCHANGED <<seen, turn>>
  \/ turn.result \in {"waiting", "ready"} /\ Stay(b) /\ UNCHANGED <<seen, turn>>

\* ERROR is acknowledged by a press and a release once the button was up.  What
\* it has seen is forgotten here, not when ERROR is entered again.
AckReady == seen.ready
Error(b) ==
  LET poll == Poll(b, key1) IN
  /\ UNCHANGED turn
  /\ IF ~AckReady
     THEN Stay(poll.b) /\ seen' = [seen EXCEPT !.ready = ~key1 /\ ~poll.b.pressed]
     ELSE IF poll.event = "released" /\ seen.pressed /\ ~turn.active
     THEN Enter("IDLE", poll.b) /\ seen' = [seen EXCEPT !.ready = FALSE, !.pressed = FALSE]
     ELSE Stay(poll.b) /\ seen' = [seen EXCEPT !.pressed = @ \/ poll.event = "pressed"]

\* The loop has taken n units since the last one.
AppTick(n) ==
  /\ pc = "app" /\ pc' = "power"
  /\ LET b == [btn EXCEPT !.edge = Aged(@, n, Debounce),
                          !.press = AgedIf(btn.pressed /\ ~btn.fired, @, n, MaxRecord)] IN
     \/ state = "IDLE" /\ Idle(b)
     \/ state = "RECORDING" /\ Recording(b)
     \/ state = "PROCESSING" /\ Processing(b)
     \/ state = "PLAYING" /\ Playing(b)
     \/ state = "ERROR" /\ Error(b)
  /\ spoke' = IF state = "RECORDING" THEN Aged(spoke, n, MaxRecord) ELSE 0
  /\ light' = [light EXCEPT !.changed = Aged(@, n, Top),
                            !.pressed = AgedIf(light.armed, @, n, ClickLimit + Top)]
  /\ portal' = [portal EXCEPT !.hold = AgedIf(portal.held /\ ~portal.fired, @, n, HoldTime),
                              !.open = AgedIf(portal.active, @, n, PortalTime)]
  /\ policy' = [policy EXCEPT !.idle = AgedIf(policy.tracking, @, n, SleepAfter),
                              !.poll = Aged(@, n, PollEvery)]
  /\ quiet' = Aged(quiet, n, SleepAfter)
  /\ UNCHANGED <<world, irq, opened>>

-----------------------------------------------------------------------------
(* board_sticks3_power_tick.                                               *)

Busy == state \notin {"IDLE", "ERROR"} \/ turn.active
StillAwake == pc' = "app"

\* A key that is down, and everything that is going on, start the time to sleep
\* anew in every iteration, whether or not the source is read in it.
Rested(p, awake) == IF awake THEN PolicyReset(p) ELSE p

\* searching is voice_wifi_search_grace; readable, whether the PMIC answers.
PowerTick(searching, readable) ==
  /\ pc = "power"
  /\ LET dimmed == LightTick(light, key2)
         q == PortalTick(portal, key2, Busy)
         awake == Busy \/ q.active \/ searching \/ key1 \/ key2
         p == Rested(policy, awake)
         battery == readable /\ ~cable
     IN
     /\ light' = dimmed.l /\ portal' = q
     /\ opened' = IF q.fired /\ ~portal.fired THEN TRUE
                  ELSE IF dimmed.l.down /\ ~light.down THEN FALSE ELSE opened
     /\ quiet' = IF awake \/ (policy.poll = PollEvery /\ ~battery) THEN 0 ELSE quiet
     /\ IF p.poll < PollEvery THEN policy' = p /\ StillAwake
        ELSE /\ policy' = [Tracked(p, battery, awake) EXCEPT !.poll = 0]
             /\ IF ShouldSleep(p, battery, awake) THEN pc' = "arming" ELSE StillAwake
  /\ UNCHANGED <<app, world, irq>>

NotNow == policy' = PolicyReset(policy) /\ StillAwake

\* The interrupt on the insertion of a cable is armed, and what it recorded
\* before is cleared.
ArmInterrupt ==
  /\ pc = "arming" /\ pc' = "checking"
  /\ irq' = [armed |-> TRUE, raised |-> FALSE]
  /\ UNCHANGED <<app, power, world>>

\* The source is read once more: a cable may have arrived before that.
OnBattery(readable) == readable /\ ~cable
Recheck(readable) ==
  /\ pc = "checking"
  /\ IF OnBattery(readable) THEN pc' = "cutting" /\ UNCHANGED policy ELSE NotNow
  /\ UNCHANGED <<app, light, portal, opened, quiet, world, irq>>

\* A write to the PMIC, or esp_sleep_enable_ext1_wakeup_io, or the rails fail.
SleepFails ==
  /\ pc \in {"arming", "checking", "cutting"} /\ NotNow
  /\ UNCHANGED <<app, light, portal, opened, quiet, world, irq>>

DeepSleep ==
  /\ pc = "cutting" /\ pc' = "asleep"
  /\ UNCHANGED <<app, power, world, irq>>

\* ext1: a key that is low, or the interrupt.  Everything in RAM is gone.
Wakes == key1 \/ key2 \/ irq.raised
Wake ==
  /\ pc = "asleep" /\ Wakes /\ pc' = "app"
  /\ \E s \in {"IDLE", "PROCESSING", "ERROR"}, t \in {NoTurn, NewTurn} :
       Booted(s, t) /\ state' = s /\ turn' = t
  /\ btn' = NewButton /\ seen' = NotSeen /\ light' = NewLight /\ portal' = NewPortal
  /\ policy' = [idle |-> 0, tracking |-> FALSE, poll |-> PollEvery]
  /\ spoke' = 0 /\ opened' = FALSE /\ quiet' = 0
  /\ UNCHANGED <<world, irq>>

-----------------------------------------------------------------------------
World == Key1Moves \/ Key2Moves \/ CableMoves
VoiceTurn == TurnPlays \/ TurnLeaves \/ \E r \in {"ready", "failed", "cancelled"} : TurnEnds(r)
MainLoop ==
  \/ \E n \in 1 .. MaxStep : AppTick(n)
  \/ \E searching, readable \in BOOLEAN : PowerTick(searching, readable)
  \/ ArmInterrupt \/ SleepFails \/ DeepSleep
  \/ \E readable \in BOOLEAN : Recheck(readable)
  \/ Wake

Next == World \/ VoiceTurn \/ MainLoop
Spec == Init /\ [][Next]_vars

-----------------------------------------------------------------------------
(* Safety.                                                                 *)

ControlsTypeOK ==
  /\ pc \in {"app", "power", "arming", "checking", "cutting", "asleep"}
  /\ state \in {"IDLE", "RECORDING", "PROCESSING", "PLAYING", "ERROR"}
  /\ btn \in [raw : BOOLEAN, edge : 0 .. Debounce, pressed : BOOLEAN,
              press : 0 .. MaxRecord, fired : BOOLEAN]
  /\ seen \in [ignore : BOOLEAN, ready : BOOLEAN, pressed : BOOLEAN]
  /\ turn \in [active : BOOLEAN, result : {"waiting", "ready", "failed", "cancelled"},
               started : BOOLEAN, cancel : BOOLEAN]
  /\ light \in [initialized : BOOLEAN, raw : BOOLEAN, down : BOOLEAN, armed : BOOLEAN,
                changed : 0 .. Top, pressed : 0 .. ClickLimit + Top]
  /\ light.armed => light.down
  /\ portal \in [held : BOOLEAN, fired : BOOLEAN, active : BOOLEAN,
                 hold : 0 .. HoldTime, open : 0 .. PortalTime]
  /\ policy \in [idle : 0 .. SleepAfter, tracking : BOOLEAN, poll : 0 .. PollEvery]

\* No recording outlasts MAX_RECORD_SECONDS, however the key bounces.
RecordingIsBounded == state = "RECORDING" => spoke < MaxRecord

\* A turn is cancelled by a press of its own, never by the hold that recorded
\* it, even when that goes on behind MAX_RECORD_SECONDS.
CancelIsDeliberate ==
  [][state = "PROCESSING" /\ turn'.cancel /\ ~turn.cancel /\ turn.result # "failed"
       => since # "RECORDING"]_vars

\* A hold of KEY2 is a brightness click or opens the portal, never both, and the
\* press that woke the device is no click.
OneMeaningPerHold ==
  [][light.down /\ ~light'.down /\ pc = "power" /\ LightTick(light, key2).click
       => ~opened /\ ~woke]_vars

\* The device never sleeps during a voice worker or with a portal open.
NeverSleepsBusy == pc = "asleep" => ~turn.active /\ ~portal.active

\* It decides to sleep only after it was quiet for the whole time.
SleepsOnlyWhenQuiet == [][pc # "arming" /\ pc' = "arming" => quiet = SleepAfter]_vars

\* It never sleeps through the arrival of a cable, even one that is plugged in
\* while it goes to sleep.
CableWakes == pc = "asleep" /\ cable => Wakes

-----------------------------------------------------------------------------
\* What the code does not keep (a comment in enter_state: "don't let a stale
\* hold re-trigger"): a hold that began in another state starts no recording.
StaleHoldNeverRecords ==
  [][state = "IDLE" /\ state' = "RECORDING" => since \in {"IDLE", "asleep"}]_vars
=============================================================================
