-------------------------- MODULE Controls_proofs --------------------------
(***************************************************************************)
(* For every debounce time, limit and timeout, and every length of a loop: *)
(* the device does not sleep on a turn or a portal, nor through a cable,   *)
(* and only after it was quiet for the whole time; a recording ends in     *)
(* time; a turn is not cancelled by the press that recorded it; and a hold *)
(* of KEY2 has one meaning.                                                *)
(*                                                                         *)
(* The sleep rests on what its steps leave alone: from the decision on     *)
(* nobody but the world acts, and the world only through the cable, whose  *)
(* interrupt is armed before the source is read for the last time.  The    *)
(* keys rest on what the two drivers of a key know of the same hold: which *)
(* press each of them counts from.                                         *)
(***************************************************************************)
EXTENDS Controls, TLAPS

\* Until it sleeps, the device that has decided to stays as quiet as it was.
RestInv ==
  pc \in {"arming", "checking", "cutting", "asleep"} => ~turn.active /\ ~portal.active

\* A cable that has arrived since the last reading has raised the interrupt.
CableInv ==
  /\ irq \in [armed : BOOLEAN, raised : BOOLEAN] /\ cable \in BOOLEAN
  /\ pc \in {"checking", "cutting", "asleep"} => irq.armed
  /\ pc \in {"cutting", "asleep"} /\ cable => irq.raised

USE DEF vars, app, power, world

LEMMA InitRest == Init => RestInv
  BY DEF Init, RestInv

\* A turn starts and a portal opens only in an iteration that has not decided to
\* sleep; PowerTick decides on both as it leaves them.
LEMMA StepRest ==
  ASSUME RestInv, [Next]_vars
  PROVE  RestInv'
<1>1. CASE World
  BY <1>1 DEF World, Key1Moves, Key2Moves, CableMoves, RestInv
<1>2. CASE VoiceTurn
  <2>1. CASE TurnPlays
    BY <2>1 DEF TurnPlays, RestInv
  <2>2. CASE TurnLeaves
    BY <2>2 DEF TurnLeaves, RestInv
  <2>3. CASE \E r \in {"ready", "failed", "cancelled"} : TurnEnds(r)
    BY <2>3 DEF TurnEnds, RestInv
  <2> QED
    BY <1>2, <2>1, <2>2, <2>3 DEF VoiceTurn
<1>3. ASSUME NEW n \in 1 .. MaxStep, AppTick(n) PROVE RestInv'
  BY <1>3 DEF AppTick, RestInv
<1>4. ASSUME NEW searching \in BOOLEAN, NEW readable \in BOOLEAN, PowerTick(searching, readable)
      PROVE  RestInv'
  <2> DEFINE q == PortalTick(portal, key2, Busy)
             awake == Busy \/ q.active \/ searching \/ key1 \/ key2
             p == Rested(policy, awake)
             battery == readable /\ ~cable
  <2>1. portal' = q /\ turn' = turn
    BY <1>4 DEF PowerTick
  <2>2. pc' = "app" \/ (pc' = "arming" /\ ShouldSleep(p, battery, awake))
    <3> HIDE DEF q, p, battery, awake
    <3> QED
      BY <1>4 DEF PowerTick, StillAwake, q, p, battery, awake
  <2>3. ShouldSleep(p, battery, awake) => ~turn.active /\ ~q.active
    BY DEF ShouldSleep, Busy
  <2> HIDE DEF q, p, battery, awake
  <2> QED
    BY <2>1, <2>2, <2>3 DEF RestInv
<1>5. CASE ArmInterrupt
  BY <1>5 DEF ArmInterrupt, RestInv
<1>6. CASE SleepFails
  BY <1>6 DEF SleepFails, NotNow, StillAwake, RestInv
<1>7. CASE DeepSleep
  BY <1>7 DEF DeepSleep, RestInv
<1>8. CASE \E readable \in BOOLEAN : Recheck(readable)
  BY <1>8 DEF Recheck, NotNow, StillAwake, RestInv
<1>9. CASE Wake
  BY <1>9 DEF Wake, RestInv
<1>10. CASE UNCHANGED vars
  BY <1>10 DEF RestInv
<1> QED
  BY <1>1, <1>2, <1>3, <1>4, <1>5, <1>6, <1>7, <1>8, <1>9, <1>10 DEF Next, MainLoop

\* The device never sleeps while its voice task is alive or its portal open
\* (board_sticks3_power_tick, called by voice_main_loop with busy, main.c:976-984).
THEOREM SleepsAtRest == Spec => []NeverSleepsBusy
<1>1. RestInv => NeverSleepsBusy
  BY DEF RestInv, NeverSleepsBusy
<1> QED
  BY InitRest, StepRest, <1>1, PTL DEF Spec

LEMMA InitCable == Init => CableInv
  BY DEF Init, CableInv

\* Only CableMoves changes the cable, only ArmInterrupt clears the interrupt, and
\* Recheck goes on only without a cable.
LEMMA StepCable ==
  ASSUME CableInv, [Next]_vars
  PROVE  CableInv'
<1>1. CASE World
  <2>1. CASE Key1Moves \/ Key2Moves
    BY <2>1 DEF Key1Moves, Key2Moves, CableInv
  <2>2. CASE CableMoves
    BY <2>2 DEF CableMoves, CableInv
  <2> QED
    BY <1>1, <2>1, <2>2 DEF World
<1>2. CASE VoiceTurn
  BY <1>2 DEF VoiceTurn, TurnPlays, TurnEnds, TurnLeaves, CableInv
<1>3. CASE \E n \in 1 .. MaxStep : AppTick(n)
  BY <1>3 DEF AppTick, CableInv
<1>4. CASE \E searching, readable \in BOOLEAN : PowerTick(searching, readable)
  <2>1. pc' \in {"app", "arming"} /\ irq' = irq /\ cable' = cable
    BY <1>4 DEF PowerTick, StillAwake
  <2> QED
    BY <2>1 DEF CableInv
<1>5. CASE ArmInterrupt
  BY <1>5 DEF ArmInterrupt, CableInv
<1>6. CASE SleepFails
  BY <1>6 DEF SleepFails, NotNow, StillAwake, CableInv
<1>7. CASE DeepSleep
  BY <1>7 DEF DeepSleep, CableInv
<1>8. CASE \E readable \in BOOLEAN : Recheck(readable)
  BY <1>8 DEF Recheck, OnBattery, NotNow, StillAwake, CableInv
<1>9. CASE Wake
  BY <1>9 DEF Wake, CableInv
<1>10. CASE UNCHANGED vars
  BY <1>10 DEF CableInv
<1> QED
  BY <1>1, <1>2, <1>3, <1>4, <1>5, <1>6, <1>7, <1>8, <1>9, <1>10 DEF Next, MainLoop

\* A cable that arrives at any step on the way to sleep wakes the device
\* (board_sticks3.c:350-402).
THEOREM CableIsNotMissed == Spec => []CableWakes
<1>1. CableInv => CableWakes
  BY DEF CableInv, CableWakes, Wakes
<1> QED
  BY InitCable, StepCable, <1>1, PTL DEF Spec

-----------------------------------------------------------------------------
(* Types: what each driver returns.                                        *)

Buttons == [raw : BOOLEAN, edge : 0 .. Debounce, pressed : BOOLEAN,
            press : 0 .. MaxRecord, fired : BOOLEAN]
Lights == [initialized : BOOLEAN, raw : BOOLEAN, down : BOOLEAN, armed : BOOLEAN,
           changed : 0 .. Top, pressed : 0 .. ClickLimit + Top]
Portals == [held : BOOLEAN, fired : BOOLEAN, active : BOOLEAN,
            hold : 0 .. HoldTime, open : 0 .. PortalTime]
Policies == [idle : 0 .. SleepAfter, tracking : BOOLEAN, poll : 0 .. PollEvery]

LEMMA ConstantsPositive ==
  /\ Debounce \in Nat /\ MaxRecord \in Nat /\ ClickLimit \in Nat /\ HoldTime \in Nat
  /\ PortalTime \in Nat /\ PollEvery \in Nat /\ SleepAfter \in Nat /\ MaxStep \in Nat
  /\ MaxRecord > 0 /\ MaxStep > 0
  /\ Top \in Nat /\ ClickLimit + Top \in Nat /\ Top <= ClickLimit + Top /\ Debounce <= Top
  BY ControlsAssumption DEF Top

\* Every age may be zero, and is at its largest when a driver is new.
LEMMA Ages ==
  /\ 0 \in 0 .. Debounce /\ 0 \in 0 .. MaxRecord /\ 0 \in 0 .. HoldTime /\ 0 \in 0 .. PortalTime
  /\ 0 \in 0 .. PollEvery /\ 0 \in 0 .. SleepAfter /\ 0 \in 0 .. Top
  /\ \A age \in 0 .. Top : age \in 0 .. ClickLimit + Top
  BY ConstantsPositive

LEMMA AgedType ==
  ASSUME NEW top \in Nat, NEW age \in 0 .. top, NEW n \in Nat
  PROVE  Aged(age, n, top) \in 0 .. top /\ age <= Aged(age, n, top)
  BY DEF Aged

LEMMA NewTypes ==
  /\ NewButton \in Buttons /\ NewLight \in Lights /\ NewPortal \in Portals
  BY ConstantsPositive DEF NewButton, NewLight, NewPortal, Buttons, Lights, Portals

LEMMA PollType ==
  ASSUME NEW b \in Buttons, NEW raw \in BOOLEAN
  PROVE  Poll(b, raw).b \in Buttons
<1> DEFINE edge == IF raw # b.raw THEN 0 ELSE b.edge
           level == IF edge >= Debounce THEN raw ELSE b.pressed
           sampled == [b EXCEPT !.raw = raw, !.edge = edge]
<1>1. edge \in 0 .. Debounce /\ level \in BOOLEAN /\ b.pressed \in BOOLEAN
  BY Ages, Zenon DEF Buttons
<1>2. sampled \in Buttons
  <2> HIDE DEF edge
  <2> QED
    BY <1>1, Zenon DEF Buttons
<1>3. /\ [sampled EXCEPT !.pressed = TRUE, !.press = 0, !.fired = FALSE] \in Buttons
      /\ [sampled EXCEPT !.pressed = FALSE] \in Buttons
      /\ Timeout(sampled) \in Buttons
  <2> HIDE DEF sampled
  <2> QED
    BY <1>2, Ages, Zenon DEF Timeout, Buttons
<1> DEFINE poll == CASE level /\ ~b.pressed ->
                          [event |-> "pressed",
                           b |-> [sampled EXCEPT !.pressed = TRUE, !.press = 0, !.fired = FALSE]]
                     [] ~level /\ b.pressed ->
                          [event |-> "released", b |-> [sampled EXCEPT !.pressed = FALSE]]
                     [] level = b.pressed /\ TimedOut(sampled) ->
                          [event |-> "timeout", b |-> Timeout(sampled)]
                     [] OTHER -> [event |-> "none", b |-> sampled]
<1>4. Poll(b, raw) = poll
  BY DEF Poll
<1>5. poll.b \in Buttons
  <2> HIDE DEF level, sampled
  <2> QED
    BY <1>1, <1>2, <1>3
<1> QED
  BY <1>4, <1>5

\* A press is armed until it is released, and only after the first tick.
ArmedFits(l) == l.armed => l.down /\ l.initialized

LEMMA LightTickType ==
  ASSUME NEW l \in Lights, NEW down \in BOOLEAN, ArmedFits(l)
  PROVE  LightTick(l, down).l \in Lights /\ ArmedFits(LightTick(l, down).l)
<1> DEFINE edge == IF down # l.raw THEN [l EXCEPT !.raw = down, !.changed = 0] ELSE l
           accepted == [edge EXCEPT !.down = TRUE, !.pressed = PressedAt(edge), !.armed = TRUE]
           Good(x) == x \in Lights /\ ArmedFits(x)
<1>1. Good(edge) /\ edge.initialized = l.initialized
  BY Ages, Zenon DEF Lights, ArmedFits
<1>2. CASE ~l.initialized
  <2>1. Good(First(l, down))
    BY <1>2, Ages, Zenon DEF First, Lights, ArmedFits
  <2> QED
    BY <1>2, <2>1 DEF LightTick
<1>3. CASE l.initialized /\ (edge.down = down \/ edge.changed < Debounce)
  BY <1>1, <1>3 DEF LightTick
<1>4. CASE l.initialized /\ ~(edge.down = down \/ edge.changed < Debounce) /\ down
  <2>1. PressedAt(edge) \in 0 .. ClickLimit + Top
    <3> HIDE DEF edge
    <3> QED
      BY <1>1, Ages, Zenon DEF PressedAt, Lights
  <2>2. Good(accepted)
    <3> HIDE DEF edge
    <3> QED
      BY <1>1, <1>4, <2>1, Zenon DEF Lights, ArmedFits
  <2> QED
    BY <1>4, <2>2 DEF LightTick
<1>5. CASE l.initialized /\ ~(edge.down = down \/ edge.changed < Debounce) /\ ~down
  <2>1. Good(Released(edge))
    <3> HIDE DEF edge
    <3> QED
      BY <1>1, Zenon DEF Released, Lights, ArmedFits
  <2> QED
    BY <1>5, <2>1 DEF LightTick
<1> QED
  BY <1>2, <1>3, <1>4, <1>5

LEMMA PortalTickType ==
  ASSUME NEW p \in Portals, NEW down \in BOOLEAN, NEW busy \in BOOLEAN
  PROVE  PortalTick(p, down, busy) \in Portals
<1> DEFINE q == IF p.active /\ p.open >= PortalTime THEN [p EXCEPT !.active = FALSE] ELSE p
<1>1. q \in Portals
  BY Zenon DEF Portals
<1>2. /\ [q EXCEPT !.held = FALSE, !.fired = FALSE] \in Portals
      /\ [q EXCEPT !.held = TRUE, !.hold = 0] \in Portals
      /\ [q EXCEPT !.active = TRUE, !.fired = TRUE, !.open = 0] \in Portals
  <2> HIDE DEF q
  <2> QED
    BY <1>1, Ages, Zenon DEF Portals
<1> QED
  BY <1>1, <1>2, Zenon DEF PortalTick

LEMMA PolicyTypes ==
  ASSUME NEW p \in Policies, NEW battery \in BOOLEAN, NEW busy \in BOOLEAN
  PROVE  /\ PolicyReset(p) \in Policies /\ Rested(p, busy) \in Policies
         /\ Tracked(p, battery, busy) \in Policies
         /\ [Tracked(p, battery, busy) EXCEPT !.poll = 0] \in Policies
<1>1. /\ PolicyReset(p) \in Policies
      /\ [p EXCEPT !.tracking = TRUE, !.idle = 0] \in Policies
  BY Ages, Zenon DEF PolicyReset, Policies
<1>2. Rested(p, busy) \in Policies /\ Tracked(p, battery, busy) \in Policies
  BY <1>1, Zenon DEF Rested, Tracked
<1>3. ASSUME NEW q \in Policies PROVE [q EXCEPT !.poll = 0] \in Policies
  BY <1>3, Ages, Zenon DEF Policies
<1> QED
  BY <1>1, <1>2, <1>3, Zenon

-----------------------------------------------------------------------------
(* Types: the steps.                                                       *)

States == {"IDLE", "RECORDING", "PROCESSING", "PLAYING", "ERROR"}
Results == {"waiting", "ready", "failed", "cancelled"}
Seen == [ignore : BOOLEAN, ready : BOOLEAN, pressed : BOOLEAN]
Turns == [active : BOOLEAN, result : Results, started : BOOLEAN, cancel : BOOLEAN]

AppTypes == state \in States /\ btn \in Buttons /\ seen \in Seen /\ turn \in Turns
PowerTypes == light \in Lights /\ ArmedFits(light) /\ portal \in Portals /\ policy \in Policies
WorldTypes == key1 \in BOOLEAN /\ key2 \in BOOLEAN /\ cable \in BOOLEAN

TypeInv ==
  /\ pc \in {"app", "power", "arming", "checking", "cutting", "asleep"}
  /\ AppTypes /\ PowerTypes /\ WorldTypes

LEMMA TypeInvImplies == TypeInv => ControlsTypeOK
  BY DEF TypeInv, AppTypes, PowerTypes, WorldTypes, ControlsTypeOK, ArmedFits, States, Results, Seen, Turns,
         Buttons, Lights, Portals, Policies

LEMMA TurnTypes ==
  /\ NoTurn \in Turns /\ NewTurn \in Turns /\ NotSeen \in Seen
  BY DEF NoTurn, NewTurn, NotSeen, Turns, Results, Seen

LEMMA InitTypes == Init => TypeInv
<1> SUFFICES ASSUME Init PROVE TypeInv
  OBVIOUS
<1>1. btn \in Buttons /\ light \in Lights /\ portal \in Portals /\ seen \in Seen
  BY NewTypes, TurnTypes DEF Init
<1>2. ArmedFits(light)
  BY DEF Init, ArmedFits, NewLight
<1>3. policy \in Policies
  BY ConstantsPositive DEF Init, Policies
<1>4. state \in States /\ turn \in Turns
  BY TurnTypes DEF Init, States
<1> QED
  BY <1>1, <1>2, <1>3, <1>4 DEF Init, TypeInv, AppTypes, PowerTypes, WorldTypes

\* app_tick leaves the types of what it writes, in each of its states.
LEMMA AppKeepsTypes ==
  ASSUME AppTypes, WorldTypes, NEW b \in Buttons,
         Idle(b) \/ Recording(b) \/ Processing(b) \/ Playing(b) \/ Error(b)
  PROVE  AppTypes'
<1> DEFINE poll == Poll(b, key1)
<1>1. poll.b \in Buttons /\ NewButton \in Buttons
  BY PollType, NewTypes DEF WorldTypes
<1>2. NewTurn \in Turns
  BY TurnTypes
<1>3. \A next \in States, c \in Buttons : Enter(next, c) => state' \in States /\ btn' \in Buttons
  BY <1>1 DEF Enter
<1>4. \A c \in Buttons : EnterError(c) => state' \in States /\ btn' \in Buttons /\ seen' \in Seen
  BY <1>3, Zenon DEF EnterError, AppTypes, Seen, States
<1>5. \A c \in Buttons : Stay(c) => state' \in States /\ btn' \in Buttons
  BY DEF Stay, AppTypes
<1>6. {"IDLE", "RECORDING", "PROCESSING", "PLAYING"} \subseteq States
  BY DEF States
<1> HIDE DEF poll
<1>7. CASE Idle(b)
  <2>1. CASE seen.ignore
    <3>1. seen' \in Seen
      BY <1>7, <2>1, Zenon DEF Idle, AppTypes, WorldTypes, Seen
    <3> QED
      BY <1>1, <1>7, <2>1, <3>1 DEF Idle, AppTypes
  <2>2. CASE ~seen.ignore
    <3>1. \/ Stay(poll.b) /\ UNCHANGED <<seen, turn>>
          \/ EnterError(poll.b) /\ UNCHANGED turn
          \/ Enter("RECORDING", poll.b) /\ turn' = NewTurn /\ UNCHANGED seen
      BY <1>7, <2>2 DEF Idle, poll
    <3> QED
      BY <1>1, <1>2, <1>3, <1>4, <1>5, <1>6, <3>1 DEF AppTypes
  <2> QED
    BY <2>1, <2>2
<1>8. CASE Recording(b)
  <2>1. /\ turn' = turn
        /\ \/ EnterError(b) \/ EnterError(poll.b)
           \/ (Stay(poll.b) \/ Enter("PROCESSING", poll.b)) /\ UNCHANGED seen
    BY <1>8 DEF Recording, poll
  <2> QED
    BY <1>1, <1>3, <1>4, <1>5, <1>6, <2>1 DEF AppTypes
<1>9. CASE Processing(b)
  <2>1. turn' \in Turns
    BY <1>9, Zenon DEF Processing, AppTypes, Turns
  <2>2. \/ EnterError(poll.b)
        \/ Stay(poll.b) /\ seen' = [seen EXCEPT !.ignore = TRUE]
        \/ (Stay(poll.b) \/ Enter("PLAYING", poll.b)) /\ UNCHANGED seen
    BY <1>9 DEF Processing, poll
  <2>3. [seen EXCEPT !.ignore = TRUE] \in Seen
    BY DEF AppTypes, Seen
  <2> QED
    BY <1>1, <1>3, <1>4, <1>5, <1>6, <2>1, <2>2, <2>3 DEF AppTypes
<1>10. CASE Playing(b)
  <2>1. turn' \in Turns
    BY <1>10, Zenon DEF Playing, AppTypes, Turns
  <2>2. \/ EnterError(b)
        \/ Enter("IDLE", b) /\ seen' = [seen EXCEPT !.ignore = TRUE]
        \/ (Stay(b) \/ Enter("IDLE", b)) /\ UNCHANGED seen
    BY <1>10 DEF Playing
  <2>3. [seen EXCEPT !.ignore = TRUE] \in Seen
    BY DEF AppTypes, Seen
  <2> QED
    BY <1>1, <1>3, <1>4, <1>5, <1>6, <2>1, <2>2, <2>3 DEF AppTypes
<1>11. CASE Error(b)
  <2>1. turn' = turn /\ (Stay(poll.b) \/ Enter("IDLE", poll.b))
    BY <1>11 DEF Error, poll
  <2>2. poll.b.pressed \in BOOLEAN
    BY <1>1, Zenon DEF Buttons
  <2>3. seen' \in Seen
    <3>1. CASE ~AckReady
      <4>1. seen' = [seen EXCEPT !.ready = ~key1 /\ ~poll.b.pressed]
        BY <1>11, <3>1 DEF Error, poll
      <4> QED
        BY <2>2, <4>1, Zenon DEF AppTypes, WorldTypes, Seen
    <3>2. CASE AckReady
      <4>1. \/ seen' = [seen EXCEPT !.pressed = @ \/ poll.event = "pressed"]
            \/ seen' = [seen EXCEPT !.ready = FALSE, !.pressed = FALSE]
        BY <1>11, <3>2 DEF Error, poll
      <4> QED
        BY <4>1, Zenon DEF AppTypes, Seen
    <3> QED
      BY <3>1, <3>2
  <2> QED
    BY <1>1, <1>3, <1>5, <1>6, <2>1, <2>3 DEF AppTypes
<1> QED
  BY <1>7, <1>8, <1>9, <1>10, <1>11

\* What passes between two iterations is added to every age.
LEMMA AgeingKeepsTypes ==
  ASSUME btn \in Buttons, PowerTypes, NEW n \in 1 .. MaxStep, NEW read \in BOOLEAN,
         NEW other \in BOOLEAN
  PROVE  /\ [btn EXCEPT !.edge = Aged(@, n, Debounce), !.press = AgedIf(read, @, n, MaxRecord)] \in Buttons
         /\ LET l == [light EXCEPT !.changed = Aged(@, n, Top),
                                   !.pressed = AgedIf(read, @, n, ClickLimit + Top)] IN
            l \in Lights /\ ArmedFits(l)
         /\ [portal EXCEPT !.hold = AgedIf(read, @, n, HoldTime),
                           !.open = AgedIf(other, @, n, PortalTime)] \in Portals
         /\ [policy EXCEPT !.idle = AgedIf(read, @, n, SleepAfter),
                           !.poll = Aged(@, n, PollEvery)] \in Policies
<1>1. n \in Nat
  BY ConstantsPositive
<1>2. /\ \A age \in 0 .. Debounce : Aged(age, n, Debounce) \in 0 .. Debounce
      /\ \A age \in 0 .. MaxRecord : AgedIf(read, age, n, MaxRecord) \in 0 .. MaxRecord
      /\ \A age \in 0 .. Top : Aged(age, n, Top) \in 0 .. Top
      /\ \A age \in 0 .. ClickLimit + Top : AgedIf(read, age, n, ClickLimit + Top) \in 0 .. ClickLimit + Top
      /\ \A age \in 0 .. HoldTime : AgedIf(read, age, n, HoldTime) \in 0 .. HoldTime
      /\ \A age \in 0 .. PortalTime : AgedIf(other, age, n, PortalTime) \in 0 .. PortalTime
      /\ \A age \in 0 .. SleepAfter : AgedIf(read, age, n, SleepAfter) \in 0 .. SleepAfter
      /\ \A age \in 0 .. PollEvery : Aged(age, n, PollEvery) \in 0 .. PollEvery
  <2>1. ASSUME NEW top \in Nat, NEW age \in 0 .. top
        PROVE  /\ Aged(age, n, top) \in 0 .. top
               /\ AgedIf(read, age, n, top) \in 0 .. top /\ AgedIf(other, age, n, top) \in 0 .. top
    <3>1. Aged(age, n, top) \in 0 .. top /\ top \in 0 .. top
      BY <1>1, n \in Nat, top \in Nat, age \in 0 .. top DEF Aged
    <3> QED
      BY <3>1 DEF AgedIf
  <2> QED
    BY <2>1, ConstantsPositive
<1>3. [btn EXCEPT !.edge = Aged(@, n, Debounce), !.press = AgedIf(read, @, n, MaxRecord)] \in Buttons
  BY <1>2, Zenon DEF Buttons
<1>4. LET l == [light EXCEPT !.changed = Aged(@, n, Top),
                             !.pressed = AgedIf(read, @, n, ClickLimit + Top)] IN
      l \in Lights /\ ArmedFits(l)
  BY <1>2, Zenon DEF PowerTypes, Lights, ArmedFits
<1>5. [portal EXCEPT !.hold = AgedIf(read, @, n, HoldTime),
                     !.open = AgedIf(other, @, n, PortalTime)] \in Portals
  BY <1>2, Zenon DEF PowerTypes, Portals
<1>6. [policy EXCEPT !.idle = AgedIf(read, @, n, SleepAfter),
                     !.poll = Aged(@, n, PollEvery)] \in Policies
  BY <1>2, Zenon DEF PowerTypes, Policies
<1> QED
  BY <1>3, <1>4, <1>5, <1>6

LEMMA StepTypes ==
  ASSUME TypeInv, [Next]_vars
  PROVE  TypeInv'
<1>1. CASE World
  BY <1>1 DEF World, Key1Moves, Key2Moves, CableMoves, TypeInv, AppTypes, PowerTypes, WorldTypes, ArmedFits
<1>2. CASE VoiceTurn
  <2>1. turn' \in Turns
    <3>1. CASE TurnPlays
      BY <3>1, Zenon DEF TurnPlays, TypeInv, AppTypes, Turns
    <3>2. CASE TurnLeaves
      BY <3>2, Zenon DEF TurnLeaves, TypeInv, AppTypes, Turns
    <3>3. ASSUME NEW r \in {"ready", "failed", "cancelled"}, TurnEnds(r) PROVE turn' \in Turns
      <4>1. r \in Results
        BY DEF Results
      <4> QED
        BY <3>3, <4>1, Zenon DEF TurnEnds, TypeInv, AppTypes, Turns
    <3> QED
      BY <1>2, <3>1, <3>2, <3>3 DEF VoiceTurn
  <2>2. UNCHANGED <<pc, state, btn, seen, spoke, power, world>>
    BY <1>2 DEF VoiceTurn, TurnPlays, TurnLeaves, TurnEnds
  <2> QED
    BY <2>1, <2>2 DEF TypeInv, AppTypes, PowerTypes, WorldTypes, ArmedFits
<1>3. ASSUME NEW n \in 1 .. MaxStep, AppTick(n) PROVE TypeInv'
  <2> DEFINE b == [btn EXCEPT !.edge = Aged(@, n, Debounce),
                              !.press = AgedIf(btn.pressed /\ ~btn.fired, @, n, MaxRecord)]
  <2>0. /\ (btn.pressed /\ ~btn.fired) \in BOOLEAN /\ light.armed \in BOOLEAN
        /\ (portal.held /\ ~portal.fired) \in BOOLEAN /\ portal.active \in BOOLEAN
        /\ policy.tracking \in BOOLEAN
    BY Zenon DEF TypeInv, AppTypes, PowerTypes, Buttons, Lights, Portals, Policies
  <2>1. b \in Buttons
    BY <2>0, AgeingKeepsTypes DEF TypeInv, AppTypes
  <2>2. Idle(b) \/ Recording(b) \/ Processing(b) \/ Playing(b) \/ Error(b)
    BY <1>3 DEF AppTick
  <2>3. AppTypes'
    <3> HIDE DEF b
    <3> QED
      BY <2>1, <2>2, AppKeepsTypes DEF TypeInv
  <2>4. PowerTypes'
    <3>1. light' \in Lights /\ ArmedFits(light')
      BY <1>3, <2>0, AgeingKeepsTypes DEF AppTick, TypeInv, AppTypes
    <3>2. portal' \in Portals
      BY <1>3, <2>0, AgeingKeepsTypes DEF AppTick, TypeInv, AppTypes
    <3>3. policy' \in Policies
      BY <1>3, <2>0, AgeingKeepsTypes DEF AppTick, TypeInv, AppTypes
    <3> QED
      BY <3>1, <3>2, <3>3 DEF PowerTypes, ArmedFits
  <2> QED
    BY <1>3, <2>3, <2>4 DEF AppTick, TypeInv, WorldTypes
<1>4. ASSUME NEW searching \in BOOLEAN, NEW readable \in BOOLEAN, PowerTick(searching, readable)
      PROVE  TypeInv'
  <2> DEFINE dimmed == LightTick(light, key2)
             q == PortalTick(portal, key2, Busy)
             awake == Busy \/ q.active \/ searching \/ key1 \/ key2
             p == Rested(policy, awake)
             battery == readable /\ ~cable
  <2>1. Busy \in BOOLEAN /\ battery \in BOOLEAN /\ awake \in BOOLEAN
    <3>1. turn.active \in BOOLEAN /\ portal \in Portals /\ key2 \in BOOLEAN /\ key1 \in BOOLEAN
      BY DEF TypeInv, AppTypes, PowerTypes, WorldTypes, Turns
    <3>2. Busy \in BOOLEAN
      BY <3>1 DEF Busy
    <3>3. q.active \in BOOLEAN
      BY <3>1, <3>2, PortalTickType, Zenon DEF Portals
    <3> QED
      BY <3>1, <3>2, <3>3 DEF TypeInv, WorldTypes
  <2>2. dimmed.l \in Lights /\ ArmedFits(dimmed.l) /\ q \in Portals
    BY <2>1, LightTickType, PortalTickType DEF TypeInv, PowerTypes, WorldTypes
  <2>3. p \in Policies
    BY <2>1, PolicyTypes DEF TypeInv, PowerTypes
  <2>4. [Tracked(p, battery, awake) EXCEPT !.poll = 0] \in Policies
    <3> HIDE DEF p, battery, awake
    <3> QED
      BY <2>1, <2>3, PolicyTypes
  <2>5. /\ light' = dimmed.l /\ portal' = q
        /\ policy' = p \/ policy' = [Tracked(p, battery, awake) EXCEPT !.poll = 0]
        /\ pc' \in {"app", "arming"}
        /\ UNCHANGED <<app, world>>
    BY <1>4 DEF PowerTick, StillAwake
  <2> HIDE DEF dimmed, q, p, battery, awake
  <2> QED
    BY <2>2, <2>3, <2>4, <2>5 DEF TypeInv, AppTypes, PowerTypes, WorldTypes, ArmedFits
<1>5. CASE ArmInterrupt \/ DeepSleep
  BY <1>5 DEF ArmInterrupt, DeepSleep, TypeInv, AppTypes, PowerTypes, WorldTypes, ArmedFits
<1>6. CASE SleepFails \/ \E readable \in BOOLEAN : Recheck(readable)
  <2>1. PolicyReset(policy) \in Policies
    BY PolicyTypes DEF TypeInv, PowerTypes
  <2>2. /\ policy' \in {policy, PolicyReset(policy)} /\ pc' \in {"app", "cutting"}
        /\ UNCHANGED <<app, light, portal, world>>
    BY <1>6 DEF SleepFails, Recheck, NotNow, StillAwake
  <2> QED
    BY <2>1, <2>2 DEF TypeInv, AppTypes, PowerTypes, WorldTypes, ArmedFits
<1>7. CASE Wake
  <2>1. btn' \in Buttons /\ seen' \in Seen /\ light' \in Lights /\ portal' \in Portals
    BY <1>7, NewTypes, TurnTypes DEF Wake
  <2>2. ArmedFits(light')
    BY <1>7 DEF Wake, ArmedFits, NewLight
  <2>3. state' \in States /\ turn' \in Turns
    BY <1>7, TurnTypes DEF Wake, States
  <2>4. policy' \in Policies
    BY <1>7, ConstantsPositive DEF Wake, Policies
  <2> QED
    BY <1>7, <2>1, <2>2, <2>3, <2>4 DEF Wake, TypeInv, AppTypes, PowerTypes, WorldTypes, ArmedFits
<1>8. CASE UNCHANGED vars
  BY <1>8 DEF TypeInv, AppTypes, PowerTypes, WorldTypes, ArmedFits
<1> QED
  BY <1>1, <1>2, <1>3, <1>4, <1>5, <1>6, <1>7, <1>8 DEF Next, MainLoop

\* Ages stay within their limits and every flag a flag, for all constants.
THEOREM ControlsTypeCorrect == Spec => []ControlsTypeOK
  BY InitTypes, StepTypes, TypeInvImplies, PTL DEF Spec

-----------------------------------------------------------------------------
(* A recording ends.                                                       *)

\* A recording is as old as the press that it belongs to, at most, and that
\* press has not timed out.
SpokeInv ==
  /\ TypeInv /\ spoke \in 0 .. MaxRecord
  /\ state = "RECORDING" =>
       btn.pressed /\ ~btn.fired /\ spoke <= btn.press /\ spoke < MaxRecord

\* button_poll reports a press as new, and says nothing of an old one only while
\* it is held and its time is not up.
LEMMA PollReports ==
  ASSUME NEW b \in Buttons, NEW raw \in BOOLEAN
  PROVE  LET poll == Poll(b, raw) IN
         /\ poll.event = "pressed" => poll.b.pressed /\ ~poll.b.fired /\ poll.b.press = 0 /\ ~b.pressed
         /\ (poll.event \notin {"released", "timeout"} /\ b.pressed /\ ~b.fired) =>
              poll.b.pressed /\ ~poll.b.fired /\ poll.b.press = b.press /\ b.press < MaxRecord
<1> DEFINE edge == IF raw # b.raw THEN 0 ELSE b.edge
           level == IF edge >= Debounce THEN raw ELSE b.pressed
           sampled == [b EXCEPT !.raw = raw, !.edge = edge]
           poll == CASE level /\ ~b.pressed ->
                          [event |-> "pressed",
                           b |-> [sampled EXCEPT !.pressed = TRUE, !.press = 0, !.fired = FALSE]]
                     [] ~level /\ b.pressed ->
                          [event |-> "released", b |-> [sampled EXCEPT !.pressed = FALSE]]
                     [] level = b.pressed /\ TimedOut(sampled) ->
                          [event |-> "timeout", b |-> Timeout(sampled)]
                     [] OTHER -> [event |-> "none", b |-> sampled]
<1>1. Poll(b, raw) = poll
  BY DEF Poll
<1>2. level \in BOOLEAN /\ b.pressed \in BOOLEAN /\ b.fired \in BOOLEAN /\ b.press \in 0 .. MaxRecord
  BY Zenon DEF Buttons
<1>3. /\ sampled.pressed = b.pressed /\ sampled.fired = b.fired /\ sampled.press = b.press
      /\ LET new == [sampled EXCEPT !.pressed = TRUE, !.press = 0, !.fired = FALSE] IN
         new.pressed = TRUE /\ new.fired = FALSE /\ new.press = 0
  <2> HIDE DEF edge
  <2> QED
    BY DEF Buttons
<1>4. TimedOut(sampled) = (b.pressed /\ ~b.fired /\ b.press >= MaxRecord)
  BY <1>3, Zenon DEF TimedOut
<1> HIDE DEF level, sampled
<1>5. CASE level /\ ~b.pressed
  <2> DEFINE new == [sampled EXCEPT !.pressed = TRUE, !.press = 0, !.fired = FALSE]
  <2>1. poll = [event |-> "pressed", b |-> new]
    BY <1>2, <1>5
  <2>2. new.pressed = TRUE /\ new.fired = FALSE /\ new.press = 0
    BY <1>3
  <2> HIDE DEF new, poll
  <2> QED
    BY <1>1, <1>5, <2>1, <2>2
<1>6. CASE ~level /\ b.pressed
  <2>1. poll.event = "released"
    BY <1>6
  <2> QED
    BY <1>1, <2>1
<1>7. CASE level = b.pressed /\ TimedOut(sampled)
  <2>1. poll.event = "timeout"
    BY <1>2, <1>7
  <2> QED
    BY <1>1, <2>1
<1>8. CASE level = b.pressed /\ ~TimedOut(sampled)
  <2>1. poll = [event |-> "none", b |-> sampled]
    BY <1>2, <1>8
  <2>2. b.pressed /\ ~b.fired => b.press < MaxRecord
    <3>1. ~(b.pressed /\ ~b.fired /\ b.press >= MaxRecord)
      BY <1>4, <1>8, Zenon
    <3> QED
      BY <1>2, <3>1, ConstantsPositive
  <2>3. sampled.pressed = b.pressed /\ sampled.fired = b.fired /\ sampled.press = b.press
    BY <1>3
  <2> HIDE DEF poll
  <2> QED
    BY <1>1, <2>1, <2>2, <2>3
<1>9. level \/ ~level
  OBVIOUS
<1> QED
  BY <1>2, <1>5, <1>6, <1>7, <1>8

LEMMA StepSpoke ==
  ASSUME SpokeInv, [Next]_vars
  PROVE  SpokeInv'
<1>1. TypeInv'
  BY StepTypes DEF SpokeInv
<1>2. ASSUME NEW n \in 1 .. MaxStep, AppTick(n) PROVE SpokeInv'
  <2> DEFINE b == [btn EXCEPT !.edge = Aged(@, n, Debounce),
                              !.press = AgedIf(btn.pressed /\ ~btn.fired, @, n, MaxRecord)]
             poll == Poll(b, key1)
  <2>1. btn \in Buttons /\ key1 \in BOOLEAN /\ n \in Nat
    BY ConstantsPositive DEF SpokeInv, TypeInv, AppTypes, WorldTypes
  <2>2. b \in Buttons
    <3>1. (btn.pressed /\ ~btn.fired) \in BOOLEAN
      BY <2>1, Zenon DEF Buttons
    <3> QED
      BY <3>1, AgeingKeepsTypes DEF SpokeInv, TypeInv, AppTypes
  <2>3. b.pressed = btn.pressed /\ b.fired = btn.fired
        /\ (btn.pressed /\ ~btn.fired => b.press = Aged(btn.press, n, MaxRecord))
    BY <2>1 DEF Buttons, AgedIf
  <2>4. spoke' = IF state = "RECORDING" THEN Aged(spoke, n, MaxRecord) ELSE 0
    BY <1>2 DEF AppTick
  <2>5. spoke' \in 0 .. MaxRecord
    BY <2>1, <2>4, AgedType, ConstantsPositive DEF SpokeInv
  <2>6. \/ state = "IDLE" /\ Idle(b)
        \/ state = "RECORDING" /\ Recording(b)
        \/ state = "PROCESSING" /\ Processing(b)
        \/ state = "PLAYING" /\ Playing(b)
        \/ state = "ERROR" /\ Error(b)
    BY <1>2, Zenon DEF AppTick
  <2>7. /\ poll.event = "pressed" => poll.b.pressed /\ ~poll.b.fired /\ poll.b.press = 0
        /\ (poll.event \notin {"released", "timeout"} /\ b.pressed /\ ~b.fired) =>
             poll.b.pressed /\ ~poll.b.fired /\ poll.b.press = b.press /\ b.press < MaxRecord
    <3> HIDE DEF b
    <3> QED
      BY <2>1, <2>2, PollReports
  <2> HIDE DEF b, poll
  <2>8. CASE state' # "RECORDING"
    BY <1>1, <2>5, <2>8 DEF SpokeInv
  <2>9. CASE state' = "RECORDING" /\ state = "IDLE"
    <3>1. poll.event = "pressed" /\ btn' = poll.b
      BY <2>6, <2>9 DEF Idle, Enter, EnterError, Stay, poll
    <3> QED
      BY <1>1, <2>4, <2>5, <2>7, <2>9, <3>1, ConstantsPositive DEF SpokeInv
  <2>10. CASE state' = "RECORDING" /\ state = "RECORDING"
    <3>1. poll.event \notin {"released", "timeout"} /\ btn' = poll.b
      BY <2>6, <2>10 DEF Recording, RecordingEnds, Enter, EnterError, Stay, poll
    <3>2. btn.pressed /\ ~btn.fired /\ spoke <= btn.press
      BY <2>10 DEF SpokeInv
    <3>3. Aged(spoke, n, MaxRecord) <= Aged(btn.press, n, MaxRecord)
      <4>1. btn.press \in 0 .. MaxRecord
        BY <2>1 DEF Buttons
      <4> QED
        BY <2>1, <3>2, <4>1, ConstantsPositive DEF Aged, SpokeInv
    <3>4. btn'.pressed /\ ~btn'.fired /\ btn'.press = b.press /\ b.press < MaxRecord
      BY <2>3, <2>7, <3>1, <3>2
    <3>5. spoke' <= btn'.press /\ spoke' < MaxRecord
      <4>1. b.press \in 0 .. MaxRecord
        BY <2>2 DEF Buttons
      <4> QED
        BY <2>3, <2>4, <2>5, <2>10, <3>2, <3>3, <3>4, <4>1, ConstantsPositive
    <3> QED
      BY <1>1, <2>5, <3>4, <3>5 DEF SpokeInv
  <2>11. CASE state' = "RECORDING" /\ state \notin {"IDLE", "RECORDING"}
    BY <2>6, <2>11 DEF Processing, Playing, Error, Enter, EnterError, Stay
  <2> QED
    BY <2>8, <2>9, <2>10, <2>11
<1>3. CASE Wake
  <2>1. state' # "RECORDING" /\ spoke' = 0
    BY <1>3 DEF Wake
  <2> QED
    BY <1>1, <2>1, ConstantsPositive DEF SpokeInv
<1>4. CASE UNCHANGED <<state, btn, spoke>>
  BY <1>1, <1>4 DEF SpokeInv
<1>5. World \/ VoiceTurn => UNCHANGED <<state, btn, spoke>>
  BY DEF World, VoiceTurn, Key1Moves, Key2Moves, CableMoves, TurnPlays, TurnEnds, TurnLeaves
<1>6. (\E searching, readable \in BOOLEAN : PowerTick(searching, readable)) => UNCHANGED <<state, btn, spoke>>
  BY DEF PowerTick
<1>7. ArmInterrupt \/ SleepFails \/ DeepSleep \/ (\E readable \in BOOLEAN : Recheck(readable))
        => UNCHANGED <<state, btn, spoke>>
  BY DEF ArmInterrupt, SleepFails, DeepSleep, Recheck
<1> QED
  BY <1>2, <1>3, <1>4, <1>5, <1>6, <1>7 DEF Next, MainLoop

\* No recording outlasts MAX_RECORD_SECONDS, for every limit, debounce time and
\* length of a loop (button_driver.c:48, main.c:791).
THEOREM RecordingEndsInTime == Spec => []RecordingIsBounded
<1>1. Init => SpokeInv
  BY InitTypes, ConstantsPositive DEF Init, SpokeInv
<1>2. SpokeInv => RecordingIsBounded
  BY DEF SpokeInv, RecordingIsBounded
<1> QED
  BY <1>1, <1>2, StepSpoke, PTL DEF Spec
-----------------------------------------------------------------------------
(* The device is quiet before it sleeps.                                   *)

\* While the policy counts, nothing has spoken against sleep since it began to.
QuietInv ==
  /\ policy \in Policies /\ quiet \in 0 .. SleepAfter
  /\ policy.tracking => policy.idle <= quiet

\* The policy goes on counting only in an iteration with nothing to stay awake
\* for, and on battery when it reads the source.
LEMMA PowerTickCounts ==
  ASSUME QuietInv, NEW searching \in BOOLEAN, NEW readable \in BOOLEAN,
         cable \in BOOLEAN, PowerTick(searching, readable), policy' \in Policies
  PROVE  QuietInv' /\ (pc' = "arming" => quiet = SleepAfter)
<1> DEFINE q == PortalTick(portal, key2, Busy)
           awake == Busy \/ q.active \/ searching \/ key1 \/ key2
           p == Rested(policy, awake)
           battery == readable /\ ~cable
<1>1. /\ quiet' = IF awake \/ (policy.poll = PollEvery /\ ~battery) THEN 0 ELSE quiet
      /\ IF p.poll < PollEvery THEN policy' = p /\ StillAwake
         ELSE /\ policy' = [Tracked(p, battery, awake) EXCEPT !.poll = 0]
              /\ IF ShouldSleep(p, battery, awake) THEN pc' = "arming" ELSE StillAwake
  <2> HIDE DEF q
  <2> QED
    BY DEF PowerTick, q
<1> HIDE DEF q, awake, battery
<1>2. /\ policy.poll \in 0 .. PollEvery /\ policy.idle \in 0 .. SleepAfter
      /\ quiet \in 0 .. SleepAfter /\ SleepAfter \in Nat /\ SleepAfter > 0 /\ PollEvery \in Nat
  BY ControlsAssumption DEF QuietInv, Policies
<1>3. quiet' \in 0 .. SleepAfter
  BY <1>1, <1>2
<1>4. CASE awake
  <2>1. ~policy'.tracking /\ ~ShouldSleep(p, battery, awake)
    BY <1>1, <1>4 DEF Rested, Tracked, PolicyReset, ShouldSleep, Policies, QuietInv
  <2> QED
    BY <1>1, <1>3, <2>1 DEF QuietInv, StillAwake
<1>5. CASE ~awake
  <2>1. p = policy
    BY <1>5 DEF Rested
  <2>2. CASE policy.poll < PollEvery
    <3>1. policy' = policy /\ quiet' = quiet /\ pc' = "app"
      BY <1>1, <1>2, <1>5, <2>1, <2>2 DEF StillAwake
    <3> QED
      BY <3>1 DEF QuietInv
  <2>3. CASE policy.poll = PollEvery /\ ~battery
    <3>1. Tracked(p, battery, awake) = PolicyReset(policy) /\ ~ShouldSleep(p, battery, awake)
      BY <2>1, <2>3, Zenon DEF Tracked, ShouldSleep
    <3>2. policy' = [PolicyReset(policy) EXCEPT !.poll = 0] /\ pc' = "app"
      BY <1>1, <1>2, <2>1, <2>3, <3>1 DEF StillAwake
    <3>3. ~policy'.tracking
      BY <3>2 DEF PolicyReset, QuietInv, Policies
    <3> QED
      BY <1>3, <3>2, <3>3 DEF QuietInv
  <2>4. CASE policy.poll = PollEvery /\ battery
    <3>1. quiet' = quiet
      BY <1>1, <1>5, <2>4
    <3> DEFINE counted == Tracked(policy, battery, awake)
    <3>2. policy.tracking => counted = policy
      BY <1>5, <2>4, Zenon DEF Tracked
    <3>3. ~policy.tracking => counted = [policy EXCEPT !.tracking = TRUE, !.idle = 0]
      BY <1>5, <2>4, Zenon DEF Tracked
    <3> HIDE DEF counted
    <3>4. counted \in Policies /\ counted.idle = IF policy.tracking THEN policy.idle ELSE 0
      <4>1. CASE policy.tracking
        BY <3>2, <4>1 DEF QuietInv
      <4>2. CASE ~policy.tracking
        <5>1. policy \in Policies
          BY DEF QuietInv
        <5>2. counted = [policy EXCEPT !.tracking = TRUE, !.idle = 0]
          BY <3>3, <4>2
        <5>3. counted \in Policies
          BY <5>1, <5>2, Ages, Zenon DEF Policies
        <5>4. counted.idle = 0
          BY <5>1, <5>2 DEF Policies
        <5> QED
          BY <4>2, <5>3, <5>4, Zenon
      <4> QED
        BY <4>1, <4>2
    <3>5. policy' = [counted EXCEPT !.poll = 0]
      <4>1. ~(p.poll < PollEvery)
        BY <1>2, <2>1, <2>4
      <4>2. policy' = [Tracked(p, battery, awake) EXCEPT !.poll = 0]
        BY <1>1, <4>1, Zenon
      <4> QED
        BY <2>1, <4>2, Zenon DEF counted
    <3>6. policy'.idle = counted.idle
      BY <3>4, <3>5 DEF Policies
    <3>7. policy'.idle <= quiet
      BY <1>2, <3>4, <3>6 DEF QuietInv
    <3>8. pc' = "arming" => counted.idle >= SleepAfter
      BY <1>1, <1>2, <2>1, <2>4 DEF ShouldSleep, StillAwake, counted
    <3> QED
      BY <1>2, <1>3, <3>1, <3>7, <3>8, <3>4 DEF QuietInv
  <2> QED
    BY <1>2, <2>2, <2>3, <2>4
<1> QED
  BY <1>4, <1>5

\* Time makes both ages grow alike; a sleep that is given up begins to count anew.
LEMMA StepQuiet ==
  ASSUME QuietInv, cable \in BOOLEAN, policy' \in Policies, [Next]_vars
  PROVE  QuietInv' /\ (pc # "arming" /\ pc' = "arming" => quiet = SleepAfter)
<1>1. ASSUME NEW n \in 1 .. MaxStep, AppTick(n)
      PROVE  QuietInv' /\ pc' # "arming"
  <2>1. /\ policy' = [policy EXCEPT !.idle = AgedIf(policy.tracking, @, n, SleepAfter),
                                    !.poll = Aged(@, n, PollEvery)]
        /\ quiet' = Aged(quiet, n, SleepAfter) /\ pc' = "power"
    BY <1>1 DEF AppTick
  <2>2. policy'.tracking = policy.tracking
        /\ policy'.idle = AgedIf(policy.tracking, policy.idle, n, SleepAfter)
    BY <2>1 DEF QuietInv, Policies
  <2>3. SleepAfter \in Nat /\ n \in Nat /\ quiet \in 0 .. SleepAfter /\ policy.idle \in 0 .. SleepAfter
    BY ConstantsPositive DEF QuietInv, Policies
  <2>4. quiet' \in 0 .. SleepAfter
    BY <2>1, <2>3, AgedType
  <2>5. policy.tracking => policy'.idle <= quiet'
    BY <2>1, <2>2, <2>3 DEF Aged, AgedIf, QuietInv
  <2> QED
    BY <2>1, <2>2, <2>4, <2>5 DEF QuietInv
<1>2. ASSUME NotNow PROVE QuietInv' \/ quiet' # quiet
  BY <1>2 DEF NotNow, PolicyReset, QuietInv, Policies
<1>3. ASSUME UNCHANGED <<policy, quiet>> PROVE QuietInv'
  BY <1>3 DEF QuietInv
<1>4. CASE World
  BY <1>3, <1>4 DEF World, Key1Moves, Key2Moves, CableMoves
<1>5. CASE VoiceTurn
  BY <1>3, <1>5 DEF VoiceTurn, TurnPlays, TurnEnds, TurnLeaves
<1>6. CASE ArmInterrupt \/ DeepSleep
  BY <1>3, <1>6 DEF ArmInterrupt, DeepSleep
<1>7. CASE SleepFails
  BY <1>2, <1>7 DEF SleepFails, NotNow, StillAwake
<1>8. CASE \E readable \in BOOLEAN : Recheck(readable)
  BY <1>2, <1>3, <1>8 DEF Recheck, NotNow, StillAwake
<1>9. CASE Wake
  <2>1. ~policy'.tracking /\ quiet' = 0 /\ pc' = "app"
    BY <1>9 DEF Wake
  <2> QED
    BY <2>1, Ages DEF QuietInv
<1>10. CASE UNCHANGED vars
  BY <1>3, <1>10
<1> QED
  BY <1>1, <1>4, <1>5, <1>6, <1>7, <1>8, <1>9, <1>10, PowerTickCounts DEF Next, MainLoop

\* The device decides to sleep only when for the whole time nothing spoke against
\* it, although the policy samples the source only every few iterations
\* (board_sticks3.c:319-348, power_policy.c).
THEOREM SleepsWhenQuiet == Spec => SleepsOnlyWhenQuiet
<1>1. Init => QuietInv
  BY InitTypes, Ages DEF Init, TypeInv, PowerTypes, QuietInv
<1>2. TypeInv /\ TypeInv' /\ QuietInv /\ [Next]_vars
        => QuietInv' /\ [pc # "arming" /\ pc' = "arming" => quiet = SleepAfter]_vars
  BY StepQuiet DEF TypeInv, PowerTypes, WorldTypes
<1> QED
  BY <1>1, <1>2, InitTypes, StepTypes, PTL DEF Spec, SleepsOnlyWhenQuiet

-----------------------------------------------------------------------------
(* What a hold of a key means.                                             *)

\* What KEY1 does after a recording: the hold that recorded it is over when the
\* driver takes the key for released, and none began while the device fell asleep.
PressInv ==
  /\ state = "PROCESSING" /\ ~btn.pressed /\ key1 => since # "RECORDING"
  /\ pc \in {"arming", "checking", "cutting", "asleep"} =>
       state \in {"IDLE", "ERROR"} /\ (key1 => since # "RECORDING")

\* What KEY2 does: the portal's hold began no earlier than the press the click
\* would be counted from.
Counting == portal.held /\ ~portal.fired
OldEnough(age) == age >= ClickLimit
HoldInv ==
  /\ portal.held => light.raw
  /\ ~light.down /\ light.raw =>
       /\ light.changed < (IF pc = "power" THEN Top ELSE Debounce)
       /\ Counting => portal.hold <= light.changed
  /\ light.armed /\ Counting => OldEnough(light.pressed) \/ portal.hold <= light.pressed
  /\ opened /\ light.armed =>
       IF light.raw THEN OldEnough(light.pressed) ELSE light.pressed >= ClickLimit + light.changed

\* A press that is going to count began while the device was awake.
AwakeInv ==
  /\ woke \in BOOLEAN /\ opened \in BOOLEAN
  /\ light.raw \/ light.down \/ light.armed => light.initialized
  /\ pc # "asleep" /\ light.initialized /\ ~light.down /\ key2 => ~woke
  /\ pc # "asleep" /\ light.armed => ~woke

\* button_poll takes the key for pressed, or for released, only as it finds it.
LEMMA PollFollows ==
  ASSUME NEW b \in Buttons, NEW raw \in BOOLEAN
  PROVE  LET poll == Poll(b, raw) IN
         /\ poll.event = "pressed" => raw /\ ~b.pressed
         /\ raw /\ b.pressed => poll.b.pressed
<1> DEFINE edge == IF raw # b.raw THEN 0 ELSE b.edge
           level == IF edge >= Debounce THEN raw ELSE b.pressed
           sampled == [b EXCEPT !.raw = raw, !.edge = edge]
           poll == CASE level /\ ~b.pressed ->
                          [event |-> "pressed",
                           b |-> [sampled EXCEPT !.pressed = TRUE, !.press = 0, !.fired = FALSE]]
                     [] ~level /\ b.pressed ->
                          [event |-> "released", b |-> [sampled EXCEPT !.pressed = FALSE]]
                     [] level = b.pressed /\ TimedOut(sampled) ->
                          [event |-> "timeout", b |-> Timeout(sampled)]
                     [] OTHER -> [event |-> "none", b |-> sampled]
<1>1. Poll(b, raw) = poll
  BY DEF Poll
<1>2. level \in BOOLEAN /\ b.pressed \in BOOLEAN
  BY Zenon DEF Buttons
<1>3. sampled.pressed = b.pressed /\ Timeout(sampled).pressed = b.pressed
  <2> HIDE DEF edge
  <2> QED
    BY DEF Buttons, Timeout
<1>4. /\ level /\ ~b.pressed => raw
      /\ raw /\ b.pressed => level
  OBVIOUS
<1> HIDE DEF level, sampled
<1>5. CASE level /\ ~b.pressed
  BY <1>1, <1>4, <1>5
<1>6. CASE ~level /\ b.pressed
  <2>1. poll.event = "released"
    BY <1>6
  <2> QED
    BY <1>1, <1>4, <1>6, <2>1
<1>7. CASE level = b.pressed /\ TimedOut(sampled)
  <2>1. poll = [event |-> "timeout", b |-> Timeout(sampled)]
    BY <1>2, <1>7
  <2> HIDE DEF poll
  <2> QED
    BY <1>1, <1>3, <2>1
<1>8. CASE level = b.pressed /\ ~TimedOut(sampled)
  <2>1. poll = [event |-> "none", b |-> sampled]
    BY <1>2, <1>8
  <2> HIDE DEF poll
  <2> QED
    BY <1>1, <1>3, <2>1
<1> QED
  BY <1>2, <1>5, <1>6, <1>7, <1>8

LEMMA StepPress ==
  ASSUME SpokeInv, PressInv, [Next]_vars
  PROVE  /\ PressInv'
         /\ state = "PROCESSING" /\ turn'.cancel /\ ~turn.cancel /\ turn.result # "failed"
              => since # "RECORDING"
<1> DEFINE Deliberate == state = "PROCESSING" /\ turn'.cancel /\ ~turn.cancel /\ turn.result # "failed"
                           => since # "RECORDING"
<1>1. ASSUME NEW n \in 1 .. MaxStep, AppTick(n) PROVE PressInv' /\ Deliberate
  <2> DEFINE b == [btn EXCEPT !.edge = Aged(@, n, Debounce),
                              !.press = AgedIf(btn.pressed /\ ~btn.fired, @, n, MaxRecord)]
             poll == Poll(b, key1)
  <2>1. btn \in Buttons /\ key1 \in BOOLEAN /\ turn \in Turns
    BY DEF SpokeInv, TypeInv, AppTypes, WorldTypes
  <2>2. b \in Buttons /\ b.pressed = btn.pressed
    <3>1. (btn.pressed /\ ~btn.fired) \in BOOLEAN
      BY <2>1, Zenon DEF Buttons
    <3>2. b \in Buttons
      BY <3>1, AgeingKeepsTypes DEF SpokeInv, TypeInv, AppTypes
    <3> QED
      BY <2>1, <3>2 DEF Buttons
  <2>3. \/ state = "IDLE" /\ Idle(b)
        \/ state = "RECORDING" /\ Recording(b)
        \/ state = "PROCESSING" /\ Processing(b)
        \/ state = "PLAYING" /\ Playing(b)
        \/ state = "ERROR" /\ Error(b)
    BY <1>1, Zenon DEF AppTick
  <2>4. /\ poll.event = "pressed" => key1 /\ ~b.pressed
        /\ key1 /\ b.pressed => poll.b.pressed
    <3> HIDE DEF b
    <3> QED
      BY <2>1, <2>2, PollFollows
  <2>5. pc' = "power" /\ key1' = key1 /\ since' = since
    BY <1>1 DEF AppTick
  <2> HIDE DEF b, poll
  <2>6. CASE state = "RECORDING"
    <3>1. btn.pressed
      BY <2>6 DEF SpokeInv
    <3>2. state' = "PROCESSING" => btn' = poll.b
      BY <2>3, <2>6 DEF Recording, Stay, Enter, EnterError, poll
    <3> QED
      BY <2>2, <2>4, <2>5, <2>6, <3>1, <3>2 DEF PressInv
  <2>7. CASE state = "PROCESSING"
    <3>1. state' = "PROCESSING" => btn' = poll.b
      BY <2>3, <2>7 DEF Processing, Stay, Enter, EnterError, poll
    <3>2. turn' = [turn EXCEPT !.cancel = @ \/ poll.event = "pressed"
                                            \/ (turn.result = "failed" /\ turn.active)]
      BY <2>3, <2>7 DEF Processing, poll
    <3>3. turn'.cancel /\ ~turn.cancel /\ turn.result # "failed" => poll.event = "pressed"
      BY <2>1, <3>2 DEF Turns
    <3> QED
      BY <2>2, <2>4, <2>5, <2>7, <3>1, <3>3 DEF PressInv
  <2>8. CASE state \notin {"RECORDING", "PROCESSING"}
    <3>1. state' # "PROCESSING"
      BY <2>3, <2>8 DEF Idle, Playing, Error, Stay, Enter, EnterError
    <3> QED
      BY <2>5, <2>8, <3>1 DEF PressInv
  <2> QED
    BY <2>6, <2>7, <2>8
<1>2. ASSUME NEW searching \in BOOLEAN, NEW readable \in BOOLEAN, PowerTick(searching, readable)
      PROVE  PressInv' /\ Deliberate
  <2> DEFINE q == PortalTick(portal, key2, Busy)
             awake == Busy \/ q.active \/ searching \/ key1 \/ key2
             p == Rested(policy, awake)
             battery == readable /\ ~cable
  <2>1. UNCHANGED <<state, btn, turn, key1, since>>
    BY <1>2 DEF PowerTick
  <2>2. pc' = "app" \/ (pc' = "arming" /\ ShouldSleep(p, battery, awake))
    <3> HIDE DEF q, p, battery, awake
    <3> QED
      BY <1>2 DEF PowerTick, StillAwake, q, p, battery, awake
  <2>3. ShouldSleep(p, battery, awake) => state \in {"IDLE", "ERROR"} /\ ~key1
    BY DEF ShouldSleep, Busy
  <2> HIDE DEF q, p, battery, awake
  <2> QED
    BY <2>1, <2>2, <2>3 DEF PressInv
<1>3. CASE World
  BY <1>3 DEF World, Key1Moves, Key2Moves, CableMoves, PressInv
<1>4. CASE VoiceTurn
  <2>1. UNCHANGED <<pc, state, btn, key1, since>>
    BY <1>4 DEF VoiceTurn, TurnPlays, TurnEnds, TurnLeaves
  <2>2. turn \in Turns
    BY DEF SpokeInv, TypeInv, AppTypes
  <2>3. turn'.cancel = turn.cancel
    BY <1>4, <2>2 DEF VoiceTurn, TurnPlays, TurnEnds, TurnLeaves, Turns
  <2> QED
    BY <2>1, <2>3 DEF PressInv
<1>5. CASE ArmInterrupt \/ DeepSleep
  BY <1>5 DEF ArmInterrupt, DeepSleep, PressInv
<1>6. CASE SleepFails \/ \E readable \in BOOLEAN : Recheck(readable)
  BY <1>6 DEF SleepFails, Recheck, NotNow, StillAwake, PressInv
<1>7. CASE Wake
  BY <1>7 DEF Wake, PressInv
<1>8. CASE UNCHANGED vars
  BY <1>8 DEF PressInv
<1> QED
  BY <1>1, <1>2, <1>3, <1>4, <1>5, <1>6, <1>7, <1>8 DEF Next, MainLoop

\* A turn is cancelled by a press of its own: the hold that recorded it, even one
\* that goes on behind MAX_RECORD_SECONDS and bounces, is over when the driver
\* reports the next press (main.c, STATE_PROCESSING; button_driver.c).
THEOREM CancelsOnItsOwnPress == Spec => CancelIsDeliberate
<1>1. Init => SpokeInv /\ PressInv
  BY InitTypes, ConstantsPositive DEF Init, SpokeInv, PressInv, Booted
<1>2. SpokeInv /\ PressInv /\ [Next]_vars
        => /\ SpokeInv' /\ PressInv'
           /\ [state = "PROCESSING" /\ turn'.cancel /\ ~turn.cancel /\ turn.result # "failed"
                 => since # "RECORDING"]_vars
  BY StepSpoke, StepPress
<1> QED
  BY <1>1, <1>2, PTL DEF Spec, CancelIsDeliberate

\* What one tick of screen_brightness.c does: it starts, it waits out the
\* debounce, it takes the key for pressed or for released.
LEMMA LightTicks ==
  ASSUME NEW l \in Lights, NEW down \in BOOLEAN, ArmedFits(l)
  PROVE  LET t == LightTick(l, down)
             m == t.l
             age == IF down # l.raw THEN 0 ELSE l.changed
         IN  /\ m.raw = down /\ m.initialized
             /\ \/ ~l.initialized /\ m.down = down /\ ~m.armed /\ ~t.click
                \/ /\ l.initialized /\ (l.down = down \/ age < Debounce) /\ ~t.click
                   /\ m.down = l.down /\ m.armed = l.armed /\ m.changed = age /\ m.pressed = l.pressed
                \/ /\ l.initialized /\ ~l.down /\ down /\ age >= Debounce /\ ~t.click
                   /\ m.down /\ m.armed /\ m.pressed = age
                \/ /\ l.initialized /\ l.down /\ ~down
                   /\ ~m.down /\ ~m.armed
                   /\ t.click = (l.armed /\ l.pressed - age < ClickLimit)
<1> DEFINE t == LightTick(l, down)
           m == t.l
           age == IF down # l.raw THEN 0 ELSE l.changed
           edge == IF down # l.raw THEN [l EXCEPT !.raw = down, !.changed = 0] ELSE l
           short == edge.armed /\ edge.pressed - edge.changed < ClickLimit
           accepted == [edge EXCEPT !.down = TRUE, !.pressed = PressedAt(edge), !.armed = TRUE]
<1>1. l.initialized \in BOOLEAN /\ l.down \in BOOLEAN /\ l.raw \in BOOLEAN /\ age \in 0 .. Top
  <2>1. l.initialized \in BOOLEAN /\ l.down \in BOOLEAN /\ l.raw \in BOOLEAN /\ l.changed \in 0 .. Top
    BY Zenon DEF Lights
  <2> QED
    BY <2>1, Ages
<1>2. /\ edge \in Lights /\ edge.raw = down /\ edge.changed = age
      /\ edge.initialized = l.initialized /\ edge.down = l.down /\ edge.armed = l.armed
      /\ edge.pressed = l.pressed
  <2>1. edge \in Lights
    BY Ages, Zenon DEF Lights
  <2> QED
    BY <2>1 DEF Lights
<1>3. CASE ~l.initialized
  <2>1. LightTick(l, down) = [l |-> First(l, down), click |-> FALSE]
    BY <1>3 DEF LightTick
  <2>2. First(l, down).raw = down /\ First(l, down).initialized = TRUE
        /\ First(l, down).down = down /\ First(l, down).armed = l.armed
    BY DEF First, Lights
  <2>3. ~l.armed
    BY <1>3 DEF ArmedFits
  <2>4. m = First(l, down) /\ t.click = FALSE
    BY <2>1
  <2> HIDE DEF m, t
  <2> QED
    BY <1>3, <2>2, <2>3, <2>4 DEF m, t
<1>4. CASE l.initialized /\ (l.down = down \/ age < Debounce)
  <2>1. edge.down = down \/ edge.changed < Debounce
    BY <1>2, <1>4
  <2>2. LightTick(l, down) = [l |-> edge, click |-> FALSE]
    BY <1>4, <2>1 DEF LightTick
  <2>3. m = edge /\ t.click = FALSE
    BY <2>2
  <2> HIDE DEF edge, age, m, t
  <2>4. /\ m.raw = down /\ m.initialized = l.initialized /\ m.changed = age
        /\ m.down = l.down /\ m.armed = l.armed /\ m.pressed = l.pressed
    BY <1>2, <2>3
  <2> QED
    BY <1>4, <2>3, <2>4 DEF age, m, t
<1>5. CASE l.initialized /\ ~(l.down = down \/ age < Debounce)
  <2>0. ~(edge.down = down \/ edge.changed < Debounce)
    BY <1>2, <1>5
  <2>1. CASE down
    <3>1. LightTick(l, down) = [l |-> accepted, click |-> FALSE]
      BY <1>5, <2>0, <2>1 DEF LightTick
    <3> HIDE DEF edge, age
    <3>2. /\ accepted.raw = down /\ accepted.initialized = l.initialized
          /\ accepted.down = TRUE /\ accepted.armed = TRUE /\ accepted.pressed = age
      BY <1>2 DEF PressedAt, Lights
    <3>3. ~l.down /\ age >= Debounce
      <4>1. ~(age < Debounce) /\ ~l.down
        BY <1>1, <1>5, <2>1
      <4> QED
        BY <1>1, <4>1, ConstantsPositive
    <3>4. m = accepted /\ t.click = FALSE
      BY <3>1
    <3> HIDE DEF accepted, m, t
    <3> QED
      BY <1>5, <2>1, <3>2, <3>3, <3>4 DEF age, m, t
  <2>2. CASE ~down
    <3>1. LightTick(l, down) = [l |-> Released(edge), click |-> short]
      BY <1>5, <2>0, <2>2 DEF LightTick
    <3> HIDE DEF edge, age
    <3>2. /\ Released(edge).raw = down /\ Released(edge).initialized = l.initialized
          /\ Released(edge).down = FALSE /\ Released(edge).armed = FALSE
      BY <1>2 DEF Released, Lights
    <3>3. short = (l.armed /\ l.pressed - age < ClickLimit)
      BY <1>2
    <3>4. l.down
      BY <1>1, <1>5, <2>2
    <3>5. m = Released(edge) /\ t.click = short
      BY <3>1
    <3> HIDE DEF short, m, t
    <3> QED
      BY <1>5, <2>2, <3>2, <3>3, <3>4, <3>5 DEF age, m, t
  <2> QED
    BY <2>1, <2>2
<1> QED
  BY <1>1, <1>3, <1>4, <1>5

\* And one of voice_wifi_portal_tick.
LEMMA PortalTicks ==
  ASSUME NEW p \in Portals, NEW down \in BOOLEAN, NEW busy \in BOOLEAN
  PROVE  LET q == PortalTick(p, down, busy) IN
         /\ q.held => down
         /\ q.held /\ ~q.fired => q.hold = 0 \/ (p.held /\ ~p.fired /\ q.hold = p.hold)
         /\ q.fired /\ ~p.fired => down /\ p.held /\ p.hold >= HoldTime
<1> DEFINE r == IF p.active /\ p.open >= PortalTime THEN [p EXCEPT !.active = FALSE] ELSE p
           q == PortalTick(p, down, busy)
<1>1. r \in Portals /\ r.held = p.held /\ r.fired = p.fired /\ r.hold = p.hold
  <2>1. r \in Portals
    BY Zenon DEF Portals
  <2> QED
    BY <2>1 DEF Portals
<1>2. q = IF ~down \/ busy THEN [r EXCEPT !.held = FALSE, !.fired = FALSE]
          ELSE IF ~r.held THEN [r EXCEPT !.held = TRUE, !.hold = 0]
          ELSE IF ~r.fired /\ r.hold >= HoldTime
          THEN [r EXCEPT !.active = TRUE, !.fired = TRUE, !.open = 0]
          ELSE r
  BY DEF PortalTick
<1> HIDE DEF r, q
<1>3. CASE ~down \/ busy
  <2>1. q = [r EXCEPT !.held = FALSE, !.fired = FALSE]
    BY <1>2, <1>3
  <2>2. q.held = FALSE /\ q.fired = FALSE
    BY <1>1, <2>1 DEF Portals
  <2> QED
    BY <2>2 DEF q
<1>4. CASE down /\ ~busy /\ ~r.held
  <2>1. q = [r EXCEPT !.held = TRUE, !.hold = 0]
    BY <1>2, <1>4
  <2>2. q.held = TRUE /\ q.hold = 0 /\ q.fired = r.fired
    BY <1>1, <2>1 DEF Portals
  <2> QED
    BY <1>1, <1>4, <2>2 DEF q
<1>5. CASE down /\ ~busy /\ r.held /\ ~r.fired /\ r.hold >= HoldTime
  <2>1. q = [r EXCEPT !.active = TRUE, !.fired = TRUE, !.open = 0]
    BY <1>2, <1>5
  <2>2. q.fired = TRUE
    BY <1>1, <2>1 DEF Portals
  <2> QED
    BY <1>1, <1>5, <2>2 DEF q
<1>6. CASE down /\ ~busy /\ r.held /\ ~(~r.fired /\ r.hold >= HoldTime)
  <2>1. q = r
    BY <1>2, <1>6
  <2> QED
    BY <1>1, <1>6, <2>1 DEF q
<1> QED
  BY <1>3, <1>4, <1>5, <1>6

\* The ticks of both keep to the order of their ages, and a click is counted from
\* a press during which the portal was not opened.
LEMMA TicksKeepHold ==
  ASSUME TypeInv, HoldInv, AwakeInv, pc = "power",
         NEW searching \in BOOLEAN, NEW readable \in BOOLEAN, PowerTick(searching, readable)
  PROVE  /\ HoldInv'
         /\ light.down /\ ~light'.down /\ LightTick(light, key2).click => ~opened
<1> DEFINE t == LightTick(light, key2)
           m == t.l
           q == PortalTick(portal, key2, Busy)
           age == IF key2 # light.raw THEN 0 ELSE light.changed
<1>1. light \in Lights /\ ArmedFits(light) /\ portal \in Portals /\ key2 \in BOOLEAN
  BY DEF TypeInv, PowerTypes, WorldTypes
<1>2. Busy \in BOOLEAN
  BY DEF Busy, TypeInv, AppTypes, Turns
<1>3. /\ light' = m /\ portal' = q /\ pc' # "power" /\ key2' = key2
      /\ opened' = IF q.fired /\ ~portal.fired THEN TRUE
                   ELSE IF m.down /\ ~light.down THEN FALSE ELSE opened
  BY DEF PowerTick, StillAwake
<1>4. /\ m.raw = key2
      /\ \/ ~light.initialized /\ m.down = key2 /\ ~m.armed /\ ~t.click
         \/ /\ light.initialized /\ (light.down = key2 \/ age < Debounce) /\ ~t.click
            /\ m.down = light.down /\ m.armed = light.armed /\ m.changed = age
            /\ m.pressed = light.pressed
         \/ /\ light.initialized /\ ~light.down /\ key2 /\ age >= Debounce /\ ~t.click
            /\ m.down /\ m.armed /\ m.pressed = age
         \/ /\ light.initialized /\ light.down /\ ~key2
            /\ ~m.down /\ ~m.armed
            /\ t.click = (light.armed /\ light.pressed - age < ClickLimit)
  BY <1>1, LightTicks
<1>5. /\ q.held => key2
      /\ q.held /\ ~q.fired => q.hold = 0 \/ (Counting /\ q.hold = portal.hold)
      /\ q.fired /\ ~portal.fired => key2 /\ Counting /\ portal.hold >= HoldTime
  BY <1>1, <1>2, PortalTicks DEF Counting
<1>6. /\ light.changed \in Nat /\ light.pressed \in Nat /\ portal.hold \in Nat /\ age \in Nat
      /\ light.raw \in BOOLEAN /\ light.down \in BOOLEAN
  <2>1. /\ light.changed \in 0 .. Top /\ light.pressed \in 0 .. ClickLimit + Top
        /\ portal.hold \in 0 .. HoldTime /\ light.raw \in BOOLEAN /\ light.down \in BOOLEAN
    BY <1>1, Zenon DEF Lights, Portals
  <2> QED
    BY <2>1, ConstantsPositive
<1>7. /\ Debounce \in Nat /\ Debounce > 0 /\ ClickLimit \in Nat /\ HoldTime \in Nat
      /\ ClickLimit <= HoldTime
  BY ControlsAssumption
<1>8. /\ portal.held => light.raw
      /\ ~light.down /\ light.raw => (Counting => portal.hold <= light.changed)
      /\ light.armed /\ Counting => light.pressed >= ClickLimit \/ portal.hold <= light.pressed
      /\ opened /\ light.armed =>
           IF light.raw THEN light.pressed >= ClickLimit
           ELSE light.pressed >= ClickLimit + light.changed
  BY DEF HoldInv, OldEnough
<1>9. Counting => light.raw
  BY <1>8 DEF Counting
<1> HIDE DEF t, m, q
<1>10. ~m.down /\ m.raw =>
         /\ m.changed < Debounce
         /\ q.held /\ ~q.fired => q.hold <= m.changed
  <2> SUFFICES ASSUME ~m.down, m.raw PROVE m.changed < Debounce /\ (q.held /\ ~q.fired => q.hold <= m.changed)
    OBVIOUS
  <2>1. key2 /\ ~light.down /\ age < Debounce /\ m.changed = age
    BY <1>1, <1>4, <1>6
  <2>2. Counting => portal.hold <= age
    BY <1>8, <1>9, <2>1
  <2>3. age \in Nat
    BY <1>6
  <2> HIDE DEF age
  <2>4. q.held /\ ~q.fired => q.hold <= age
    BY <1>5, <2>2, <2>3
  <2> QED
    BY <2>1, <2>4
<1>11. m.armed /\ q.held /\ ~q.fired => m.pressed >= ClickLimit \/ q.hold <= m.pressed
  <2> SUFFICES ASSUME m.armed, Counting, q.hold = portal.hold, q.held
               PROVE  m.pressed >= ClickLimit \/ q.hold <= m.pressed
    <3>1. m.pressed \in Nat \/ ~m.armed
      BY <1>4, <1>6
    <3> QED
      BY <1>5, <3>1
  <2>1. CASE m.armed = light.armed /\ m.pressed = light.pressed
    BY <1>8, <2>1
  <2>2. CASE ~light.down /\ key2 /\ m.pressed = age
    BY <1>8, <1>9, <2>2
  <2> QED
    BY <1>4, <2>1, <2>2
<1>12. opened' /\ m.armed =>
         IF m.raw THEN m.pressed >= ClickLimit ELSE m.pressed >= ClickLimit + m.changed
  <2> SUFFICES ASSUME opened', m.armed
               PROVE  IF m.raw THEN m.pressed >= ClickLimit ELSE m.pressed >= ClickLimit + m.changed
    OBVIOUS
  <2>1. CASE q.fired /\ ~portal.fired
    <3>1. m.raw /\ key2 /\ light.raw /\ Counting /\ portal.hold >= ClickLimit
      BY <1>4, <1>5, <1>6, <1>7, <1>9, <2>1
    <3>2. CASE m.armed = light.armed /\ m.pressed = light.pressed
      BY <1>6, <1>7, <1>8, <3>1, <3>2
    <3>3. CASE ~light.down /\ m.pressed = age
      BY <1>6, <1>7, <1>8, <3>1, <3>3
    <3> QED
      BY <1>4, <3>1, <3>2, <3>3
  <2>2. CASE ~(q.fired /\ ~portal.fired)
    <3>1. opened /\ ~(m.down /\ ~light.down)
      BY <1>3, <2>2
    <3>2. light.armed /\ m.changed = age /\ m.pressed = light.pressed
      BY <1>4, <3>1
    <3> QED
      BY <1>1, <1>4, <1>6, <1>7, <1>8, <3>1, <3>2
  <2> QED
    BY <2>1, <2>2
<1>13. HoldInv'
  BY <1>3, <1>4, <1>5, <1>10, <1>11, <1>12 DEF HoldInv, Counting, OldEnough
<1>14. light.down /\ ~m.down /\ t.click => ~opened
  <2> SUFFICES ASSUME light.down, ~m.down, t.click, opened PROVE FALSE
    OBVIOUS
  <2>1. ~key2 /\ light.armed /\ light.pressed - age < ClickLimit
    BY <1>1, <1>4, <1>6
  <2>2. light.pressed >= ClickLimit + age
    BY <1>6, <1>7, <1>8, <2>1
  <2> QED
    BY <1>6, <1>7, <2>1, <2>2
<1> QED
  BY <1>3, <1>13, <1>14 DEF t

\* Between the ticks all ages grow alike.
LEMMA AgesKeepHold ==
  ASSUME TypeInv, HoldInv, NEW n \in 1 .. MaxStep, AppTick(n)
  PROVE  HoldInv'
<1>1. /\ light' = [light EXCEPT !.changed = Aged(@, n, Top),
                                !.pressed = AgedIf(light.armed, @, n, ClickLimit + Top)]
      /\ portal' = [portal EXCEPT !.hold = AgedIf(portal.held /\ ~portal.fired, @, n, HoldTime),
                                  !.open = AgedIf(portal.active, @, n, PortalTime)]
      /\ pc = "app" /\ pc' = "power" /\ opened' = opened
  BY DEF AppTick
<1>2. light \in Lights /\ portal \in Portals
  BY DEF TypeInv, PowerTypes
<1>3. /\ light'.raw = light.raw /\ light'.down = light.down /\ light'.armed = light.armed
      /\ light'.changed = Aged(light.changed, n, Top)
      /\ light.armed => light'.pressed = Aged(light.pressed, n, ClickLimit + Top)
      /\ portal'.held = portal.held /\ portal'.fired = portal.fired
      /\ Counting => portal'.hold = Aged(portal.hold, n, HoldTime)
  BY <1>1, <1>2 DEF Lights, Portals, AgedIf, Counting
<1>4. /\ light.changed \in Nat /\ light.pressed \in Nat /\ portal.hold \in Nat
  <2>1. /\ light.changed \in 0 .. Top /\ light.pressed \in 0 .. ClickLimit + Top
        /\ portal.hold \in 0 .. HoldTime
    BY <1>2, Zenon DEF Lights, Portals
  <2> QED
    BY <2>1, ConstantsPositive
<1>5. n \in Nat /\ n <= MaxStep /\ Top \in Nat /\ Top = Debounce + MaxStep
      /\ Debounce \in Nat /\ MaxStep \in Nat /\ ClickLimit \in Nat /\ HoldTime \in Nat
  BY ConstantsPositive DEF Top
<1>6. /\ portal.held => light.raw
      /\ ~light.down /\ light.raw =>
           light.changed < Debounce /\ (Counting => portal.hold <= light.changed)
      /\ light.armed /\ Counting => light.pressed >= ClickLimit \/ portal.hold <= light.pressed
      /\ opened /\ light.armed =>
           IF light.raw THEN light.pressed >= ClickLimit
           ELSE light.pressed >= ClickLimit + light.changed
  BY <1>1 DEF HoldInv, OldEnough
<1>7. /\ Aged(portal.hold, n, HoldTime) <= portal.hold + n
      /\ Aged(portal.hold, n, HoldTime) \in Nat
  <2>1. portal.hold \in 0 .. HoldTime
    BY <1>2, Zenon DEF Portals
  <2> QED
    BY <1>4, <1>5, <2>1 DEF Aged
<1>8. ~light.down /\ light.raw =>
        /\ light'.changed < Top
        /\ Counting => portal'.hold <= light'.changed
  <2> SUFFICES ASSUME ~light.down, light.raw
               PROVE  light'.changed < Top /\ (Counting => portal'.hold <= light'.changed)
    OBVIOUS
  <2>1. light.changed + n < Top
    BY <1>4, <1>5, <1>6
  <2>2. light'.changed = light.changed + n
    BY <1>3, <2>1 DEF Aged
  <2> QED
    BY <1>3, <1>4, <1>5, <1>6, <1>7, <2>1, <2>2
<1>9. /\ Aged(light.pressed, n, ClickLimit + Top) \in {light.pressed + n, ClickLimit + Top}
      /\ Aged(light.changed, n, Top) <= light.changed + n
      /\ Aged(light.changed, n, Top) <= Top
      /\ Aged(light.changed, n, Top) \in Nat
  <2>1. light.changed \in 0 .. Top
    BY <1>2, Zenon DEF Lights
  <2> QED
    BY <1>4, <1>5, <2>1 DEF Aged
<1>10. light.armed /\ Counting => light'.pressed >= ClickLimit \/ portal'.hold <= light'.pressed
  BY <1>3, <1>4, <1>5, <1>6, <1>7, <1>9
<1>11. opened /\ light.armed =>
         IF light.raw THEN light'.pressed >= ClickLimit
         ELSE light'.pressed >= ClickLimit + light'.changed
  BY <1>3, <1>4, <1>5, <1>6, <1>9
<1>12. Counting' <=> Counting
  BY <1>3 DEF Counting
<1> QED
  BY <1>1, <1>3, <1>6, <1>8, <1>10, <1>11, <1>12 DEF HoldInv, OldEnough

\* The press the driver is waiting for, and the one it has taken, fell while the
\* device was awake.
LEMMA TicksKeepAwake ==
  ASSUME TypeInv, AwakeInv, pc = "power",
         NEW searching \in BOOLEAN, NEW readable \in BOOLEAN, PowerTick(searching, readable)
  PROVE  /\ AwakeInv'
         /\ light.down /\ ~light'.down /\ LightTick(light, key2).click => ~woke
<1> DEFINE t == LightTick(light, key2)
           m == t.l
           age == IF key2 # light.raw THEN 0 ELSE light.changed
<1>1. light \in Lights /\ ArmedFits(light) /\ key2 \in BOOLEAN
  BY DEF TypeInv, PowerTypes, WorldTypes
<1>2. light' = m /\ key2' = key2 /\ woke' = woke /\ opened' \in BOOLEAN
  BY DEF PowerTick, AwakeInv
<1>3. /\ m.raw = key2 /\ m.initialized
      /\ \/ ~light.initialized /\ m.down = key2 /\ ~m.armed /\ ~t.click
         \/ /\ light.initialized /\ (light.down = key2 \/ age < Debounce) /\ ~t.click
            /\ m.down = light.down /\ m.armed = light.armed /\ m.changed = age
            /\ m.pressed = light.pressed
         \/ /\ light.initialized /\ ~light.down /\ key2 /\ age >= Debounce /\ ~t.click
            /\ m.down /\ m.armed /\ m.pressed = age
         \/ /\ light.initialized /\ light.down /\ ~key2
            /\ ~m.down /\ ~m.armed
            /\ t.click = (light.armed /\ light.pressed - age < ClickLimit)
  BY <1>1, LightTicks
<1>4. light.initialized /\ ~light.down /\ key2 => ~woke
  BY DEF AwakeInv
<1>5. light.armed => ~woke
  BY DEF AwakeInv
<1> HIDE DEF t, m, age
<1>6. AwakeInv'
  BY <1>2, <1>3, <1>4, <1>5 DEF AwakeInv
<1>7. light.down /\ ~m.down /\ t.click => ~woke
  <2>1. light.down /\ ~m.down /\ t.click => light.armed
    BY <1>1, <1>3
  <2> QED
    BY <1>5, <2>1
<1> QED
  BY <1>2, <1>6, <1>7 DEF t

LEMMA StepHold ==
  ASSUME TypeInv, HoldInv, AwakeInv, [Next]_vars
  PROVE  /\ HoldInv' /\ AwakeInv'
         /\ light.down /\ ~light'.down /\ pc = "power" /\ LightTick(light, key2).click
              => ~opened /\ ~woke
<1> DEFINE OneMeaning == light.down /\ ~light'.down /\ pc = "power" /\ LightTick(light, key2).click
                           => ~opened /\ ~woke
<1> HIDE DEF OneMeaning
<1>0. light.initialized \in BOOLEAN /\ woke \in BOOLEAN
  BY DEF TypeInv, PowerTypes, Lights, AwakeInv
<1>1. CASE Key1Moves \/ CableMoves \/ VoiceTurn \/ UNCHANGED vars
  <2>1. UNCHANGED <<pc, light, portal, opened, key2, woke>>
    BY <1>1 DEF Key1Moves, CableMoves, VoiceTurn, TurnPlays, TurnEnds, TurnLeaves, vars, power, world
  <2> QED
    BY <2>1 DEF HoldInv, AwakeInv, Counting, OldEnough, OneMeaning
<1>2. CASE Key2Moves
  <2>1. UNCHANGED <<pc, light, portal, opened>> /\ key2' = ~key2
        /\ woke' = IF key2 THEN woke ELSE pc = "asleep"
    BY <1>2 DEF Key2Moves, power
  <2>2. HoldInv' /\ OneMeaning
    BY <2>1 DEF HoldInv, Counting, OldEnough, OneMeaning
  <2>3. AwakeInv'
    <3>1. key2 \in BOOLEAN
      BY DEF TypeInv, WorldTypes
    <3> QED
      BY <2>1, <3>1 DEF AwakeInv
  <2> QED
    BY <2>2, <2>3 DEF OneMeaning
<1>3. ASSUME NEW n \in 1 .. MaxStep, AppTick(n) PROVE HoldInv' /\ AwakeInv' /\ OneMeaning
  <2>1. light' = [light EXCEPT !.changed = Aged(@, n, Top),
                               !.pressed = AgedIf(light.armed, @, n, ClickLimit + Top)]
        /\ pc = "app" /\ pc' = "power" /\ UNCHANGED <<opened, key2, woke>>
    BY <1>3 DEF AppTick, world
  <2>2. /\ light'.raw = light.raw /\ light'.down = light.down /\ light'.armed = light.armed
        /\ light'.initialized = light.initialized
    BY <2>1 DEF TypeInv, PowerTypes, Lights
  <2>3. AwakeInv' /\ OneMeaning
    BY <2>1, <2>2 DEF AwakeInv, OneMeaning
  <2> QED
    BY <1>3, <2>3, AgesKeepHold
<1>4. ASSUME NEW searching \in BOOLEAN, NEW readable \in BOOLEAN, PowerTick(searching, readable)
      PROVE  HoldInv' /\ AwakeInv' /\ OneMeaning
  <2>1. pc = "power"
    BY <1>4 DEF PowerTick
  <2> QED
    BY <1>4, <2>1, TicksKeepHold, TicksKeepAwake DEF OneMeaning
<1>5. CASE ArmInterrupt \/ SleepFails \/ DeepSleep \/ \E readable \in BOOLEAN : Recheck(readable)
  <2>1. /\ pc \notin {"power", "asleep"} /\ pc' # "power"
        /\ UNCHANGED <<light, portal, opened, key2, woke>>
    BY <1>5 DEF ArmInterrupt, SleepFails, DeepSleep, Recheck, NotNow, StillAwake, power, world
  <2>2. HoldInv' /\ AwakeInv' /\ OneMeaning
    BY <2>1 DEF HoldInv, AwakeInv, Counting, OldEnough, OneMeaning
  <2> QED
    BY <2>2 DEF OneMeaning
<1>6. CASE Wake
  <2>1. pc = "asleep" /\ light' = NewLight /\ portal' = NewPortal /\ opened' = FALSE
        /\ UNCHANGED <<key2, woke>>
    BY <1>6 DEF Wake, world
  <2>2. HoldInv' /\ AwakeInv' /\ OneMeaning
    BY <1>0, <2>1 DEF HoldInv, AwakeInv, Counting, OldEnough, NewLight, NewPortal, OneMeaning
  <2> QED
    BY <2>2 DEF OneMeaning
<1>7. HoldInv' /\ AwakeInv' /\ OneMeaning
  BY <1>1, <1>2, <1>3, <1>4, <1>5, <1>6 DEF Next, World, MainLoop, OneMeaning
<1> QED
  BY <1>7 DEF OneMeaning

\* A hold of KEY2 is a brightness click or opens the portal, never both, and the
\* press that woke the device is no click: a click is shorter than the hold that
\* opens the portal, which began no earlier than the press.
THEOREM OneMeaningForAHold == Spec => OneMeaningPerHold
<1>1. Init => HoldInv /\ AwakeInv
  <2> SUFFICES ASSUME Init PROVE HoldInv /\ AwakeInv
    OBVIOUS
  <2>1. light = NewLight /\ portal = NewPortal /\ opened = FALSE /\ woke \in BOOLEAN
    BY DEF Init
  <2>2. /\ ~light.initialized /\ ~light.raw /\ ~light.down /\ ~light.armed
        /\ ~portal.held
    BY <2>1 DEF NewLight, NewPortal
  <2> QED
    BY <2>1, <2>2 DEF HoldInv, AwakeInv, Counting
<1>2. TypeInv /\ HoldInv /\ AwakeInv /\ [Next]_vars => HoldInv' /\ AwakeInv'
  BY StepHold
<1>3. /\ TypeInv /\ HoldInv /\ AwakeInv /\ [Next]_vars
      => [light.down /\ ~light'.down /\ pc = "power" /\ LightTick(light, key2).click
            => ~opened /\ ~woke]_vars
  BY StepHold
<1> QED
  BY <1>1, <1>2, <1>3, InitTypes, StepTypes, PTL DEF Spec, OneMeaningPerHold
=============================================================================
