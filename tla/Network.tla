------------------------------ MODULE Network ------------------------------
(***************************************************************************)
(* How the dictaphone gets on a network (board_sticks3.c, voice_wifi_*.c,  *)
(* voice_config_httpd.c, voice_wireguard.c).  Every 500 ms the Wi-Fi       *)
(* manager opens or closes the setup access point and tries the saved      *)
(* networks by turns; a task started by the page or the manager scans; the *)
(* driver's events reach the flag s_wifi_connected through a queue; the    *)
(* VPN's task looks at the result.                                         *)
(*                                                                         *)
(* Time is counted in periods of the manager.  A task that is due takes    *)
(* its steps before the next period begins, in any order with the others.  *)
(***************************************************************************)
EXTENDS WireGuard, Integers, Sequences

CONSTANTS
  Count,           \* VOICE_WIFI_PROFILE_COUNT
  Saved,           \* the profiles with an SSID
  Addresses,       \* what DHCP may give
  AttemptTime,     \* VOICE_WIFI_ATTEMPT_MS
  ApDelay,         \* SETUP_AP_DELAY_MS
  ScanTime,        \* the 15 s after which a scan is stopped
  MaxEvents        \* bound: losses, failed calls, page requests, manual setups

ASSUME NetworkAssumption ==
  /\ Addresses \subseteq Nat \ {0}
  /\ Count \in Nat \ {0} /\ Saved \subseteq 0 .. Count - 1

VARIABLES
  profiles,        \* s_wifi_profiles: the ones with an SSID
  manager,         \* wifi_manager: where it is, and the profile to connect
  setup,           \* s_wifi_setup, with the age of disconnected_at_ms
  selector,        \* s_wifi_selector, with the age of started_ms
  connected,       \* s_wifi_connected
  manual,          \* s_manual_setup
  server,          \* s_server: "none", "starting" with the mode not read, "up"
  scan,            \* the scan task, s_scan_running and s_scan_ready
  mode,            \* external: esp_wifi_get_mode
  station,         \* external: the station, its profile and its address
  events,          \* external: the event loop's queue
  reachable,       \* external: the profiles whose network is in range
  happened         \* how many of MaxEvents

wifiVars == << profiles, manager, setup, selector, connected, manual,
               server, scan, mode, station, events, reachable, happened >>

vars == << wifiVars, wgVars >>

Happens == happened < MaxEvents /\ happened' = happened + 1

Capped(age, limit) == IF age < limit THEN age + 1 ELSE limit

Off == [at |-> "idle", profile |-> 0, ip |-> 0]

\* wifi_start_with_setup; a start that fails is repeated without the profiles.
Init ==
  /\ profiles \in {Saved, {}}
  /\ manager = [at |-> "setup", profile |-> 0]
  /\ setup = [configured |-> profiles # {}, connected |-> FALSE,
              ap_active |-> profiles = {}, age |-> 0]
  /\ selector = [current |-> -1, connected |-> FALSE, age |-> 0]
  /\ connected = FALSE /\ manual = FALSE /\ server = "none"
  /\ scan = [at |-> "none", running |-> FALSE, ready |-> FALSE, age |-> 0]
  /\ mode = IF profiles = {} THEN "apsta" ELSE "sta"
  /\ station = Off /\ events = << >>
  /\ reachable \in SUBSET profiles
  /\ happened = 0
  /\ WgInit

-----------------------------------------------------------------------------
\* The scan of the page.

Scanning == [at |-> "delay", running |-> TRUE, ready |-> FALSE, age |-> 0]
NoTask == [at |-> "none", running |-> FALSE, ready |-> TRUE, age |-> 0]

\* voice_config_httpd_setup_ap_started: one task at a time, if it can be made.
SetupApStarted ==
  IF server = "none" \/ scan.running THEN UNCHANGED << scan, happened >>
  ELSE \/ scan' = Scanning /\ UNCHANGED happened
       \/ scan' = NoTask /\ Happens

\* A disconnect is reported when there was something to disconnect.
Reported == IF station.at = "idle" THEN events ELSE Append(events, "lost")

\* Slip: the scan begins without its delay of 500 ms.
NoDelay == scan.at = "delay"

Delayed == scan.at = "delay" /\ scan.age >= 1

\* wifi_scan_task: an attempt to connect is broken off, a connection is kept.
ScanStarts ==
  /\ Delayed
  /\ IF station.at = "connecting"
       THEN station' = Off /\ events' = Reported
       ELSE UNCHANGED << station, events >>
  /\ \/ scan' = [scan EXCEPT !.at = "radio", !.age = 0] /\ UNCHANGED happened
     \/ scan' = [scan EXCEPT !.at = "publish"] /\ Happens
  /\ UNCHANGED << profiles, manager, setup, selector, connected, manual,
                  server, mode, reachable, wgVars >>

\* WIFI_EVENT_SCAN_DONE, or esp_wifi_scan_stop after 15 s.
ScanStops ==
  /\ scan.at = "radio"
  /\ scan' = [scan EXCEPT !.at = "publish"]
  /\ UNCHANGED << profiles, manager, setup, selector, connected, manual,
                  server, mode, station, events, reachable, happened, wgVars >>

\* The result under its mutex, then s_scan_running.
ScanEnds ==
  /\ \/ /\ scan.at = "publish"
        /\ scan' = [scan EXCEPT !.at = "release", !.ready = TRUE]
     \/ /\ scan.at = "release"
        /\ scan' = [scan EXCEPT !.at = "none", !.running = FALSE, !.age = 0]
  /\ UNCHANGED << profiles, manager, setup, selector, connected, manual,
                  server, mode, station, events, reachable, happened, wgVars >>

\* h_wifi_scan with refresh=1, or with no result ready.
PageAsks ==
  /\ server # "none" /\ ~scan.running
  /\ Happens
  /\ scan' \in {Scanning, NoTask}
  /\ UNCHANGED << profiles, manager, setup, selector, connected, manual,
                  server, mode, station, events, reachable, wgVars >>

\* voice_config_httpd_start: s_server is set before the mode is read.
ServerStarts ==
  /\ server = "none"
  /\ server' = "starting"
  /\ UNCHANGED << profiles, manager, setup, selector, connected, manual, scan,
                  mode, station, events, reachable, happened, wgVars >>

\* Slip: the page relies on the manager alone for the first scan.
ServerNeverScans ==
  /\ server = "starting"
  /\ server' = "up"
  /\ UNCHANGED << profiles, manager, setup, selector, connected, manual, scan,
                  mode, station, events, reachable, happened, wgVars >>

ServerReadsMode ==
  /\ server = "starting"
  /\ server' = "up"
  /\ IF mode = "apsta" THEN SetupApStarted ELSE UNCHANGED << scan, happened >>
  /\ UNCHANGED << profiles, manager, setup, selector, connected, manual,
                  mode, station, events, reachable, wgVars >>

-----------------------------------------------------------------------------
\* wifi_manager.

\* Slip: the minute begins again in every period.
AgesAnew ==
  [setup EXCEPT !.connected = connected,
                !.age = IF ~connected THEN 0 ELSE @]

\* voice_wifi_setup_set_connected.
Observed ==
  [setup EXCEPT !.connected = connected,
                !.age = IF setup.connected /\ ~connected THEN 0 ELSE @]

ShouldStop(s) == ~manual /\ s.ap_active /\ s.connected

ShouldStart(s) ==
  /\ ~s.ap_active
  /\ manual \/ (~s.connected /\ (~s.configured \/ s.age >= ApDelay))

\* esp_wifi_set_mode may fail; the next period tries again.
SetMode(new, next) ==
  \/ /\ mode' = new
     /\ setup' = [Observed EXCEPT !.ap_active = (new = "apsta")]
     /\ manager' = [manager EXCEPT !.at = next]
     /\ UNCHANGED happened
  \/ /\ Happens
     /\ setup' = Observed
     /\ manager' = [manager EXCEPT !.at = "select"]
     /\ UNCHANGED mode

ManagerSetup ==
  /\ manager.at = "setup"
  /\ CASE ShouldStop(Observed) -> SetMode("sta", "select")
       [] ShouldStart(Observed) -> SetMode("apsta", "announce")
       [] OTHER -> /\ setup' = Observed
                   /\ manager' = [manager EXCEPT !.at = "select"]
                   /\ UNCHANGED << mode, happened >>
  /\ UNCHANGED << profiles, selector, connected, manual, server, scan,
                  station, events, reachable, wgVars >>

ManagerAnnounces ==
  /\ manager.at = "announce"
  /\ SetupApStarted
  /\ manager' = [manager EXCEPT !.at = "select"]
  /\ UNCHANGED << profiles, setup, selector, connected, manual, server,
                  mode, station, events, reachable, wgVars >>

\* Slip: every round begins with the first profile.
FirstAgain == CHOOSE p \in profiles : \A q \in profiles : p <= q

\* The next saved profile after the current one, in a ring.
Following ==
  LET After(offset) == (selector.current + offset) % Count
      first == CHOOSE offset \in 1..Count :
                 /\ After(offset) \in profiles
                 /\ \A less \in 1..(offset - 1) : After(less) \notin profiles
  IN  After(first)

\* voice_wifi_selector_tick: connect to p, or nothing to do.
Tries(p) ==
  /\ selector' = [current |-> p, connected |-> FALSE, age |-> 0]
  /\ manager' = [at |-> "connect", profile |-> p]

Waits ==
  /\ selector' = [selector EXCEPT !.connected = connected]
  /\ manager' = [manager EXCEPT !.at = "asleep"]

SelectorTick ==
  CASE connected -> Waits
    [] ~connected /\ selector.connected -> Tries(selector.current)
    [] ~connected /\ ~selector.connected
         /\ selector.current >= 0 /\ selector.age < AttemptTime -> Waits
    [] OTHER -> IF profiles = {} THEN Waits ELSE Tries(Following)

\* Nothing is tried during a scan, and the attempt's time begins after it.
ManagerSelects ==
  /\ manager.at = "select"
  /\ IF scan.running
       THEN /\ selector' = [selector EXCEPT !.age = 0]
            /\ manager' = [manager EXCEPT !.at = "asleep"]
       ELSE SelectorTick
  /\ UNCHANGED << profiles, setup, connected, manual, server, scan, mode,
                  station, events, reachable, happened, wgVars >>

ManagerConnects ==
  /\ manager.at = "connect"
  /\ events' = Reported
  /\ \/ station' = [at |-> "connecting", profile |-> manager.profile, ip |-> 0]
        /\ UNCHANGED happened
     \/ station' = Off /\ Happens
  /\ manager' = [manager EXCEPT !.at = "asleep"]
  /\ UNCHANGED << profiles, setup, selector, connected, manual, server, scan,
                  mode, reachable, wgVars >>

Manager == ManagerSetup \/ ManagerAnnounces \/ ManagerSelects \/ ManagerConnects

-----------------------------------------------------------------------------
\* The driver, the event handler, the button and the clock.

Associates ==
  /\ station.at = "connecting"
  /\ station' = [station EXCEPT !.at = "associated"]
  /\ UNCHANGED << profiles, manager, setup, selector, connected, manual, server,
                  scan, mode, events, reachable, happened, wgVars >>

GetsIp ==
  /\ station.at = "associated" /\ station.profile \in reachable
  /\ \E ip \in Addresses : station' = [station EXCEPT !.at = "online", !.ip = ip]
  /\ events' = Append(events, "got_ip")
  /\ UNCHANGED << profiles, manager, setup, selector, connected, manual, server,
                  scan, mode, reachable, happened, wgVars >>

Loses ==
  /\ \/ station.at = "connecting" /\ station.profile \notin reachable /\ UNCHANGED happened
     \/ station.at \in {"associated", "online"} /\ Happens
  /\ station' = Off /\ events' = Reported
  /\ UNCHANGED << profiles, manager, setup, selector, connected, manual, server,
                  scan, mode, reachable, wgVars >>

\* wifi_event_handler.
WifiEvent ==
  /\ events # << >>
  /\ connected' = (Head(events) = "got_ip")
  /\ events' = Tail(events)
  /\ UNCHANGED << profiles, manager, setup, selector, manual, server, scan,
                  mode, station, reachable, happened, wgVars >>

\* voice_wifi_portal_tick, seen from here; it closes by itself.
ManualSetup ==
  /\ manual' = ~manual
  /\ IF manual THEN UNCHANGED happened ELSE Happens
  /\ UNCHANGED << profiles, manager, setup, selector, connected, server, scan,
                  mode, station, events, reachable, wgVars >>

\* A network in range answers before the attempt is given up.
Answering ==
  /\ station.at \in {"connecting", "associated"}
  /\ station.profile \in reachable

Period ==
  /\ manager.at = "asleep" /\ events = << >>
  /\ scan.at \notin {"publish", "release"}
  /\ scan.at = "delay" => scan.age = 0
  /\ scan.at = "radio" => scan.age < ScanTime
  /\ Answering => selector.age < AttemptTime - 1
  /\ manager' = [manager EXCEPT !.at = "setup"]
  /\ setup' = [setup EXCEPT !.age = IF setup.connected THEN 0 ELSE Capped(@, ApDelay)]
  /\ selector' = [selector EXCEPT !.age = IF selector.connected THEN 0
                                         ELSE Capped(@, AttemptTime)]
  /\ scan' = [scan EXCEPT !.age = IF scan.running THEN Capped(@, ScanTime) ELSE 0]
  /\ UNCHANGED << profiles, connected, manual, server, mode, station, events,
                  reachable, happened, wgVars >>

\* The VPN's task; a call of the library that fails is one of MaxEvents.
WireGuardTask ==
  /\ \/ /\ \/ Look(station.at = "online", mode = "apsta", station.ip)
           \/ WgTick \/ ClockSet
        /\ UNCHANGED happened
     \/ (OpenFails \/ TickLost) /\ Happens
  /\ UNCHANGED << profiles, manager, setup, selector, connected, manual, server,
                  scan, mode, station, events, reachable >>

Next ==
  \/ Manager \/ WifiEvent \/ Period \/ ManualSetup
  \/ ScanStarts \/ ScanStops \/ ScanEnds \/ PageAsks
  \/ ServerStarts \/ ServerReadsMode
  \/ Associates \/ GetsIp \/ Loses
  \/ WireGuardTask

(* The tasks run: FreeRTOS schedules the manager, the scan and the event   *)
(* loop, and time passes.  A network in range answers.                     *)
FairSpec ==
  /\ Init /\ [][Next]_vars
  /\ WF_vars(Manager) /\ WF_vars(WifiEvent) /\ WF_vars(Period)
  /\ WF_vars(ScanStarts \/ ScanStops \/ ScanEnds)
  /\ WF_vars((Associates /\ Answering) \/ GetsIp)

-----------------------------------------------------------------------------
\* Every variable keeps to its type, and the manager knows the mode it set.
NetworkTypeOK ==
  /\ WgTypeOK
  /\ manager.at \in {"asleep", "setup", "announce", "select", "connect"}
  /\ selector.current \in -1..(Count - 1)
  /\ setup.ap_active = (mode = "apsta")
  /\ scan.at \in {"none", "delay", "radio", "publish", "release"}
  /\ scan.running <=> scan.at # "none"
  /\ station.at = "online" <=> station.ip # 0
  /\ Len(events) <= 4

(* Whoever opens the setup network or starts the page first, the page has  *)
(* a list of networks or one on its way: the first scan is not lost        *)
(* between the mode and s_server, which two tasks set                      *)
(* (board_sticks3.c:105-109, voice_config_httpd.c:561, 583, 593-595).      *)
PortalHasScan ==
  server = "up" /\ mode = "apsta" /\ manager.at = "asleep"
    => scan.running \/ scan.ready

(* "A scan owns the radio briefly; do not interrupt it with connect()":    *)
(* although s_scan_running is read before the driver is called, no network *)
(* is tried while the radio scans (board_sticks3.c:114-126).               *)
ScanOwnsRadio == [][ManagerConnects => scan.at # "radio"]_vars

(* Once its events are handled, s_wifi_connected says whether the station  *)
(* has an address, over attempts broken off by the manager and by a scan   *)
(* (board_sticks3.c:72-87).                                                *)
FlagIsTrue == events = << >> => (connected <=> station.at = "online")

(* A device that stays offline opens its setup network                     *)
(* (README.md:41, voice_wifi_setup.c:27-32).                               *)
SetupOpens == [](~connected => <>(connected \/ mode = "apsta"))

(* A saved network in range is joined, whatever other profiles come before *)
(* it, whoever scans, and after every loss of the connection               *)
(* (voice_wifi_profiles.c:38-60).                                          *)
JoinsReachable == (reachable # {}) ~> connected
=============================================================================
